--------------------------- MODULE MCTenantWorker ----------------------------
(* Envelopes, their nonces and the enqueue calls TLC enumerates. *)
EXTENDS TenantWorker, TLC

CONSTANTS n1, n2, e1, e2, d1, d2, ref

NonceOf == [e \in Envelopes |-> IF e = e1 THEN n1 ELSE n2]

Request(e, d) == [envelope |-> e, key |-> d, ref |-> ref]

\* Two envelopes for one key, and one envelope sent under two keys.
Contending == {Request(e1, d1), Request(e2, d1), Request(e2, d2)}

\* The calls of run_one are interchangeable.
Symmetric == Permutations(Runners)
==============================================================================
