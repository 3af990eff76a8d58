--------------------------- MODULE MCAccountAccess ---------------------------
(* A small instance of AccountAccess. *)
EXTENDS AccountAccess, TLC

CalledTools == {"write", "forget"}

\* An agent that may do everything, and one that may only read.
CredentialGrants == {Scopes, {"memory:read"}}

Symmetric == Permutations(Owners) \cup Permutations(Links)
==============================================================================
