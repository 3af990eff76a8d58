-------------------------- MODULE MCTenantRequests ---------------------------
(* Two tenants and a Community owner.  Each tenant's requests also arrive at  *)
(* the other runtime and without a tenant.                                    *)
EXTENDS TenantRequests, TLC

CONSTANTS t1, t2, o1, o2, o3, i1, a, b

TenantOfOwner == [o \in Owners |-> CASE o = o1 -> t1 [] o = o2 -> t2 [] OTHER -> None]

\* The principal of the second tenant may not delete.
ScopesOf == [o \in Owners |-> IF o = o2 THEN {"memory:read", "memory:write"}
                              ELSE {"memory:read", "memory:write", "memory:delete"}]

Request(o, http, cloud, tool, ev, c) ==
    [owner |-> o, http |-> http, cloud |-> cloud, tool |-> tool,
     id |-> i1, expected |-> ev, content |-> c]

MixedCommands ==
    {Request(o1, TRUE, TRUE, "write", 1, a), Request(o1, TRUE, TRUE, "update", 1, b),
     Request(o1, TRUE, TRUE, "update", 2, None), Request(o1, TRUE, TRUE, "forget", 1, None),
     Request(o1, TRUE, TRUE, "search", 1, None),
     Request(o2, TRUE, TRUE, "write", 1, b), Request(o2, TRUE, TRUE, "forget", 1, None),
     Request(o2, TRUE, TRUE, "update", 1, a),
     Request(o1, FALSE, FALSE, "write", 1, b), Request(o1, FALSE, FALSE, "update", 1, a),
     Request(o1, FALSE, FALSE, "forget", 1, None), Request(o1, FALSE, FALSE, "search", 1, None),
     Request(o3, FALSE, FALSE, "write", 1, a),
     Request(o1, FALSE, TRUE, "write", 1, a), Request(o1, TRUE, FALSE, "write", 1, a),
     Request(o1, TRUE, FALSE, "search", 1, None)}

Symmetric == Permutations(Requests)
==============================================================================
