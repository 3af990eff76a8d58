---------------------------- MODULE MCMemoryStore ----------------------------
(* Small instances of StoreRefinement: the command sets TLC enumerates. *)
EXTENDS StoreRefinement

CONSTANTS i1, i2, a, b, k1

Cmd(op, id, ev, key, content, state) ==
    [op |-> op, id |-> id, ev |-> ev, key |-> key, content |-> content,
     state |-> state, other |-> Null, rel |-> Null]

Linked(k, rel, other) == [k EXCEPT !.rel = rel, !.other = other]

\* A memory from candidate to archived, with every keyed operation contending
\* for the same key, two fingerprints per operation, and a keyless write.
LifecycleCommands ==
    {Cmd("write",   Null, 0, k1, a, "candidate"),
     Cmd("write",   Null, 0, k1, b, "active"),
     Cmd("confirm", i1, 1, k1, Null, Null),
     Cmd("confirm", i1, 1, k1, b, Null),
     Cmd("pin",     i1, 2, k1, Null, "pinned"),
     Cmd("pin",     i1, 2, k1, Null, "confirmed"),
     Cmd("update",  i1, 1, k1, b, Null),
     Cmd("update",  i1, 2, Null, a, "archived"),
     Cmd("update",  i1, 3, k1, Null, "stale"),
     Cmd("discard", i1, 1, k1, Null, Null),
     Cmd("forget",  i1, 0, k1, Null, Null)}

\* Two memories that are updated, confirmed, pinned, supersede, contradict and
\* relate to each other while either may be forgotten.
RelationCommands ==
    {Cmd("write",  Null, 0, k1, a, "candidate"),
     Cmd("write",  Null, 0, Null, a, "active"),
     Cmd("confirm", i1, 1, k1, b, Null),
     Cmd("pin",    i1, 2, k1, Null, "pinned"),
     Cmd("update", i1, 1, Null, b, Null),
     Linked(Cmd("update", i1, 1, k1, Null, Null), "supersedes", i2),
     Linked(Cmd("update", i2, 1, Null, Null, Null), "contradicts", i1),
     Linked(Cmd("relate", i1, 0, Null, Null, Null), "related_to", i2),
     Linked(Cmd("relate", i2, 0, Null, Null, Null), "related_to", i1),
     Cmd("forget", i1, 0, Null, Null, Null),
     Cmd("forget", i2, 0, k1, Null, Null)}

\* A discard beside a confirmation of the same candidate.
DiscardCommands ==
    {Cmd("write",   Null, 0, k1, a, "candidate"),
     Cmd("confirm", i1, 1, k1, Null, Null),
     Cmd("discard", i1, 1, k1, Null, Null)}
==============================================================================
