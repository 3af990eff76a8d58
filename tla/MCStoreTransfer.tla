--------------------------- MODULE MCStoreTransfer ---------------------------
(* A store with one memory of its own and two package files. *)
EXTENDS StoreTransfer

CONSTANTS i1, i2, a, b, k1

Cmd(op, id, ev, key, content, state) ==
    [op |-> op, id |-> id, ev |-> ev, key |-> key, content |-> content,
     state |-> state, other |-> Null, rel |-> Null]

TransferCommands ==
    {Cmd("write",  Null, 0, k1, a, "active"),
     Cmd("update", i1, 1, Null, b, Null),
     Cmd("update", i2, 2, Null, a, Null),
     Cmd("forget", i1, 0, Null, Null, Null),
     Cmd("forget", i2, 0, Null, Null, Null)}

Second == [version |-> 2, content |-> b, state |-> "active", key |-> k1,
           print |-> [content |-> a, state |-> "active"]]

First == [Second EXCEPT !.version = 1, !.content = a]

\* A backup of i2 at version 2, with and without its vector, and one whose
\* first snapshot is missing.
PackageFiles ==
    {[id |-> i2, row |-> Second, vector |-> v,
      history |-> {SnapshotOf(i2, First), SnapshotOf(i2, Second)}] : v \in BOOLEAN}
    \cup {[id |-> i2, row |-> Second, vector |-> TRUE,
           history |-> {SnapshotOf(i2, Second)}]}
==============================================================================
