----------------------------- MODULE AtomicStore -----------------------------
(***************************************************************************)
(* The store of application/fakes.py, against which the service is unit    *)
(* tested.  A unit of work holds transaction_lock from __aenter__ to       *)
(* __aexit__ and an exception restores the snapshot taken at its start, so *)
(* every operation either happens in one step or changes nothing.          *)
(***************************************************************************)
EXTENDS MemoryCommands

VARIABLES memories, versions, relations, tombstones, ledger

store == <<memories, versions, relations, tombstones, ledger>>

AtomicInit ==
    /\ memories = [i \in Ids |-> Null]
    /\ versions = {}
    /\ relations = {}
    /\ tombstones = {}
    /\ ledger = [o \in LedgerKeys |-> Null]

\* claim(): a key that was used is a replay or a conflict and changes nothing
Unclaimed(k) == k.key = Null \/ ledger[LedgerKey(k)] = Null

\* The row complete() leaves
Completed(k, result, version, answer) ==
    [print |-> Fingerprint(k), status |-> "completed", id |-> k.id,
     version |-> version, result |-> result, answer |-> answer]

\* complete(), for an operation that has a key
Record(k, result, version, answer) ==
    ledger' = IF k.key = Null THEN ledger
              ELSE [ledger EXCEPT ![LedgerKey(k)] = Completed(k, result, version, answer)]

\* The relation an update or a relate adds
NewRelations(k) ==
    IF k.rel = Null THEN {}
    ELSE {[source |-> k.id, target |-> k.other, type |-> k.rel]}

\* The conditions of add_relation
Linkable(k) ==
    NewRelations(k) # {} => memories[k.other] # Null /\ NewRelations(k) \cap relations = {}

\* write and capture of a key no memory holds, under a new identifier
AtomicWrite(k, i) ==
    LET row == Create(k.content, k.state, k.key) IN
    /\ k.op = "write"
    /\ memories[i] = Null /\ i \notin tombstones
    /\ k.key # Null => \A j \in Ids : memories[j] # Null => memories[j].key # k.key
    /\ memories' = [memories EXCEPT ![i] = row]
    /\ versions' = versions \cup {SnapshotOf(i, row)}
    /\ UNCHANGED <<relations, tombstones, ledger>>

\* update, confirm_candidate, and a pin that changes the state
AtomicChange(k) ==
    LET row == memories[k.id]
        new == Evolve(row, NewContent(k, row), Target(k, row))
    IN /\ k.op \in {"update", "confirm", "pin"}
       /\ Unclaimed(k) /\ Permits(k, row) /\ Linkable(k)
       /\ k.op = "pin" => row.state # k.state
       /\ memories' = [memories EXCEPT ![k.id] = new]
       /\ versions' = versions \cup {SnapshotOf(k.id, new)}
       /\ relations' = relations \cup NewRelations(k)
       /\ Record(k, "updated", new.version, new)
       /\ UNCHANGED tombstones

\* A pin of what already has the state asked for
AtomicKeep(k) ==
    LET row == memories[k.id] IN
    /\ k.op = "pin" /\ Unclaimed(k) /\ Permits(k, row) /\ row.state = k.state
    /\ Record(k, "updated", row.version, row)
    /\ UNCHANGED <<memories, versions, relations, tombstones>>

AtomicRelate(k) ==
    /\ k.op = "relate" /\ Permits(k, memories[k.id]) /\ Linkable(k)
    /\ relations' = relations \cup NewRelations(k)
    /\ UNCHANGED <<memories, versions, tombstones, ledger>>

\* forget, or discard_candidate, of a memory there is
AtomicRemove(k) ==
    /\ k.op \in {"forget", "discard"} /\ Unclaimed(k)
    /\ memories[k.id] # Null
    /\ k.op = "discard" => Permits(k, memories[k.id])
    /\ memories' = [memories EXCEPT ![k.id] = Null]
    /\ versions' = {s \in versions : s.id # k.id}
    /\ relations' = {r \in relations : k.id \notin {r.source, r.target}}
    /\ tombstones' = tombstones \cup {k.id}
    /\ Record(k, "forgotten", 0, Null)

\* forget of a memory there is not
AtomicAbsent(k) ==
    /\ k.op = "forget" /\ Unclaimed(k) /\ memories[k.id] = Null
    /\ Record(k, "already_absent", 0, Null)
    /\ UNCHANGED <<memories, versions, relations, tombstones>>

AtomicNext ==
    \E k \in Commands :
        \/ \E i \in Ids : AtomicWrite(k, i)
        \/ AtomicChange(k) \/ AtomicKeep(k) \/ AtomicRelate(k)
        \/ AtomicRemove(k) \/ AtomicAbsent(k)

AtomicSpec == AtomicInit /\ [][AtomicNext]_store
==============================================================================
