----------------------------- MODULE MemoryStore -----------------------------
(***************************************************************************)
(* MemoryApplicationService over PostgreSQL.                               *)
(*                                                                         *)
(* Every operation is one unit of work, that is one READ COMMITTED         *)
(* transaction of several statements.  A statement reads the committed     *)
(* tables; what it writes stays in the transaction (effect, entry) until   *)
(* Commit.  A transaction holds the locks of what it has written and not   *)
(* yet committed: the ledger row it claimed, the memory row it inserted,   *)
(* updated or deleted, the relations its DELETE has cascaded over, and a   *)
(* key-share lock on the two endpoints of a relation it inserted.  A       *)
(* statement that needs a lock another transaction holds is not enabled    *)
(* until that transaction ends.                                            *)
(*                                                                         *)
(* The store is that of one owner: every key, constraint and predicate of  *)
(* the repository is scoped by owner_id.                                   *)
(***************************************************************************)
EXTENDS MemoryCommands, FiniteSets

CONSTANT Clients    \* concurrent requests the service is handling

\* The uncommitted writes of a transaction
Effect == [kind  : {"none", "insert", "update", "delete"},
           id    : Ids \cup {Null},
           row   : Row \cup {Null},
           snaps : SUBSET Snapshot,
           rels  : SUBSET Relation]

NoEffect == [kind |-> "none", id |-> Null, row |-> Null,
             snaps |-> {}, rels |-> {}]

VARIABLES
    memories,     \* committed memories rows
    versions,     \* committed memory_versions rows
    relations,    \* committed memory_relations rows
    tombstones,   \* committed memory_tombstones rows
    ledger,       \* committed idempotency_operations rows
    pc,           \* per client: the next statement of its transaction
    cmd,          \* the command it executes
    seen,         \* the memory its get() returned
    effect,       \* its uncommitted writes
    entry         \* the ledger row it claimed, as it would commit it

tables == <<memories, versions, relations, tombstones, ledger>>
local  == <<pc, cmd, seen, effect, entry>>
vars   == <<tables, local>>

Steps == {"idle", "find", "insert", "refind", "claim", "replay", "read",
          "write", "link", "remove", "sources", "targets", "complete", "commit"}

TypeOK ==
    /\ memories \in [Ids -> Row \cup {Null}]
    /\ versions \in SUBSET Snapshot
    /\ relations \in SUBSET Relation
    /\ tombstones \in SUBSET Ids
    /\ ledger \in [LedgerKeys -> Entry \cup {Null}]
    /\ pc \in [Clients -> Steps]
    /\ cmd \in [Clients -> Command \cup {Null}]
    /\ seen \in [Clients -> Row \cup {Null}]
    /\ effect \in [Clients -> Effect]
    /\ entry \in [Clients -> Entry \cup {Null}]

Init ==
    /\ memories = [i \in Ids |-> Null]
    /\ versions = {}
    /\ relations = {}
    /\ tombstones = {}
    /\ ledger = [o \in LedgerKeys |-> Null]
    /\ pc = [c \in Clients |-> "idle"]
    /\ cmd = [c \in Clients |-> Null]
    /\ seen = [c \in Clients |-> Null]
    /\ effect = [c \in Clients |-> NoEffect]
    /\ entry = [c \in Clients |-> Null]

------------------------------------------------------------------------------
(* Locks, as the uncommitted writes imply them *)

Writes(d, i) == effect[d].kind # "none" /\ effect[d].id = i
Deletes(d, i) == effect[d].kind = "delete" /\ effect[d].id = i
Shares(d, i) == \E r \in effect[d].rels : i \in {r.source, r.target}

\* Mutant: UPDATE passes a pending DELETE of the row.
CanUpdate_NoWait(c, i) == TRUE

\* UPDATE waits for another writer of the row; a key-share lock lets it pass.
CanUpdate(c, i) == \A d \in Clients \ {c} : ~Writes(d, i)

\* DELETE also waits for the transactions whose new relation points at the row.
CanDelete(c, i) ==
    \A d \in Clients \ {c} : ~Writes(d, i) /\ ~Shares(d, i)

\* The committed relations that the cascade c is at deletes
Cascaded(c) ==
    {r \in relations : \/ pc[c] = "sources" /\ r.source = cmd[c].id
                       \/ pc[c] = "targets" /\ r.target = cmd[c].id}

\* The committed relations that the cascades of d have deleted and hold
Holds(d, r) ==
    \/ Deletes(d, r.source) /\ pc[d] # "sources"
    \/ Deletes(d, r.target) /\ pc[d] \notin {"sources", "targets"}

\* A cascade waits for a pending delete that holds a relation it must delete.
Waits(c, d) == c # d /\ \E r \in Cascaded(c) : Holds(d, r)

\* Cascades that wait for each other: the deletes of two memories with relations
\* in both directions, each past its first cascade.
Deadlocked(c) ==
    \E S \in SUBSET Clients :
        /\ c \in S
        /\ \A d \in S : (\E e \in S : Waits(d, e)) /\ (\E e \in S : Waits(e, d))

\* Mutants: no foreign keys; foreign keys that need the whole row.
CanLink_NoForeignKey(c, r) == \A d \in Clients \ {c} : r \notin effect[d].rels
CanLink_RowLock(c, r) ==
    \A d \in Clients \ {c} : ~Writes(d, r.source) /\ ~Writes(d, r.target)

\* The foreign keys of a new relation wait for a pending DELETE of an endpoint,
\* its primary key for the same relation inserted and not yet committed.
CanLink(c, r) ==
    \A d \in Clients \ {c} :
        /\ ~Deletes(d, r.source)
        /\ ~Deletes(d, r.target)
        /\ r \notin effect[d].rels

\* Mutant: no unique index on the write key.
CanInsert_NoIndex(c, key) == TRUE

\* The unique index (owner_id, idempotency_key) makes INSERT wait for a
\* pending insert of the same key and for a pending delete of its holder.
CanInsert(c, key) ==
    key = Null \/ \A d \in Clients \ {c} :
        /\ effect[d].kind = "insert" => effect[d].row.key # key
        /\ effect[d].kind = "delete" => memories[effect[d].id].key # key

\* Mutant: claims of the same key do not wait for each other.
CanClaim_NoWait(c, k) == TRUE

\* The primary key of the ledger and SELECT ... FOR UPDATE serialise the
\* transactions that claim the same operation key.
CanClaim(c, k) ==
    \A d \in Clients \ {c} : entry[d] # Null => LedgerKey(cmd[d]) # LedgerKey(k)

------------------------------------------------------------------------------
(* The transaction itself *)

Goto(c, step) == pc' = [pc EXCEPT ![c] = step]

\* PostgresUnitOfWork.__aexit__ closes the session; nothing local survives.
EndTransaction(c) ==
    /\ pc' = [pc EXCEPT ![c] = "idle"]
    /\ cmd' = [cmd EXCEPT ![c] = Null]
    /\ seen' = [seen EXCEPT ![c] = Null]
    /\ effect' = [effect EXCEPT ![c] = NoEffect]
    /\ entry' = [entry EXCEPT ![c] = Null]

\* An exception, or a return without any write: the tables keep their value.
Rollback(c) == EndTransaction(c) /\ UNCHANGED tables

FirstStep(k) ==
    CASE k.op = "write" -> "find"
      [] k.op \in LedgerOps /\ k.key # Null -> "claim"
      [] k.op = "forget" /\ k.key = Null -> "remove"
      [] OTHER -> "read"

\* uuid4(): an identifier no row, tombstone or open request carries
FreshId(i) ==
    /\ memories[i] = Null
    /\ i \notin tombstones
    /\ \A d \in Clients : cmd[d] # Null => cmd[d].id # i

\* The identifier of an open write, which no client has been told
Unrevealed(i) == \E d \in Clients : cmd[d] # Null /\ cmd[d].op = "write" /\ cmd[d].id = i

\* A request reaches the service and opens its unit of work.
Begin(c) ==
    /\ pc[c] = "idle"
    /\ \E k \in Commands :
         /\ \/ k.op # "write" /\ ~Unrevealed(k.id) /\ cmd' = [cmd EXCEPT ![c] = k]
            \/ /\ k.op = "write"
               /\ \E i \in Ids : /\ FreshId(i)
                                 /\ cmd' = [cmd EXCEPT ![c] = [k EXCEPT !.id = i]]
         /\ Goto(c, FirstStep(k))
    /\ UNCHANGED <<tables, seen, effect, entry>>

\* call_tool's timeout, a failing embedding provider, a lost connection or a
\* crash: __aexit__ or the server rolls the transaction back.
Abort(c) == pc[c] # "idle" /\ Rollback(c)

\* __aexit__ without an exception.  DELETE cascades to versions and relations.
Commit(c) ==
    LET e == effect[c] IN
    /\ pc[c] = "commit"
    /\ memories' = [i \in Ids |-> IF Writes(c, i) THEN e.row ELSE memories[i]]
    /\ versions' = {s \in versions : ~Deletes(c, s.id)} \cup e.snaps
    /\ relations' = {r \in relations : /\ ~Deletes(c, r.source)
                                       /\ ~Deletes(c, r.target)} \cup e.rels
    /\ tombstones' = tombstones \cup {i \in Ids : Deletes(c, i)}
    /\ ledger' = [o \in LedgerKeys |->
                    IF entry[c] # Null /\ LedgerKey(cmd[c]) = o
                    THEN entry[c] ELSE ledger[o]]
    /\ EndTransaction(c)

------------------------------------------------------------------------------
(* write and capture *)

\* find_by_idempotency_key: a hit ends the transaction, whether it replays
\* the stored memory or the fingerprint makes it a conflict.
HolderOf(key) == {i \in Ids : key # Null /\ memories[i] # Null
                              /\ memories[i].key = key}

Find(c) ==
    /\ pc[c] = "find"
    /\ \/ /\ HolderOf(cmd[c].key) # {}
          /\ Rollback(c)
       \/ /\ HolderOf(cmd[c].key) = {}
          /\ Goto(c, "insert")
          /\ UNCHANGED <<tables, cmd, seen, effect, entry>>

\* PostgresMemoryRepository.create: INSERT ... ON CONFLICT DO NOTHING, then
\* the vector, the first snapshot and the audit row.
Insert(c) ==
    LET k == cmd[c]
        row == Create(k.content, k.state, k.key)
    IN /\ pc[c] = "insert"
       /\ CanInsert(c, k.key)
       /\ \/ /\ HolderOf(k.key) # {}
             /\ Goto(c, "refind")
             /\ UNCHANGED effect
          \/ /\ HolderOf(k.key) = {}
             /\ effect' = [effect EXCEPT ![c] =
                             [kind |-> "insert", id |-> k.id, row |-> row,
                              snaps |-> {SnapshotOf(k.id, row)}, rels |-> {}]]
             /\ Goto(c, "commit")
       /\ UNCHANGED <<tables, cmd, seen, entry>>

\* The lookup after a conflicting insert: replay, or conflict when the holder
\* differs or has been forgotten since.
Refind(c) == pc[c] = "refind" /\ Rollback(c)

------------------------------------------------------------------------------
(* The idempotency ledger *)

\* PostgresIdempotencyRepository.claim: a new in_progress row, a replay of a
\* completed one, or an error (fingerprint differs, still in progress).
Claim(c) ==
    LET k == cmd[c]
        row == ledger[LedgerKey(k)]
    IN /\ pc[c] = "claim"
       /\ CanClaim(c, k)
       /\ \/ /\ row = Null
             /\ entry' = [entry EXCEPT ![c] = InProgress(k)]
             /\ Goto(c, IF k.op = "forget" THEN "remove" ELSE "read")
             /\ UNCHANGED <<tables, cmd, seen, effect>>
          \/ /\ row # Null
             /\ row.print = Fingerprint(k) /\ row.status = "completed"
             /\ entry' = [entry EXCEPT ![c] = row]
             /\ Goto(c, "replay")
             /\ UNCHANGED <<tables, cmd, seen, effect>>
          \/ /\ row # Null
             /\ row.print # Fingerprint(k) \/ row.status # "completed"
             /\ Rollback(c)

\* Mutant: a replay returns the memory as it is now.
GetVersion_Current(i, v) == {SnapshotOf(i, memories[i])}

\* get_version: the row itself when it has the wanted version, else its snapshot
GetVersion(i, v) ==
    IF memories[i] # Null /\ memories[i].version = v
    THEN {SnapshotOf(i, memories[i])}
    ELSE {s \in versions : s.id = i /\ s.version = v /\ memories[i] # Null}

\* A replay reads and returns; NotFound when the memory is gone.
Replay(c) == pc[c] = "replay" /\ Rollback(c)

\* PostgresIdempotencyRepository.complete
Complete(c) ==
    LET e == effect[c]
        absent == IF e.kind = "delete" THEN "forgotten" ELSE "already_absent"
        returned == IF e.kind = "update" THEN e.row ELSE seen[c]
    IN /\ pc[c] = "complete"
       /\ entry' = [entry EXCEPT ![c] =
            IF cmd[c].op \in {"forget", "discard"}
            THEN [@ EXCEPT !.status = "completed", !.result = absent]
            ELSE [@ EXCEPT !.status = "completed", !.result = "updated",
                           !.version = returned.version, !.answer = returned]]
       /\ Goto(c, "commit")
       /\ UNCHANGED <<tables, cmd, seen, effect>>

AfterWrite(k) == IF k.key = Null THEN "commit" ELSE "complete"

------------------------------------------------------------------------------
(* update, confirm, pin, discard, relate: get the memory, decide, write *)

\* The checks between get() and the write of each operation
Accepts(k, row) ==
    /\ Permits(k, row)
    /\ k.other # Null => k.other # k.id /\ memories[k.other] # Null

\* Mutant: the early return of pin forgets to complete its claim.
AfterRead_PinForgets(k, row) ==
    CASE k.op = "discard" -> "remove"
      [] k.op = "relate"  -> "link"
      [] k.op = "pin" /\ row.state = k.state -> "commit"
      [] OTHER -> "write"

\* Pinning what is pinned (or unpinning what is not) only completes the claim.
AfterRead(k, row) ==
    CASE k.op = "discard" -> "remove"
      [] k.op = "relate"  -> "link"
      [] k.op = "pin" /\ row.state = k.state -> "complete"
      [] OTHER -> "write"

Read(c) ==
    LET k == cmd[c]
        row == memories[k.id]
    IN /\ pc[c] = "read"
       /\ \/ /\ Accepts(k, row)
             /\ seen' = [seen EXCEPT ![c] = row]
             /\ Goto(c, AfterRead(k, row))
             /\ UNCHANGED <<tables, cmd, effect, entry>>
          \/ /\ ~Accepts(k, row)
             /\ Rollback(c)

\* Mutant: UPDATE by identifier only.
Swappable_ById(k) == memories[k.id] # Null

\* The WHERE clause of the compare-and-swap UPDATE
Swappable(k) == memories[k.id] # Null /\ memories[k.id].version = k.ev

\* The row UPDATE leaves: the write key and its fingerprint are immutable fields
\* that it does not set, whatever row the new value was evolved from.
Updated(old, new) ==
    [version |-> new.version, content |-> new.content, state |-> new.state,
     key |-> old.key, print |-> old.print]

\* PostgresMemoryRepository.update: UPDATE ... WHERE version = expected_version
\* of the value evolved from the row read before; zero rows is an error.
Write(c) ==
    LET k == cmd[c]
        new == Evolve(seen[c], NewContent(k, seen[c]), Target(k, seen[c]))
        row == Updated(memories[k.id], new)
    IN /\ pc[c] = "write"
       /\ CanUpdate(c, k.id)
       /\ \/ /\ Swappable(k)
             /\ effect' = [effect EXCEPT ![c] =
                             [kind |-> "update", id |-> k.id, row |-> row,
                              snaps |-> {SnapshotOf(k.id, row)}, rels |-> {}]]
             /\ Goto(c, IF k.rel # Null THEN "link" ELSE AfterWrite(k))
             /\ UNCHANGED <<tables, cmd, seen, entry>>
          \/ ~Swappable(k) /\ Rollback(c)

\* PostgresMemoryRepository.add_relation
Link(c) ==
    LET k == cmd[c]
        r == [source |-> k.id, target |-> k.other, type |-> k.rel]
        ok == memories[k.id] # Null /\ memories[k.other] # Null /\ r \notin relations
    IN /\ pc[c] = "link"
       /\ CanLink(c, r)
       /\ \/ /\ ok
             /\ effect' = [effect EXCEPT ![c].rels = {r}]
             /\ Goto(c, AfterWrite(k))
             /\ UNCHANGED <<tables, cmd, seen, entry>>
          \/ ~ok /\ Rollback(c)

\* PostgresMemoryRepository.forget: DELETE by owner and id, then the tombstone.
\* A hit goes on to its cascades; a miss deletes nothing.
Remove(c) ==
    LET k == cmd[c] IN
    /\ pc[c] = "remove"
    /\ CanDelete(c, k.id)
    /\ \/ /\ memories[k.id] # Null
          /\ effect' = [effect EXCEPT ![c] =
                          [kind |-> "delete", id |-> k.id, row |-> Null,
                           snaps |-> {}, rels |-> {}]]
          /\ Goto(c, "sources")
       \/ /\ memories[k.id] = Null
          /\ Goto(c, AfterWrite(k))
          /\ UNCHANGED effect
    /\ UNCHANGED <<tables, cmd, seen, entry>>

\* The foreign keys of memory_relations cascade one after the other: the
\* relations from the memory, then those to it.
Cascade(c) ==
    /\ pc[c] \in {"sources", "targets"}
    /\ \A d \in Clients : ~Waits(c, d)
    /\ Goto(c, IF pc[c] = "sources" THEN "targets" ELSE AfterWrite(cmd[c]))
    /\ UNCHANGED <<tables, cmd, seen, effect, entry>>

------------------------------------------------------------------------------
Step(c) ==
    \/ Find(c) \/ Insert(c) \/ Refind(c)
    \/ Claim(c) \/ Replay(c) \/ Complete(c)
    \/ Read(c) \/ Write(c) \/ Link(c) \/ Remove(c) \/ Cascade(c)
    \/ Commit(c)

Next == \E c \in Clients : Begin(c) \/ Step(c) \/ Abort(c)

Spec == Init /\ [][Next]_vars

\* Lock queues are first come, first served, so a statement whose lock is
\* granted again and again gets it; neither Begin nor Abort need ever happen,
\* but for the Abort by which the server ends a deadlock of two cascades.
Victim == \E c \in Clients : Deadlocked(c) /\ Abort(c)
Fairness == (\A c \in Clients : SF_vars(Step(c))) /\ WF_vars(Victim)
FairSpec == Spec /\ Fairness

------------------------------------------------------------------------------
(* Properties *)

\* The history of a live memory is complete: it has exactly one snapshot for
\* each version from 1 to the current one, and the newest is the row itself.
\* A lost update, or a row written without its snapshot, would break it
\* (services.update, repository.update, repository.create).
HistoryComplete ==
    \A i \in Ids : memories[i] # Null =>
        /\ SnapshotOf(i, memories[i]) \in versions
        /\ \A v \in 1..memories[i].version :
             \E s \in versions : s.id = i /\ s.version = v
        /\ \A s \in versions : s.id = i => s.version <= memories[i].version
        /\ \A s, t \in versions :
             s.id = i /\ t.id = i /\ s.version = t.version => s = t

\* Forget leaves nothing behind, whatever ran beside it: a memory that is gone
\* has no snapshot and no relation, not even one that a concurrent update or
\* relate was inserting (repository.forget and the cascades of the schema).
ForgetErases ==
    /\ \A s \in versions : memories[s.id] # Null
    /\ \A r \in relations : memories[r.source] # Null /\ memories[r.target] # Null

\* Forget is final: no transaction that was under way when a memory was
\* forgotten brings its row back.
ForgetIsFinal == \A i \in tombstones : memories[i] = Null

\* Every two consecutive snapshots of a memory are a transition the domain
\* accepts, although the state was checked in one statement and written in a
\* later one (Memory._assert_transition, repository.update).
LegalHistory ==
    \A s, t \in versions :
        s.id = t.id /\ t.version = s.version + 1 =>
            s.state = t.state \/ t.state \in Allowed[s.state]

\* Two requests with the same write key never create two memories, even when
\* both looked the key up before either inserted (repository.create).
OneMemoryPerWriteKey ==
    \A i, j \in Ids :
        /\ memories[i] # Null /\ memories[j] # Null
        /\ memories[i].key # Null /\ memories[i].key = memories[j].key
        => i = j

\* A retry with the same key gets the memory its first execution returned, as
\* long as the memory exists and however often it changed since
\* (claim.replay branches of update, confirm_candidate and pin).
ReplayFaithful ==
    \A o \in LedgerKeys :
        LET e == ledger[o] IN
        e # Null /\ e.answer # Null /\ memories[e.id] # Null =>
            GetVersion(e.id, e.version) = {SnapshotOf(e.id, e.answer)}

\* No transaction leaves its claim unfinished: a committed ledger row is
\* completed, so IdempotencyInProgressError can never be stored.
NoStuckClaim ==
    \A o \in LedgerKeys : ledger[o] # Null => ledger[o].status = "completed"

\* A completed operation key keeps its outcome for ever: a concurrent or later
\* use of the same key never overwrites it (idempotency.claim).
LedgerWriteOnce ==
    [][\A o \in LedgerKeys : ledger[o] # Null => ledger'[o] = ledger[o]]_vars

\* History is append-only while the memory lives: no committed step changes or
\* drops a snapshot of a memory that survives it, and a row that changes moves
\* to the next version.
HistoryAppendOnly ==
    [][\A i \in Ids : memories[i] # Null /\ memories'[i] # Null =>
         /\ {s \in versions : s.id = i} \subseteq versions'
         /\ memories'[i] # memories[i] =>
              memories'[i].version = memories[i].version + 1]_vars

\* "only a candidate can be discarded": the row a discard deletes is a
\* candidate when it is deleted.
DiscardsOnlyCandidates ==
    [][\A c \in Clients :
         Commit(c) /\ cmd[c].op = "discard" /\ effect[c].kind = "delete" =>
            memories[cmd[c].id].state = "candidate"]_vars

\* Every transaction ends.  The locks that claims, inserts, updates, deletes and
\* new relations take close no cycle but the one of two deletes whose cascades
\* wait for each other, and the server aborts one of those two: only for that
\* cycle does the specification assume an abort (repository.forget, add_relation
\* and update over the foreign keys of memory_relations).
EveryRequestEnds ==
    \A c \in Clients : pc[c] # "idle" ~> pc[c] = "idle"

------------------------------------------------------------------------------
(* The inductive invariant behind the safety properties *)

\* Where a transaction stands determines what it is and what it holds.
ControlOK(c) ==
    LET k == cmd[c] IN
    /\ pc[c] = "idle" => k = Null /\ entry[c] = Null
    /\ pc[c] # "idle" => k \in Command /\ WellFormed(k) /\ k.id \in Ids
    /\ pc[c] \in {"find", "insert", "refind"} => k.op = "write"
    /\ pc[c] \in {"claim", "replay", "complete"} => k.op \in LedgerOps /\ k.key \in Keys
    /\ pc[c] \in {"replay", "complete"} => entry[c] # Null
    /\ pc[c] \in {"read", "write", "link", "remove", "sources", "targets"} /\ k.key # Null
         => entry[c] # Null
    /\ pc[c] = "read" => k.op \in {"update", "confirm", "pin", "discard", "relate"}
    /\ pc[c] = "write" => k.op \in {"update", "confirm", "pin"} /\ seen[c] # Null
    /\ pc[c] = "link" => \/ k.op = "update" /\ effect[c].kind = "update" /\ k.rel # Null
                         \/ k.op = "relate" /\ effect[c].kind = "none"
    /\ pc[c] \in {"remove", "sources", "targets"} => k.op \in {"discard", "forget"}
    /\ pc[c] \in {"sources", "targets"} => effect[c].kind = "delete"
    /\ pc[c] \notin {"link", "sources", "targets", "complete", "commit"} =>
         effect[c] = NoEffect
    /\ pc[c] = "complete" /\ k.op \notin {"discard", "forget"} =>
         effect[c].kind = "update" \/ seen[c] # Null
    /\ entry[c] # Null => k # Null /\ k.op \in LedgerOps /\ k.key \in Keys

\* A version number names one value of a memory: as long as the row a client
\* read has not moved to a later version it is unchanged, and once it is gone
\* a tombstone says so.  This is why comparing versions is enough.
SeenOK(c) ==
    seen[c] # Null =>
        LET k == cmd[c] IN
        /\ k # Null /\ k.id \in Ids /\ k.op # "write"
        /\ k.op # "relate" => seen[c].version = k.ev
        /\ k.op \in {"update", "confirm", "pin"} =>
             AssertTransition(seen[c].state, Target(k, seen[c]), k.other # Null)
        /\ memories[k.id] = Null => k.id \in tombstones
        /\ memories[k.id] # Null =>
             /\ memories[k.id].version >= seen[c].version
             /\ memories[k.id].version = seen[c].version => memories[k.id] = seen[c]

\* The identifier of an open write is nobody else's.
WriteIdOK(c) ==
    cmd[c] # Null /\ cmd[c].op = "write" =>
        /\ memories[cmd[c].id] = Null
        /\ cmd[c].id \notin tombstones

\* What a transaction is about to commit still fits the committed tables.
PendingOK(c) ==
    LET e == effect[c] IN
    /\ e.kind # "none" => cmd[c] # Null /\ e.id = cmd[c].id /\ e.id \in Ids
    /\ e.kind \in {"none", "delete"} => e.snaps = {} /\ e.row = Null
    /\ e.kind \in {"insert", "update"} =>
         e.row # Null /\ e.snaps = {SnapshotOf(e.id, e.row)}
    /\ e.kind = "insert" => cmd[c].op = "write" /\ e.row.version = 1
    /\ e.kind = "update" =>
         /\ memories[e.id] # Null
         /\ e.row.version = memories[e.id].version + 1
         /\ e.row.key = memories[e.id].key
         /\ \/ e.row.state = memories[e.id].state
            \/ e.row.state \in Allowed[memories[e.id].state]
    /\ e.kind = "delete" => memories[e.id] # Null /\ e.rels = {}
    /\ \A r \in e.rels : memories[r.source] # Null /\ memories[r.target] # Null

\* What two open transactions hold does not overlap.
Apart(c, d) ==
    /\ \A i \in Ids : ~(Writes(c, i) /\ Writes(d, i))
    /\ \A i \in Ids : ~(Deletes(c, i) /\ Shares(d, i))
    /\ cmd[c] # Null /\ cmd[d] # Null /\ cmd[c].op = "write" /\ cmd[d].op = "write"
         => cmd[c].id # cmd[d].id

StoreInv ==
    /\ TypeOK
    /\ \A c \in Clients : ControlOK(c) /\ SeenOK(c) /\ WriteIdOK(c) /\ PendingOK(c)
    /\ \A c, d \in Clients : c # d => Apart(c, d)
    /\ HistoryComplete
    /\ ForgetErases
    /\ ForgetIsFinal
    /\ LegalHistory
------------------------------------------------------------------------------
(* What the ledger and the write keys add to it *)

\* A claim found its key free, and it still is.  The answer it will commit is
\* the memory the transaction wrote or, for a pin that changes nothing, read.
EntryOK(c) ==
    entry[c] # Null /\ pc[c] # "replay" =>
        /\ ledger[LedgerKey(cmd[c])] = Null
        /\ entry[c].id = cmd[c].id
        /\ pc[c] = "commit" => entry[c].status = "completed"
        /\ entry[c].answer # Null =>
             /\ pc[c] = "commit"
             /\ entry[c].version = entry[c].answer.version
             /\ \/ effect[c].kind = "update" /\ entry[c].answer = effect[c].row
                \/ entry[c].answer = seen[c]

\* What a client read stays in the history for as long as the memory lives.
SeenKept(c) ==
    seen[c] # Null /\ memories[cmd[c].id] # Null =>
        SnapshotOf(cmd[c].id, seen[c]) \in versions

\* Nobody holds the write key of an uncommitted insert.
KeyFree(c) == effect[c].kind = "insert" => HolderOf(effect[c].row.key) = {}

\* Two open transactions claim, and insert, different keys.
KeysApart(c, d) ==
    /\ entry[c] # Null /\ entry[d] # Null => LedgerKey(cmd[c]) # LedgerKey(cmd[d])
    /\ effect[c].kind = "insert" /\ effect[d].kind = "insert" /\ effect[c].row.key # Null
         => effect[c].row.key # effect[d].row.key

\* A recorded answer is in the history of its memory, or the memory is
\* forgotten and its identifier will not come back.
AnswersKept ==
    \A o \in LedgerKeys :
        LET e == ledger[o] IN
        e # Null /\ e.answer # Null =>
            /\ e.version = e.answer.version
            /\ memories[e.id] = Null => e.id \in tombstones
            /\ memories[e.id] # Null => SnapshotOf(e.id, e.answer) \in versions

LedgerInv ==
    /\ \A c \in Clients : EntryOK(c) /\ SeenKept(c) /\ KeyFree(c)
    /\ \A c, d \in Clients : c # d => KeysApart(c, d)
    /\ AnswersKept
    /\ NoStuckClaim
    /\ OneMemoryPerWriteKey
==============================================================================
