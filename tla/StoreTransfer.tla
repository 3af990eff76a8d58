---------------------------- MODULE StoreTransfer ----------------------------
(***************************************************************************)
(* Export and import beside the operations of MemoryStore, on the same     *)
(* tables and under the same locks.                                        *)
(*                                                                         *)
(* A package carries one memory with its history.  Export reads the row    *)
(* and the history in two statements; import checks the tombstone in one   *)
(* statement and inserts in a later one.  Relations between the memories   *)
(* of a package are left out.                                              *)
(***************************************************************************)
EXTENDS MemoryStore

CONSTANT Packages    \* package files an operator may import, well formed or not

VARIABLES
    package,         \* per client: the package it imports
    vector,          \* per client: whether the prepared record has a vector
    exported,        \* the last package an export produced
    barred           \* history variable: the import began after the forget

transfer == <<package, vector, exported, barred>>
allvars  == <<vars, transfer>>

Package == [id : Ids, row : Row, history : SUBSET Snapshot, vector : BOOLEAN]

ASSUME PackageAssumption == Null \notin Package /\ \A p \in Packages : p \in Package

TransferSteps == {"check", "guard", "store", "history"}

TransferTypeOK ==
    /\ pc \in [Clients -> Steps \cup TransferSteps]
    /\ package \in [Clients -> Package \cup {Null}]
    /\ vector \in [Clients -> BOOLEAN]
    /\ exported \in Package \cup {Null}
    /\ barred \in [Clients -> BOOLEAN]

TransferInit ==
    /\ Init
    /\ package = [c \in Clients |-> Null]
    /\ vector = [c \in Clients |-> FALSE]
    /\ exported = Null
    /\ barred = [c \in Clients |-> FALSE]

EndTransfer(c) ==
    /\ package' = [package EXCEPT ![c] = Null]
    /\ vector' = [vector EXCEPT ![c] = FALSE]
    /\ barred' = [barred EXCEPT ![c] = FALSE]

Reject(c) == Rollback(c) /\ EndTransfer(c) /\ UNCHANGED exported

\* Mutant: any history passes.
ValidPackage_AnyHistory(p) == \A s \in p.history : s.id = p.id

\* A complete version sequence: one snapshot for each version up to the row's
VersionSequence(i, row, snaps) ==
    /\ \A s \in snaps : s.id = i /\ s.version \in 1..row.version
    /\ \A v \in 1..row.version : \E s \in snaps : s.version = v
    /\ \A s, t \in snaps : s.version = t.version => s = t

\* _validate_import_record: that the newest snapshot is the row is not checked
ValidPackage(p) == VersionSequence(p.id, p.row, p.history)

\* Mutant: the tombstones are never consulted.
IsTombstoned_Never(i) == FALSE

\* is_tombstoned
IsTombstoned(i) == i \in tombstones

HistoryOf(i) == {s \in versions : s.id = i}

\* import_memories of the service, up to the validation of the package
BeginImport(c) ==
    /\ pc[c] = "idle"
    /\ \E p \in Packages \cup ({exported} \ {Null}) :
         /\ ValidPackage(p)
         /\ package' = [package EXCEPT ![c] = p]
         /\ barred' = [barred EXCEPT ![c] = p.id \in tombstones]
    /\ Goto(c, "check")
    /\ UNCHANGED <<tables, cmd, seen, effect, entry, vector, exported>>

\* The comparison with the stored memory, then the vector: a record that is
\* stored already is passed on as it came, any other one is embedded.
CheckImport(c) ==
    LET p == package[c]
        stored == memories[p.id] # Null
        same == memories[p.id] = p.row /\ HistoryOf(p.id) = p.history
    IN /\ pc[c] = "check"
       /\ \/ /\ IF stored THEN same ELSE ~IsTombstoned(p.id)
             /\ vector' = [vector EXCEPT ![c] = p.vector \/ ~stored]
             /\ Goto(c, "guard")
             /\ UNCHANGED <<tables, cmd, seen, effect, entry, package, exported, barred>>
          \/ /\ IF stored THEN ~same ELSE IsTombstoned(p.id)
             /\ Reject(c)

\* import_memories of the repository: the tombstone is looked up again
GuardImport(c) ==
    /\ pc[c] = "guard"
    /\ \/ /\ ~IsTombstoned(package[c].id)
          /\ Goto(c, "store")
          /\ UNCHANGED <<tables, cmd, seen, effect, entry, transfer>>
       \/ IsTombstoned(package[c].id) /\ Reject(c)

\* Mutant: the unique index of the write key does not exist.
CanImport_NoIndex(c, p) ==
    \A d \in Clients \ {c} : Writes(d, p.id) => effect[d].kind = "update"

\* INSERT ... ON CONFLICT (id) DO NOTHING waits for a pending insert or delete
\* of the row, and for the unique index of the write key.
CanImport(c, p) ==
    /\ CanInsert(c, p.row.key)
    /\ \A d \in Clients \ {c} :
         Writes(d, p.id) => effect[d].kind = "update"

Imported(p) == [kind |-> "insert", id |-> p.id, row |-> p.row,
                snaps |-> p.history, rels |-> {}]

\* ... then the insert: a stored row is a replay (or a conflict when it
\* differs) and changes nothing; a record without a vector is refused.
StoreImport(c) ==
    LET p == package[c]
        ok == memories[p.id] = Null /\ HolderOf(p.row.key) = {} /\ vector[c]
    IN /\ pc[c] = "store"
       /\ CanImport(c, p)
       /\ \/ /\ ok
             /\ effect' = [effect EXCEPT ![c] = Imported(p)]
             /\ Goto(c, "commit")
             /\ UNCHANGED <<tables, cmd, seen, entry, transfer>>
          \/ ~ok /\ Reject(c)

\* export_memory: the row ...
ExportRow(c) ==
    /\ pc[c] = "idle"
    /\ \E i \in Ids :
         /\ memories[i] # Null
         /\ package' = [package EXCEPT ![c] =
                          [id |-> i, row |-> memories[i], history |-> {}, vector |-> TRUE]]
    /\ Goto(c, "history")
    /\ UNCHANGED <<tables, cmd, seen, effect, entry, vector, exported, barred>>

\* ... and, in a later statement, its history; NotFound when it is gone.
ExportHistory(c) ==
    LET p == package[c] IN
    /\ pc[c] = "history"
    /\ exported' = IF memories[p.id] = Null THEN exported
                   ELSE [p EXCEPT !.history = HistoryOf(p.id)]
    /\ Rollback(c)
    /\ EndTransfer(c)

\* uuid4() does not hit the identifier of a package file either.
NotPackaged(k) == k.op = "write" => \A p \in Packages : p.id # k.id

\* The operations of the store, and the end of an import
StoreStep(c) ==
    \/ /\ \/ Begin(c) /\ NotPackaged(cmd'[c])
          \/ Step(c) /\ ~Commit(c)
       /\ UNCHANGED transfer
    \/ /\ Commit(c) \/ Abort(c)
       /\ EndTransfer(c)
       /\ UNCHANGED exported

TransferNext ==
    \E c \in Clients :
        \/ StoreStep(c)
        \/ BeginImport(c) \/ CheckImport(c) \/ GuardImport(c) \/ StoreImport(c)
        \/ ExportRow(c) \/ ExportHistory(c)

TransferSpec == TransferInit /\ [][TransferNext]_allvars

------------------------------------------------------------------------------
\* "A tombstone is sufficient to block restore/import of the same ID": an
\* import that starts once the memory is forgotten never stores it again.
RestoreBlocked ==
    /\ TransferTypeOK
    /\ \A c \in Clients : barred[c] => effect[c].kind = "none"

------------------------------------------------------------------------------
(* The inductive invariant.  StoreInv does not hold any more: an import that    *)
(* passed its checks before a forget stores the memory after it, so a           *)
(* tombstoned memory may live, and a version may come to name another value.    *)

TransferTypes ==
    /\ memories \in [Ids -> Row \cup {Null}]
    /\ versions \in SUBSET Snapshot
    /\ relations \in SUBSET Relation
    /\ tombstones \in SUBSET Ids
    /\ ledger \in [LedgerKeys -> Entry \cup {Null}]
    /\ cmd \in [Clients -> Command \cup {Null}]
    /\ seen \in [Clients -> Row \cup {Null}]
    /\ effect \in [Clients -> Effect]
    /\ entry \in [Clients -> Entry \cup {Null}]
    /\ TransferTypeOK

\* A client executes a command or moves a package.
TransferControl(c) ==
    IF package[c] = Null
    THEN /\ pc[c] \in Steps /\ ControlOK(c)
         /\ seen[c] # Null =>
              cmd[c] # Null /\ (cmd[c].op # "relate" => seen[c].version = cmd[c].ev)
    ELSE /\ pc[c] \in TransferSteps \cup {"commit"}
         /\ cmd[c] = Null /\ seen[c] = Null /\ entry[c] = Null
         /\ pc[c] # "history" => ValidPackage(package[c])
         /\ effect[c] = IF pc[c] = "commit" THEN Imported(package[c]) ELSE NoEffect

\* A memory the store has or had
Known(i) == memories[i] # Null \/ i \in tombstones

\* A package is one of the files or was exported from this store; a new write
\* has an identifier of neither.
Named(i) == Known(i) \/ \E p \in Packages : p.id = i

NamesOK(c) ==
    /\ package[c] # Null => Named(package[c].id)
    /\ cmd[c] # Null /\ cmd[c].op = "write" => ~Named(cmd[c].id)

\* An import that began after the forget is refused by the second look at the
\* tombstones at the latest.
BarredOK(c) ==
    barred[c] => /\ package[c] # Null /\ package[c].id \in tombstones
                 /\ pc[c] \in {"check", "guard"}

\* What is about to be committed still fits the committed tables.
TransferPending(c) ==
    LET e == effect[c] IN
    /\ e.kind # "none" =>
         /\ e.id \in Ids
         /\ package[c] = Null => cmd[c] # Null /\ e.id = cmd[c].id
    /\ e.kind \in {"none", "delete"} => e.snaps = {} /\ e.row = Null
    /\ e.kind = "insert" =>
         /\ e.row # Null /\ memories[e.id] = Null /\ HolderOf(e.row.key) = {}
         /\ VersionSequence(e.id, e.row, e.snaps)
         /\ package[c] = Null =>
              cmd[c].op = "write" /\ e.snaps = {SnapshotOf(e.id, e.row)}
    /\ e.kind = "update" =>
         /\ e.row # Null /\ e.snaps = {SnapshotOf(e.id, e.row)}
         /\ memories[e.id] # Null /\ e.row.key = memories[e.id].key
         /\ e.row.version = memories[e.id].version + 1
    /\ e.kind = "delete" => memories[e.id] # Null /\ e.rels = {}
    /\ \A r \in e.rels : memories[r.source] # Null /\ memories[r.target] # Null

\* What two open transactions hold does not overlap.
TransferApart(c, d) ==
    /\ Apart(c, d)
    /\ effect[c].kind = "insert" /\ effect[d].kind = "insert" /\ effect[c].row.key # Null
         => effect[c].row.key # effect[d].row.key

\* The versions of a live memory run from 1 to its own, once each.
SequencesComplete ==
    \A i \in Ids : memories[i] # Null => VersionSequence(i, memories[i], HistoryOf(i))

TransferInv ==
    /\ TransferTypes
    /\ \A c \in Clients : TransferControl(c) /\ NamesOK(c) /\ BarredOK(c) /\ TransferPending(c)
    /\ \A c, d \in Clients : c # d => TransferApart(c, d)
    /\ exported # Null => Known(exported.id)
    /\ SequencesComplete
    /\ ForgetErases
    /\ OneMemoryPerWriteKey

------------------------------------------------------------------------------
(* Packages whose newest snapshot is their row *)

Consistent(p) == SnapshotOf(p.id, p.row) \in p.history

\* A package that is not consistent is one of a forgotten memory, and blocked: an
\* export whose two reads fell on either side of a forget and a racing import.
PackageOK(c) ==
    LET p == package[c] IN
    p # Null =>
        /\ pc[c] \in {"check", "guard"} => p.id \in tombstones \/ Consistent(p)
        /\ pc[c] \in {"store", "commit"} => Consistent(p)
        /\ pc[c] = "history" =>
             p.id \in tombstones \/ SnapshotOf(p.id, p.row) \in versions

NewestInv ==
    /\ \A c \in Clients : PackageOK(c)
    /\ exported # Null => exported.id \in tombstones \/ Consistent(exported)
    /\ \A i \in Ids : memories[i] # Null => SnapshotOf(i, memories[i]) \in versions
==============================================================================
