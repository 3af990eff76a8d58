------------------------- MODULE StoreTransferProofs -------------------------
(***************************************************************************)
(* TransferInv is an inductive invariant of StoreTransfer, for any set of  *)
(* package files, well formed or not; NewestInv is inductive relative to   *)
(* it when the newest snapshot of every file is its row.                   *)
(***************************************************************************)
EXTENDS StoreTransfer, MemoryStoreProofs

\* The other clients keep what they import.
OtherPackages(c) ==
    \A d \in Clients \ {c} : package'[d] = package[d] /\ barred'[d] = barred[d]

\* A step that leaves the tables and the other clients alone keeps the invariant
\* if it keeps the parts about its own client.
LEMMA TransferFrame ==
  ASSUME TransferInv, NEW c \in Clients, UNCHANGED tables, Others(c), OtherPackages(c),
         TransferTypes', TransferControl(c)', NamesOK(c)', BarredOK(c)', TransferPending(c)',
         \A d \in Clients \ {c} : TransferApart(c, d)' /\ TransferApart(d, c)',
         exported' # Null => Known(exported'.id)
  PROVE  TransferInv'
  <1>1. ASSUME NEW d \in Clients \ {c}
        PROVE  (TransferControl(d) /\ NamesOK(d) /\ BarredOK(d) /\ TransferPending(d))'
    <2>1. TransferControl(d) /\ NamesOK(d) /\ BarredOK(d) /\ TransferPending(d)
      BY DEF TransferInv
    <2>2. TransferControl(d)'
      BY <2>1 DEF TransferControl, ControlOK, Others, OtherPackages
    <2>3. NamesOK(d)' /\ BarredOK(d)'
      BY <2>1 DEF NamesOK, Named, Known, BarredOK, Others, OtherPackages, tables
    <2>4. TransferPending(d)'
      BY <2>1 DEF TransferPending, HolderOf, Others, OtherPackages, tables
    <2> QED BY <2>2, <2>3, <2>4
  <1>2. ASSUME NEW d \in Clients \ {c}, NEW e \in Clients \ {c}, d # e
        PROVE  TransferApart(d, e)'
    <2>1. TransferApart(d, e)
      BY <1>2 DEF TransferInv
    <2> QED BY <2>1 DEF TransferApart, Apart, Writes, Deletes, Shares, Others
  <1>3. (exported # Null => Known(exported.id))'
    BY DEF Known, tables
  <1>4. (SequencesComplete /\ ForgetErases /\ OneMemoryPerWriteKey)'
    BY DEF TransferInv, SequencesComplete, HistoryOf, ForgetErases, OneMemoryPerWriteKey, tables
  <1> QED BY <1>1, <1>2, <1>3, <1>4 DEF TransferInv

\* A client that has ended its transaction holds nothing.
LEMMA TransferIdle ==
  ASSUME TransferInv, NEW c \in Clients, Rollback(c), OtherPackages(c),
         package' \in [Clients -> Package \cup {Null}], vector' \in [Clients -> BOOLEAN],
         barred' \in [Clients -> BOOLEAN], exported' \in Package \cup {Null},
         package'[c] = Null, ~barred'[c],
         exported' # Null => Known(exported'.id)
  PROVE  TransferInv'
  <1>1. /\ UNCHANGED tables /\ Others(c) /\ pc'[c] = "idle" /\ cmd'[c] = Null
        /\ seen'[c] = Null /\ effect'[c] = NoEffect /\ entry'[c] = Null
    BY DEF Rollback, EndTransaction, Others, TransferInv, TransferTypes, TransferTypeOK
  <1>2. TransferTypes'
    BY StoreAssumption DEF Rollback, EndTransaction, TransferInv, TransferTypes, TransferTypeOK,
       tables, Steps, Effect, NoEffect
  <1>3. TransferControl(c)'
    BY <1>1 DEF TransferControl, ControlOK, Steps
  <1>4. NamesOK(c)' /\ BarredOK(c)' /\ TransferPending(c)'
    BY <1>1 DEF NamesOK, BarredOK, TransferPending, NoEffect
  <1>5. \A d \in Clients \ {c} : TransferApart(c, d)' /\ TransferApart(d, c)'
    BY <1>1 DEF TransferApart, Apart, Writes, Deletes, Shares, NoEffect
  <1> QED BY <1>1, <1>2, <1>3, <1>4, <1>5, TransferFrame

\* A command that ends without a commit: it imported nothing.
LEMMA CommandEnds ==
  ASSUME TransferInv, NEW c \in Clients, package[c] = Null, Rollback(c), UNCHANGED transfer
  PROVE  TransferInv'
  <1>1. /\ OtherPackages(c) /\ package'[c] = Null /\ exported' = exported
        /\ package' \in [Clients -> Package \cup {Null}] /\ vector' \in [Clients -> BOOLEAN]
        /\ barred' \in [Clients -> BOOLEAN] /\ exported' \in Package \cup {Null}
    BY DEF OtherPackages, transfer, TransferInv, TransferTypes, TransferTypeOK
  <1>2. ~barred'[c]
    BY DEF transfer, TransferInv, BarredOK
  <1>3. exported' # Null => Known(exported'.id)
    BY <1>1 DEF TransferInv
  <1> QED BY <1>1, <1>2, <1>3, TransferIdle

\* An import, an export or an aborted transaction ends.
LEMMA PackageEnds ==
  ASSUME TransferInv, NEW c \in Clients, Rollback(c), EndTransfer(c),
         exported' \in Package \cup {Null}, exported' # Null => Known(exported'.id)
  PROVE  TransferInv'
  <1>1. /\ OtherPackages(c) /\ package'[c] = Null /\ ~barred'[c]
        /\ package' \in [Clients -> Package \cup {Null}] /\ vector' \in [Clients -> BOOLEAN]
        /\ barred' \in [Clients -> BOOLEAN]
    BY DEF EndTransfer, OtherPackages, TransferInv, TransferTypes, TransferTypeOK
  <1> QED BY <1>1, TransferIdle

LEMMA RejectInv ==
  ASSUME TransferInv, NEW c \in Clients, Reject(c)
  PROVE  TransferInv'
  BY PackageEnds DEF Reject, TransferInv, TransferTypes, TransferTypeOK

\* Between Begin and Commit the steps of MemoryStore belong to a command.
LEMMA InCommand ==
  ASSUME TransferInv, NEW c \in Clients, pc[c] \in Steps \ {"idle", "commit"}
  PROVE  /\ package[c] = Null /\ ControlOK(c)
         /\ cmd[c] \in Command /\ WellFormed(cmd[c]) /\ cmd[c].id \in Ids /\ cmd[c] # Null
         /\ seen[c] # Null => (cmd[c].op # "relate" => seen[c].version = cmd[c].ev)
  <1>1. package[c] = Null
    BY DEF TransferInv, TransferControl, Steps, TransferSteps
  <1> QED BY <1>1, StoreAssumption DEF TransferInv, TransferControl, ControlOK

\* A statement of a command: what it must show of its own client.
LEMMA CommandStep ==
  ASSUME TransferInv, NEW c \in Clients, package[c] = Null, cmd[c] # Null,
         UNCHANGED <<tables, cmd, transfer>>, Others(c),
         pc' \in [Clients -> Steps \cup TransferSteps], seen' \in [Clients -> Row \cup {Null}],
         effect' \in [Clients -> Effect], entry' \in [Clients -> Entry \cup {Null}],
         pc'[c] \in Steps, ControlOK(c)',
         seen'[c] # Null => (cmd[c].op # "relate" => seen'[c].version = cmd[c].ev),
         TransferPending(c)',
         \A d \in Clients \ {c} : TransferApart(c, d)' /\ TransferApart(d, c)'
  PROVE  TransferInv'
  <1>1. TransferTypes'
    BY DEF TransferInv, TransferTypes, TransferTypeOK, tables, transfer
  <1>2. TransferControl(c)'
    BY DEF TransferControl, transfer
  <1>3. NamesOK(c)' /\ BarredOK(c)'
    BY DEF TransferInv, NamesOK, Named, Known, BarredOK, tables, transfer
  <1>4. OtherPackages(c) /\ (exported' # Null => Known(exported'.id))
    BY DEF OtherPackages, TransferInv, transfer
  <1> QED BY <1>1, <1>2, <1>3, <1>4, TransferFrame

\* A statement that writes nothing yet.
LEMMA CommandMoves ==
  ASSUME TransferInv, NEW c \in Clients, package[c] = Null, cmd[c] # Null,
         UNCHANGED <<tables, cmd, effect, transfer>>, Others(c),
         pc' \in [Clients -> Steps \cup TransferSteps], seen' \in [Clients -> Row \cup {Null}],
         entry' \in [Clients -> Entry \cup {Null}],
         pc'[c] \in Steps, ControlOK(c)',
         seen'[c] # Null => (cmd[c].op # "relate" => seen'[c].version = cmd[c].ev)
  PROVE  TransferInv'
  <1>1. effect' \in [Clients -> Effect]
    BY DEF TransferInv, TransferTypes
  <1>2. TransferPending(c)'
    BY DEF TransferInv, TransferPending, HolderOf, tables, transfer
  <1>3. \A d \in Clients \ {c} : TransferApart(c, d)' /\ TransferApart(d, c)'
    BY DEF TransferInv, TransferApart, Apart, Writes, Deletes, Shares
  <1> QED BY <1>1, <1>2, <1>3, CommandStep

------------------------------------------------------------------------------
(* The statements of MemoryStore *)

\* A command opens: a write has an identifier no row, tombstone, open request or
\* package carries.
LEMMA BeginTransfer ==
  ASSUME TransferInv, NEW c \in Clients, Begin(c), NotPackaged(cmd'[c]), UNCHANGED transfer
  PROVE  TransferInv'
  <1>1. PICK k \in Commands :
          /\ \/ k.op # "write" /\ ~Unrevealed(k.id) /\ cmd' = [cmd EXCEPT ![c] = k]
             \/ /\ k.op = "write"
                /\ \E i \in Ids : /\ FreshId(i)
                                  /\ cmd' = [cmd EXCEPT ![c] = [k EXCEPT !.id = i]]
          /\ Goto(c, FirstStep(k))
    BY DEF Begin
  <1>2. k \in Command /\ WellFormed(k)
    BY StoreAssumption
  <1>3. /\ pc[c] = "idle" /\ package[c] = Null /\ cmd[c] = Null /\ entry[c] = Null
        /\ seen[c] = Null /\ effect[c] = NoEffect
    BY DEF Begin, TransferInv, TransferControl, ControlOK, TransferSteps
  <1>4. /\ pc'[c] = FirstStep(k) /\ seen'[c] = Null /\ package'[c] = Null
        /\ effect'[c] = NoEffect /\ entry'[c] = Null
    BY <1>1, <1>3 DEF Begin, Goto, TransferInv, TransferTypes, TransferTypeOK, transfer
  <1>5. /\ cmd'[c] \in Command /\ WellFormed(cmd'[c]) /\ cmd'[c].id \in Ids
        /\ cmd'[c] # Null /\ cmd'[c].op = k.op /\ cmd'[c].key = k.key
    <2>1. CASE k.op # "write"
      BY <1>1, <1>2, <2>1, StoreAssumption DEF TransferInv, TransferTypes, WellFormed, Command
    <2>2. CASE k.op = "write"
      BY <1>1, <1>2, <2>2, StoreAssumption DEF TransferInv, TransferTypes, WellFormed, Command
    <2> QED BY <2>1, <2>2
  <1>6. cmd'[c].op = "write" => FreshId(cmd'[c].id)
    BY <1>1, <1>2 DEF TransferInv, TransferTypes, Command
  <1>7. Others(c) /\ UNCHANGED tables /\ OtherPackages(c)
    BY <1>1 DEF Begin, Goto, Others, OtherPackages, transfer, TransferInv, TransferTypes, TransferTypeOK
  <1>8. FirstStep(k) \in Steps /\ FirstStep(k) \notin {"idle", "commit"}
    BY DEF FirstStep, Steps
  <1>9. TransferTypes'
    <2>1. cmd' \in [Clients -> Command \cup {Null}]
      BY <1>1, <1>5 DEF TransferInv, TransferTypes
    <2> QED BY <1>1, <1>8, <2>1
            DEF Begin, Goto, TransferInv, TransferTypes, TransferTypeOK, tables, transfer
  <1>10. ControlOK(c)'
    <2>1. k.key = Null \/ k.key \in Keys
      BY <1>2 DEF Command
    <2>2. k.op \in {"confirm", "pin", "discard"} => k.key # Null
      BY <1>2, StoreAssumption DEF WellFormed
    <2>3. CASE k.op = "write"
      BY <1>4, <1>5, <2>3 DEF ControlOK, FirstStep, LedgerOps
    <2>4. CASE k.op \in LedgerOps /\ k.key # Null
      <3>1. FirstStep(k) = "claim"
        BY <2>4 DEF FirstStep, LedgerOps
      <3> QED BY <1>4, <1>5, <2>1, <2>4, <3>1 DEF ControlOK
    <2>5. CASE k.op = "forget" /\ k.key = Null
      <3>1. FirstStep(k) = "remove"
        BY <2>5 DEF FirstStep
      <3> QED BY <1>4, <1>5, <2>5, <3>1 DEF ControlOK
    <2>6. CASE k.op = "relate" \/ (k.op = "update" /\ k.key = Null)
      <3>1. FirstStep(k) = "read" /\ k.key = Null
        BY <1>2, <2>6 DEF FirstStep, LedgerOps, WellFormed
      <3> QED BY <1>4, <1>5, <2>6, <3>1 DEF ControlOK
    <2>7. k.op \in LedgerOps \cup {"write", "relate"}
      BY <1>2 DEF Command, Ops
    <2> QED BY <2>2, <2>3, <2>4, <2>5, <2>6, <2>7 DEF LedgerOps
  <1>11. TransferControl(c)'
    BY <1>4, <1>8, <1>10 DEF TransferControl
  <1>12. NamesOK(c)'
    BY <1>4, <1>6, <1>7 DEF NamesOK, Named, Known, FreshId, NotPackaged, tables
  <1>13. BarredOK(c)' /\ TransferPending(c)'
    BY <1>3, <1>4 DEF TransferInv, BarredOK, TransferPending, NoEffect, transfer
  <1>14. \A d \in Clients \ {c} : TransferApart(c, d)' /\ TransferApart(d, c)'
    BY <1>4, <1>6, <1>7
    DEF TransferApart, Apart, Writes, Deletes, Shares, NoEffect, FreshId, Others
  <1>15. exported' # Null => Known(exported'.id)
    BY DEF TransferInv, transfer
  <1> QED BY <1>7, <1>9, <1>11, <1>12, <1>13, <1>14, <1>15, TransferFrame

LEMMA FindTransfer ==
  ASSUME TransferInv, NEW c \in Clients, Find(c), UNCHANGED transfer
  PROVE  TransferInv'
  <1>1. /\ pc[c] = "find" /\ package[c] = Null /\ ControlOK(c) /\ cmd[c] # Null
        /\ seen[c] # Null => (cmd[c].op # "relate" => seen[c].version = cmd[c].ev)
    BY InCommand DEF Find, Steps
  <1>2. CASE Rollback(c)
    BY <1>1, <1>2, CommandEnds
  <1>3. CASE ~Rollback(c)
    <2>1. /\ UNCHANGED <<tables, cmd, seen, effect, entry>> /\ Others(c) /\ pc'[c] = "insert"
          /\ pc' \in [Clients -> Steps \cup TransferSteps]
      BY <1>3 DEF Find, Goto, Others, TransferInv, TransferTypes, TransferTypeOK, Steps
    <2>2. ControlOK(c)'
      BY <1>1, <2>1 DEF ControlOK
    <2>3. seen' \in [Clients -> Row \cup {Null}] /\ entry' \in [Clients -> Entry \cup {Null}]
      BY <2>1 DEF TransferInv, TransferTypes
    <2> QED BY <1>1, <2>1, <2>2, <2>3, CommandMoves DEF Steps
  <1> QED BY <1>2, <1>3

\* The first snapshot of a new memory is its whole history.
LEMMA FirstSnapshot ==
  ASSUME NEW i \in Ids, NEW row \in Row, row.version = 1
  PROVE  VersionSequence(i, row, {SnapshotOf(i, row)})
  BY DEF VersionSequence, SnapshotOf

\* The identifier of a write is nobody else's, and the insert waited for its key.
LEMMA InsertTransfer ==
  ASSUME TransferInv, NEW c \in Clients, Insert(c), UNCHANGED transfer
  PROVE  TransferInv'
  <1> DEFINE k == cmd[c]
             row == Create(k.content, k.state, k.key)
             new == [kind |-> "insert", id |-> k.id, row |-> row,
                     snaps |-> {SnapshotOf(k.id, row)}, rels |-> {}]
  <1>1. /\ pc[c] = "insert" /\ package[c] = Null /\ ControlOK(c)
        /\ k \in Command /\ WellFormed(k) /\ k.id \in Ids /\ k # Null
        /\ k.op = "write" /\ effect[c] = NoEffect
        /\ seen[c] # Null => (k.op # "relate" => seen[c].version = k.ev)
    BY InCommand DEF Insert, Steps, ControlOK
  <1>2. /\ UNCHANGED <<tables, cmd, seen, entry>> /\ Others(c)
        /\ seen' \in [Clients -> Row \cup {Null}] /\ entry' \in [Clients -> Entry \cup {Null}]
    BY DEF Insert, Goto, Others, TransferInv, TransferTypes, TransferTypeOK
  <1>3. CASE Goto(c, "refind") /\ UNCHANGED effect
    <2>1. pc'[c] = "refind" /\ pc' \in [Clients -> Steps \cup TransferSteps]
      BY <1>3 DEF Goto, TransferInv, TransferTypes, TransferTypeOK, Steps
    <2>2. ControlOK(c)'
      BY <1>1, <1>2, <1>3, <2>1 DEF ControlOK
    <2> QED BY <1>1, <1>2, <1>3, <2>1, <2>2, CommandMoves DEF Steps
  <1>4. CASE HolderOf(k.key) = {} /\ effect' = [effect EXCEPT ![c] = new] /\ Goto(c, "commit")
    <2>1. /\ pc'[c] = "commit" /\ effect'[c] = new
          /\ pc' \in [Clients -> Steps \cup TransferSteps]
      BY <1>4 DEF Goto, TransferInv, TransferTypes, TransferTypeOK, Steps
    <2>2. row \in Row /\ row.version = 1 /\ row.key = k.key
      BY <1>1 DEF Create, Row, WellFormed, WriteFingerprint, Command, States
    <2>3. SnapshotOf(k.id, row) \in Snapshot
      BY <1>1, <2>2 DEF SnapshotOf, Snapshot, Row
    <2>4. VersionSequence(k.id, row, {SnapshotOf(k.id, row)})
      BY <1>1, <2>2, FirstSnapshot
    <2> HIDE DEF row
    <2>5. effect' \in [Clients -> Effect]
      <3>1. new \in Effect
        BY <1>1, <2>2, <2>3 DEF Effect
      <3> QED BY <1>4, <3>1 DEF TransferInv, TransferTypes
    <2>6. ControlOK(c)'
      BY <1>1, <1>2, <2>1 DEF ControlOK
    <2>7. ~Named(k.id)
      BY <1>1 DEF TransferInv, NamesOK
    <2>8. TransferPending(c)'
      <3>1. memories' = memories /\ cmd'[c] = k /\ package'[c] = Null
        BY <1>1, <1>2 DEF tables, transfer
      <3>2. HolderOf(k.key)' = HolderOf(k.key)
        BY <1>2, <3>1 DEF HolderOf
      <3>3. row # Null /\ memories[k.id] = Null
        BY <2>2, <2>7, StoreAssumption DEF Named, Known
      <3>4. (HolderOf(effect[c].row.key))' = {}
        BY <1>4, <2>1, <2>2, <3>1 DEF HolderOf
      <3>5. /\ effect'[c].kind = "insert" /\ effect'[c].id = k.id /\ effect'[c].row = row
            /\ effect'[c].snaps = {SnapshotOf(k.id, row)} /\ effect'[c].rels = {}
        BY <2>1
      <3>6. effect'[c].snaps = {SnapshotOf(effect'[c].id, effect'[c].row)}
        BY <3>5
      <3>7. VersionSequence(effect'[c].id, effect'[c].row, effect'[c].snaps)
        BY <2>4, <3>5
      <3> HIDE DEF new
      <3> QED BY <1>1, <3>1, <3>3, <3>4, <3>5, <3>6, <3>7 DEF TransferPending
    <2>9. ASSUME NEW d \in Clients \ {c} PROVE TransferApart(c, d)' /\ TransferApart(d, c)'
      <3>1. /\ TransferApart(c, d) /\ TransferApart(d, c) /\ TransferPending(d)
            /\ TransferControl(d) /\ NamesOK(d) /\ effect[d] \in Effect
        BY DEF TransferInv, TransferTypes
      <3>2. ~Writes(d, k.id)
        <4>1. CASE package[d] = Null
          BY <1>1, <2>7, <3>1, <4>1
          DEF TransferApart, Apart, TransferPending, Writes, Effect, Named, Known
        <4>2. CASE package[d] # Null
          <5>1. effect[d] = NoEffect \/ effect[d].id = package[d].id
            BY <3>1, <4>2 DEF TransferControl, Imported
          <5>2. package[d].id # k.id
            BY <2>7, <3>1, <4>2 DEF NamesOK
          <5> QED BY <5>1, <5>2 DEF Writes, NoEffect
        <4> QED BY <4>1, <4>2
      <3>3. effect[d].kind = "insert" /\ k.key # Null => effect[d].row.key # k.key
        BY DEF Insert, CanInsert
      <3> QED BY <1>1, <1>2, <2>1, <2>2, <3>1, <3>2, <3>3
              DEF TransferApart, Apart, Writes, Deletes, Shares, Others, NoEffect
    <2> QED BY <1>1, <1>2, <2>1, <2>5, <2>6, <2>8, <2>9, CommandStep DEF Steps
  <1> QED BY <1>3, <1>4 DEF Insert

LEMMA ClaimTransfer ==
  ASSUME TransferInv, NEW c \in Clients, Claim(c), UNCHANGED transfer
  PROVE  TransferInv'
  <1> DEFINE k == cmd[c]
             old == ledger[LedgerKey(k)]
  <1>1. /\ pc[c] = "claim" /\ package[c] = Null /\ ControlOK(c)
        /\ k \in Command /\ WellFormed(k) /\ k.id \in Ids /\ k # Null
        /\ k.op \in LedgerOps /\ k.key \in Keys /\ effect[c] = NoEffect
        /\ seen[c] # Null => (k.op # "relate" => seen[c].version = k.ev)
    BY InCommand DEF Claim, Steps, ControlOK
  <1>2. CASE Rollback(c)
    BY <1>1, <1>2, CommandEnds
  <1>3. ASSUME NEW e, NEW step,
               e \in Entry,
               step \in {"remove", "read", "replay"},
               step = "remove" => k.op = "forget",
               step = "read" => k.op # "forget",
               entry' = [entry EXCEPT ![c] = e],
               Goto(c, step),
               UNCHANGED <<tables, cmd, seen, effect>>
        PROVE  TransferInv'
    <2>1. /\ Others(c) /\ pc'[c] = step /\ entry'[c] = e /\ e # Null
          /\ pc' \in [Clients -> Steps \cup TransferSteps]
          /\ entry' \in [Clients -> Entry \cup {Null}] /\ seen' \in [Clients -> Row \cup {Null}]
      BY <1>3, StoreAssumption
      DEF Goto, Others, TransferInv, TransferTypes, TransferTypeOK, Steps
    <2>2. ControlOK(c)'
      BY <1>1, <1>3, <2>1 DEF ControlOK, LedgerOps
    <2> QED BY <1>1, <1>3, <2>1, <2>2, CommandMoves DEF Steps
  <1>4. InProgress(k) \in Entry
    <2>1. Fingerprint(k) \in Command
      BY <1>1 DEF Fingerprint, Command
    <2> QED BY <1>1, <2>1 DEF InProgress, Entry
  <1>5. old # Null => old \in Entry
    BY <1>1 DEF LedgerKey, LedgerKeys, TransferInv, TransferTypes
  <1>6. CASE /\ entry' = [entry EXCEPT ![c] = InProgress(k)]
             /\ Goto(c, IF k.op = "forget" THEN "remove" ELSE "read")
             /\ UNCHANGED <<tables, cmd, seen, effect>>
    <2>1. CASE k.op = "forget"
      BY <1>3, <1>4, <1>6, <2>1
    <2>2. CASE k.op # "forget"
      BY <1>3, <1>4, <1>6, <2>2
    <2> QED BY <2>1, <2>2
  <1>7. CASE /\ old # Null
             /\ entry' = [entry EXCEPT ![c] = old]
             /\ Goto(c, "replay")
             /\ UNCHANGED <<tables, cmd, seen, effect>>
    BY <1>3, <1>5, <1>7
  <1> QED BY <1>2, <1>6, <1>7 DEF Claim

LEMMA CompleteTransfer ==
  ASSUME TransferInv, NEW c \in Clients, Complete(c), UNCHANGED transfer
  PROVE  TransferInv'
  <1> DEFINE k == cmd[c]
             returned == IF effect[c].kind = "update" THEN effect[c].row ELSE seen[c]
  <1>1. /\ pc[c] = "complete" /\ package[c] = Null /\ ControlOK(c)
        /\ k \in Command /\ k # Null /\ k.op \in LedgerOps /\ k.key \in Keys
        /\ entry[c] \in Entry
        /\ seen[c] # Null => (k.op # "relate" => seen[c].version = k.ev)
    BY InCommand DEF Complete, Steps, ControlOK, TransferInv, TransferTypes
  <1>2. k.op \notin {"forget", "discard"} => returned \in Row
    BY <1>1 DEF ControlOK, TransferInv, TransferTypes, TransferPending, Effect
  <1>3. /\ UNCHANGED <<tables, cmd, seen, effect>> /\ Others(c) /\ pc'[c] = "commit"
        /\ pc' \in [Clients -> Steps \cup TransferSteps] /\ seen' \in [Clients -> Row \cup {Null}]
    BY DEF Complete, Goto, Others, TransferInv, TransferTypes, TransferTypeOK, Steps
  <1>4. entry'[c] \in Entry
    <2>1. CASE k.op \in {"forget", "discard"}
      BY <1>1, <2>1 DEF Complete, TransferInv, TransferTypes, Entry
    <2>2. CASE k.op \notin {"forget", "discard"}
      BY <1>1, <1>2, <2>2 DEF Complete, TransferInv, TransferTypes, Entry, Row
    <2> QED BY <2>1, <2>2
  <1>5. entry' \in [Clients -> Entry \cup {Null}]
    BY <1>4 DEF Complete, TransferInv, TransferTypes
  <1>6. ControlOK(c)'
    BY <1>1, <1>3, <1>4, StoreAssumption DEF ControlOK
  <1> QED BY <1>1, <1>3, <1>5, <1>6, CommandMoves DEF Steps

LEMMA ReadTransfer ==
  ASSUME TransferInv, NEW c \in Clients, Read(c), UNCHANGED transfer
  PROVE  TransferInv'
  <1> DEFINE k == cmd[c]
             row == memories[k.id]
  <1>1. /\ pc[c] = "read" /\ package[c] = Null /\ ControlOK(c)
        /\ k \in Command /\ WellFormed(k) /\ k.id \in Ids /\ k # Null
        /\ k.op \in {"update", "confirm", "pin", "discard", "relate"}
        /\ effect[c] = NoEffect
    BY InCommand DEF Read, Steps, ControlOK
  <1>2. CASE Rollback(c)
    BY <1>1, <1>2, CommandEnds
  <1>3. CASE /\ Accepts(k, row)
             /\ seen' = [seen EXCEPT ![c] = row]
             /\ Goto(c, AfterRead(k, row))
             /\ UNCHANGED <<tables, cmd, effect, entry>>
    <2>1. row \in Row /\ row # Null /\ (k.op # "relate" => row.version = k.ev)
      BY <1>1, <1>3 DEF Accepts, Permits, TransferInv, TransferTypes
    <2>2. AfterRead(k, row) \in {"remove", "link", "complete", "write"}
      BY DEF AfterRead
    <2>3. /\ Others(c) /\ pc'[c] = AfterRead(k, row) /\ seen'[c] = row
          /\ pc' \in [Clients -> Steps \cup TransferSteps]
          /\ seen' \in [Clients -> Row \cup {Null}] /\ entry' \in [Clients -> Entry \cup {Null}]
      BY <1>3, <2>1, <2>2
      DEF Goto, Others, TransferInv, TransferTypes, TransferTypeOK, Steps
    <2>4. ControlOK(c)'
      <3>1. CASE k.op = "relate"
        BY <1>1, <1>3, <2>1, <2>3, <3>1, StoreAssumption
        DEF ControlOK, AfterRead, WellFormed, NoEffect
      <3>2. CASE k.op = "discard"
        BY <1>1, <1>3, <2>1, <2>3, <3>2 DEF ControlOK, AfterRead
      <3>3. CASE k.op \in {"update", "confirm", "pin"}
        <4>1. AfterRead(k, row) \in {"write", "complete"}
          BY <3>3 DEF AfterRead
        <4>2. AfterRead(k, row) = "complete" => k.op = "pin" /\ k.key \in Keys
          BY <1>1, <3>3 DEF AfterRead, WellFormed
        <4>3. k.key \in Keys => entry[c] # Null
          BY <1>1, StoreAssumption DEF ControlOK
        <4> QED BY <1>1, <1>3, <2>1, <2>3, <3>3, <4>1, <4>2, <4>3 DEF ControlOK, LedgerOps
      <3> QED BY <1>1, <3>1, <3>2, <3>3
    <2> QED BY <1>1, <1>3, <2>1, <2>2, <2>3, <2>4, CommandMoves DEF Steps
  <1> QED BY <1>2, <1>3 DEF Read

\* The compare-and-swap found the version that was read.  The row may be another
\* one since, an import of the same version; the new one keeps its write key.
LEMMA WriteTransfer ==
  ASSUME TransferInv, NEW c \in Clients, Write(c), UNCHANGED transfer
  PROVE  TransferInv'
  <1> DEFINE k == cmd[c]
             old == memories[k.id]
             row == Updated(old, Evolve(seen[c], NewContent(k, seen[c]), Target(k, seen[c])))
             new == [kind |-> "update", id |-> k.id, row |-> row,
                     snaps |-> {SnapshotOf(k.id, row)}, rels |-> {}]
             step == IF k.rel # Null THEN "link" ELSE AfterWrite(k)
  <1>1. /\ pc[c] = "write" /\ package[c] = Null /\ ControlOK(c)
        /\ k \in Command /\ WellFormed(k) /\ k.id \in Ids /\ k # Null
        /\ k.op \in {"update", "confirm", "pin"} /\ effect[c] = NoEffect
        /\ seen[c] \in Row /\ seen[c] # Null /\ seen[c].version = k.ev
        /\ k.key # Null => entry[c] # Null
    BY InCommand DEF Write, Steps, ControlOK, TransferInv, TransferTypes
  <1>2. CASE Rollback(c)
    BY <1>1, <1>2, CommandEnds
  <1>3. CASE /\ Swappable(k)
             /\ effect' = [effect EXCEPT ![c] = new]
             /\ Goto(c, step)
             /\ UNCHANGED <<tables, cmd, seen, entry>>
    <2>1. old \in Row /\ old # Null /\ old.version = seen[c].version
      BY <1>1, <1>3 DEF Swappable, TransferInv, TransferTypes
    <2>2. Target(k, seen[c]) \in States
      BY <1>1 DEF Target, LinkedState, Command, Row, States
    <2>3. NewContent(k, seen[c]) \in Contents
      BY <1>1 DEF NewContent, Command, Row
    <2>4. row \in Row /\ row.version = old.version + 1 /\ row.key = old.key
      BY <1>1, <2>1, <2>2, <2>3 DEF Updated, Evolve, Row
    <2>5. SnapshotOf(k.id, row) \in Snapshot
      BY <1>1, <2>4 DEF SnapshotOf, Snapshot, Row
    <2> HIDE DEF row
    <2>6. new \in Effect
      BY <1>1, <2>4, <2>5 DEF Effect
    <2>7. /\ Others(c) /\ pc'[c] = step /\ effect'[c] = new
          /\ effect' \in [Clients -> Effect] /\ step \in Steps
          /\ pc' \in [Clients -> Steps \cup TransferSteps]
          /\ seen' \in [Clients -> Row \cup {Null}] /\ entry' \in [Clients -> Entry \cup {Null}]
      BY <1>3, <2>6
      DEF Goto, Others, TransferInv, TransferTypes, TransferTypeOK, Steps, AfterWrite
    <2>8. ControlOK(c)'
      <3>1. k.key # Null => k.key \in Keys
        BY <1>1 DEF Command
      <3>2. effect'[c].kind = "update"
        BY <2>7
      <3> QED BY <1>1, <1>3, <2>7, <3>1, <3>2 DEF ControlOK, AfterWrite, LedgerOps, WellFormed
    <2>9. TransferPending(c)'
      <3>1. cmd'[c] = k /\ memories' = memories /\ row # Null /\ package'[c] = Null
        BY <1>1, <1>3, <2>4, StoreAssumption DEF tables, transfer
      <3> QED BY <1>1, <2>1, <2>4, <2>7, <3>1 DEF TransferPending
    <2>10. ASSUME NEW d \in Clients \ {c} PROVE TransferApart(c, d)' /\ TransferApart(d, c)'
      <3>1. TransferApart(c, d) /\ TransferApart(d, c) /\ ~Writes(d, k.id)
        BY DEF TransferInv, Write, CanUpdate
      <3> QED BY <1>1, <1>3, <2>7, <3>1
              DEF TransferApart, Apart, Writes, Deletes, Shares, Others, NoEffect
    <2> QED BY <1>1, <1>3, <2>7, <2>8, <2>9, <2>10, CommandStep
  <1> QED BY <1>2, <1>3 DEF Write

LEMMA LinkTransfer ==
  ASSUME TransferInv, NEW c \in Clients, Link(c), UNCHANGED transfer
  PROVE  TransferInv'
  <1> DEFINE k == cmd[c]
             r == [source |-> k.id, target |-> k.other, type |-> k.rel]
  <1>1. /\ pc[c] = "link" /\ package[c] = Null /\ ControlOK(c)
        /\ k \in Command /\ WellFormed(k) /\ k.id \in Ids /\ k # Null
        /\ \/ k.op = "update" /\ effect[c].kind = "update" /\ k.rel # Null
           \/ k.op = "relate" /\ effect[c].kind = "none"
        /\ k.key # Null => entry[c] # Null
        /\ seen[c] # Null => (k.op # "relate" => seen[c].version = k.ev)
    BY InCommand DEF Link, Steps, ControlOK
  <1>2. CASE Rollback(c)
    BY <1>1, <1>2, CommandEnds
  <1>3. CASE /\ memories[k.id] # Null /\ memories[k.other] # Null
             /\ effect' = [effect EXCEPT ![c].rels = {r}]
             /\ Goto(c, AfterWrite(k))
             /\ UNCHANGED <<tables, cmd, seen, entry>>
    <2>1. k.other \in Ids /\ k.rel \in RelationTypes
      BY <1>1 DEF WellFormed, Command
    <2>2. /\ Others(c) /\ pc'[c] = AfterWrite(k) /\ effect[c] \in Effect
          /\ effect'[c] = [effect[c] EXCEPT !.rels = {r}] /\ AfterWrite(k) \in Steps
          /\ pc' \in [Clients -> Steps \cup TransferSteps]
          /\ seen' \in [Clients -> Row \cup {Null}] /\ entry' \in [Clients -> Entry \cup {Null}]
      BY <1>3
      DEF Goto, Others, TransferInv, TransferTypes, TransferTypeOK, Steps, AfterWrite
    <2>3. /\ effect'[c] \in Effect /\ effect'[c].rels = {r}
          /\ effect'[c].kind = effect[c].kind /\ effect'[c].id = effect[c].id
          /\ effect'[c].row = effect[c].row /\ effect'[c].snaps = effect[c].snaps
      BY <1>1, <2>1, <2>2 DEF Effect, Relation
    <2>4. effect' \in [Clients -> Effect]
      BY <1>3, <2>2, <2>3 DEF TransferInv, TransferTypes
    <2>5. ControlOK(c)'
      <3>1. k.key # Null => k.key \in Keys
        BY <1>1 DEF Command
      <3> QED BY <1>1, <1>3, <2>2, <2>3, <3>1 DEF ControlOK, AfterWrite, LedgerOps, WellFormed
    <2>6. TransferPending(c)'
      <3>1. TransferPending(c) /\ effect[c].kind \in {"none", "update"}
        BY <1>1 DEF TransferInv
      <3> QED BY <1>1, <1>3, <2>3, <3>1 DEF TransferPending, tables, transfer
    <2>7. ASSUME NEW d \in Clients \ {c} PROVE TransferApart(c, d)' /\ TransferApart(d, c)'
      <3>1. TransferApart(c, d) /\ TransferApart(d, c) /\ ~Deletes(d, k.id) /\ ~Deletes(d, k.other)
        BY DEF TransferInv, Link, CanLink
      <3> QED BY <1>3, <2>2, <2>3, <3>1
              DEF TransferApart, Apart, Writes, Deletes, Shares, Others
    <2> QED BY <1>1, <1>3, <2>2, <2>4, <2>5, <2>6, <2>7, CommandStep
  <1> QED BY <1>2, <1>3 DEF Link

LEMMA RemoveTransfer ==
  ASSUME TransferInv, NEW c \in Clients, Remove(c), UNCHANGED transfer
  PROVE  TransferInv'
  <1> DEFINE k == cmd[c]
             new == [kind |-> "delete", id |-> k.id, row |-> Null,
                     snaps |-> {}, rels |-> {}]
  <1>1. /\ pc[c] = "remove" /\ package[c] = Null /\ ControlOK(c)
        /\ k \in Command /\ WellFormed(k) /\ k.id \in Ids /\ k # Null
        /\ k.op \in {"discard", "forget"} /\ effect[c] = NoEffect
        /\ k.key # Null => entry[c] # Null
        /\ seen[c] # Null => (k.op # "relate" => seen[c].version = k.ev)
    BY InCommand DEF Remove, Steps, ControlOK
  <1>2. UNCHANGED <<tables, cmd, seen, entry>>
    BY DEF Remove
  <1>3. \/ /\ memories[k.id] # Null
           /\ effect' = [effect EXCEPT ![c] = new]
           /\ Goto(c, "sources")
        \/ /\ effect' = effect
           /\ Goto(c, AfterWrite(k))
    BY DEF Remove
  <1>4. /\ Others(c) /\ pc'[c] \in Steps
        /\ effect'[c] = new => pc'[c] = "sources"
        /\ effect'[c] = NoEffect => pc'[c] = AfterWrite(k)
        /\ effect'[c] \in {new, NoEffect}
        /\ effect'[c] = new => memories[k.id] # Null
        /\ pc' \in [Clients -> Steps \cup TransferSteps]
        /\ seen' \in [Clients -> Row \cup {Null}] /\ entry' \in [Clients -> Entry \cup {Null}]
    BY <1>1, <1>2, <1>3
    DEF Goto, Others, TransferInv, TransferTypes, TransferTypeOK, NoEffect, Steps, AfterWrite
  <1>5. effect' \in [Clients -> Effect]
    <2>1. new \in Effect
      BY <1>1 DEF Effect
    <2> QED BY <1>3, <2>1 DEF TransferInv, TransferTypes
  <1>6. ControlOK(c)'
    <2>1. k.key # Null => k.key \in Keys
      BY <1>1 DEF Command
    <2>2. CASE effect'[c] = new
      BY <1>1, <1>2, <1>4, <2>2 DEF ControlOK
    <2>3. CASE effect'[c] = NoEffect
      BY <1>1, <1>2, <1>4, <2>1, <2>3 DEF ControlOK, AfterWrite, LedgerOps, NoEffect
    <2> QED BY <1>4, <2>2, <2>3
  <1>7. TransferPending(c)'
    <2>1. memories' = memories /\ cmd'[c] = k /\ package'[c] = Null
      BY <1>1, <1>2 DEF tables, transfer
    <2>2. CASE effect'[c] = new
      BY <1>1, <1>4, <2>1, <2>2 DEF TransferPending
    <2>3. CASE effect'[c] = NoEffect
      BY <2>3 DEF TransferPending, NoEffect
    <2> QED BY <1>4, <2>2, <2>3
  <1>8. ASSUME NEW d \in Clients \ {c} PROVE TransferApart(c, d)' /\ TransferApart(d, c)'
    <2>1. TransferApart(c, d) /\ TransferApart(d, c) /\ ~Writes(d, k.id) /\ ~Shares(d, k.id)
      BY DEF TransferInv, Remove, CanDelete
    <2> QED BY <1>2, <1>4, <2>1
            DEF TransferApart, Apart, Writes, Deletes, Shares, Others, NoEffect
  <1> QED BY <1>1, <1>2, <1>4, <1>5, <1>6, <1>7, <1>8, CommandStep

LEMMA CascadeTransfer ==
  ASSUME TransferInv, NEW c \in Clients, Cascade(c), UNCHANGED transfer
  PROVE  TransferInv'
  <1> DEFINE k == cmd[c]
  <1>1. /\ pc[c] \in {"sources", "targets"} /\ package[c] = Null /\ ControlOK(c)
        /\ k \in Command /\ WellFormed(k) /\ k.id \in Ids /\ k # Null
        /\ k.op \in {"discard", "forget"} /\ effect[c].kind = "delete"
        /\ k.key # Null => entry[c] # Null
        /\ seen[c] # Null => (k.op # "relate" => seen[c].version = k.ev)
    BY InCommand DEF Cascade, Steps, ControlOK
  <1>2. /\ UNCHANGED <<tables, cmd, seen, effect, entry>> /\ Others(c)
        /\ pc'[c] \in {"targets", AfterWrite(k)} /\ pc'[c] \in Steps
        /\ pc' \in [Clients -> Steps \cup TransferSteps]
    BY DEF Cascade, Goto, Others, TransferInv, TransferTypes, TransferTypeOK, Steps, AfterWrite
  <1>3. /\ seen' \in [Clients -> Row \cup {Null}] /\ effect' \in [Clients -> Effect]
        /\ entry' \in [Clients -> Entry \cup {Null}]
    BY <1>2 DEF TransferInv, TransferTypes, TransferTypeOK
  <1>4. ControlOK(c)'
    <2>1. k.key # Null => k.key \in Keys
      BY <1>1 DEF Command
    <2> QED BY <1>1, <1>2, <2>1 DEF ControlOK, AfterWrite, LedgerOps
  <1>5. TransferPending(c)'
    BY <1>2 DEF TransferInv, TransferPending, HolderOf, tables, transfer
  <1>6. ASSUME NEW d \in Clients \ {c} PROVE TransferApart(c, d)' /\ TransferApart(d, c)'
    BY <1>2 DEF TransferInv, TransferApart, Apart, Writes, Deletes, Shares
  <1> QED BY <1>1, <1>2, <1>3, <1>4, <1>5, <1>6, CommandStep

------------------------------------------------------------------------------
(* The statements of an import and an export *)

\* A statement of an import or an export that writes nothing.
LEMMA PackageMoves ==
  ASSUME TransferInv, NEW c \in Clients,
         UNCHANGED <<tables, cmd, seen, effect, entry, exported>>, Others(c), OtherPackages(c),
         pc' \in [Clients -> Steps \cup TransferSteps],
         package' \in [Clients -> Package \cup {Null}], vector' \in [Clients -> BOOLEAN],
         barred' \in [Clients -> BOOLEAN],
         cmd[c] = Null, seen[c] = Null, entry[c] = Null, effect[c] = NoEffect,
         package'[c] # Null, Named(package'[c].id),
         pc'[c] \in TransferSteps, pc'[c] # "history" => ValidPackage(package'[c]),
         BarredOK(c)'
  PROVE  TransferInv'
  <1>1. TransferTypes'
    BY DEF TransferInv, TransferTypes, TransferTypeOK, tables
  <1>2. TransferControl(c)'
    BY DEF TransferControl, TransferSteps, ValidPackage
  <1>3. NamesOK(c)' /\ TransferPending(c)'
    BY DEF NamesOK, Named, Known, TransferPending, NoEffect, tables
  <1>4. \A d \in Clients \ {c} : TransferApart(c, d)' /\ TransferApart(d, c)'
    BY DEF TransferInv, TransferApart, Apart, Writes, Deletes, Shares
  <1>5. exported' # Null => Known(exported'.id)
    BY DEF TransferInv
  <1> QED BY <1>1, <1>2, <1>3, <1>4, <1>5, TransferFrame

\* A client between two requests holds nothing.
LEMMA IdleClient ==
  ASSUME TransferInv, NEW c \in Clients, pc[c] = "idle"
  PROVE  /\ package[c] = Null /\ cmd[c] = Null /\ seen[c] = Null /\ entry[c] = Null
         /\ effect[c] = NoEffect /\ ~barred[c]
  BY DEF TransferInv, TransferControl, ControlOK, TransferSteps, BarredOK

\* So does one that moves a package, before it stores it.
LEMMA PackageClient ==
  ASSUME TransferInv, NEW c \in Clients, pc[c] \in TransferSteps
  PROVE  /\ package[c] \in Package /\ package[c] # Null /\ Named(package[c].id)
         /\ cmd[c] = Null /\ seen[c] = Null /\ entry[c] = Null /\ effect[c] = NoEffect
         /\ pc[c] # "history" => ValidPackage(package[c])
  <1>1. package[c] # Null
    BY DEF TransferInv, TransferControl, TransferSteps, Steps
  <1> QED BY <1>1 DEF TransferInv, TransferTypes, TransferTypeOK, TransferControl, TransferSteps,
                     NamesOK

LEMMA BeginImportTransfer ==
  ASSUME TransferInv, NEW c \in Clients, BeginImport(c)
  PROVE  TransferInv'
  <1>1. PICK p \in Packages \cup ({exported} \ {Null}) :
          /\ ValidPackage(p)
          /\ package' = [package EXCEPT ![c] = p]
          /\ barred' = [barred EXCEPT ![c] = p.id \in tombstones]
    BY DEF BeginImport
  <1>2. p \in Package /\ p # Null /\ Named(p.id)
    BY PackageAssumption DEF TransferInv, TransferTypes, TransferTypeOK, Named
  <1>3. /\ UNCHANGED <<tables, cmd, seen, effect, entry, exported>> /\ Others(c) /\ OtherPackages(c)
        /\ pc' \in [Clients -> Steps \cup TransferSteps]
        /\ package' \in [Clients -> Package \cup {Null}] /\ vector' \in [Clients -> BOOLEAN]
        /\ pc'[c] = "check" /\ package'[c] = p /\ "check" \in TransferSteps
    BY <1>1, <1>2 DEF BeginImport, Goto, Others, OtherPackages, TransferInv, TransferTypes,
                      TransferTypeOK, TransferSteps
  <1>4. barred' \in [Clients -> BOOLEAN] /\ barred'[c] = (p.id \in tombstones)
    <2>1. barred \in [Clients -> BOOLEAN] /\ (p.id \in tombstones) \in BOOLEAN
      BY DEF TransferInv, TransferTypes, TransferTypeOK
    <2> QED BY <1>1, <2>1, Zenon
  <1>5. BarredOK(c)'
    BY <1>2, <1>3, <1>4 DEF BarredOK, tables
  <1>6. /\ cmd[c] = Null /\ seen[c] = Null /\ entry[c] = Null /\ effect[c] = NoEffect
    BY IdleClient DEF BeginImport
  <1> QED BY <1>1, <1>2, <1>3, <1>4, <1>5, <1>6, PackageMoves

LEMMA CheckImportTransfer ==
  ASSUME TransferInv, NEW c \in Clients, CheckImport(c)
  PROVE  TransferInv'
  <1>1. CASE Reject(c)
    BY <1>1, RejectInv
  <1>2. CASE ~Reject(c)
    <2>1. /\ Goto(c, "guard") /\ UNCHANGED <<tables, cmd, seen, effect, entry, package, exported, barred>>
          /\ vector' = [vector EXCEPT ![c] = package[c].vector \/ memories[package[c].id] = Null]
      BY <1>2 DEF CheckImport
    <2>2. pc[c] = "check" /\ "check" \in TransferSteps /\ "guard" \in TransferSteps
      BY DEF CheckImport, TransferSteps
    <2>3. /\ package[c] \in Package /\ package[c] # Null /\ Named(package[c].id)
          /\ cmd[c] = Null /\ seen[c] = Null /\ entry[c] = Null /\ effect[c] = NoEffect
          /\ ValidPackage(package[c])
      BY <2>2, PackageClient
    <2>4. vector' \in [Clients -> BOOLEAN]
      <3>1. package[c].vector \in BOOLEAN
        BY <2>3 DEF Package
      <3>2. vector \in [Clients -> BOOLEAN]
        BY DEF TransferInv, TransferTypes, TransferTypeOK
      <3> QED BY <2>1, <3>1, <3>2, Zenon
    <2>5. /\ Others(c) /\ OtherPackages(c) /\ pc'[c] = "guard"
          /\ pc' \in [Clients -> Steps \cup TransferSteps]
          /\ package' \in [Clients -> Package \cup {Null}] /\ barred' \in [Clients -> BOOLEAN]
      BY <2>1, <2>2 DEF Goto, Others, OtherPackages, TransferInv, TransferTypes, TransferTypeOK
    <2>6. BarredOK(c)'
      BY <2>1, <2>5 DEF TransferInv, BarredOK, tables
    <2> QED BY <2>1, <2>2, <2>3, <2>4, <2>5, <2>6, PackageMoves
  <1> QED BY <1>1, <1>2

\* The second look at the tombstones is where an import that began after the
\* forget ends at the latest.
LEMMA GuardImportTransfer ==
  ASSUME TransferInv, NEW c \in Clients, GuardImport(c)
  PROVE  TransferInv'
  <1>1. CASE Reject(c)
    BY <1>1, RejectInv
  <1>2. CASE ~Reject(c)
    <2>1. /\ ~IsTombstoned(package[c].id) /\ Goto(c, "store")
          /\ UNCHANGED <<tables, cmd, seen, effect, entry, transfer>>
      BY <1>2 DEF GuardImport
    <2>2. pc[c] = "guard" /\ "guard" \in TransferSteps /\ "store" \in TransferSteps
      BY DEF GuardImport, TransferSteps
    <2>3. /\ package[c] \in Package /\ package[c] # Null /\ Named(package[c].id)
          /\ cmd[c] = Null /\ seen[c] = Null /\ entry[c] = Null /\ effect[c] = NoEffect
          /\ ValidPackage(package[c])
      BY <2>2, PackageClient
    <2>4. /\ Others(c) /\ OtherPackages(c) /\ pc'[c] = "store"
          /\ pc' \in [Clients -> Steps \cup TransferSteps]
          /\ package' \in [Clients -> Package \cup {Null}] /\ barred' \in [Clients -> BOOLEAN]
          /\ vector' \in [Clients -> BOOLEAN]
      BY <2>1, <2>2 DEF Goto, Others, OtherPackages, TransferInv, TransferTypes, TransferTypeOK,
                        transfer
    <2>5. BarredOK(c)'
      BY <2>1 DEF TransferInv, BarredOK, IsTombstoned, transfer
    <2> QED BY <2>1, <2>2, <2>3, <2>4, <2>5, PackageMoves DEF transfer
  <1> QED BY <1>1, <1>2

\* The insert of an import waits as any other insert does.
LEMMA StoreImportTransfer ==
  ASSUME TransferInv, NEW c \in Clients, StoreImport(c)
  PROVE  TransferInv'
  <1> DEFINE p == package[c]
  <1>1. CASE Reject(c)
    BY <1>1, RejectInv
  <1>2. CASE ~Reject(c)
    <2>1. /\ memories[p.id] = Null /\ HolderOf(p.row.key) = {}
          /\ effect' = [effect EXCEPT ![c] = Imported(p)] /\ Goto(c, "commit")
          /\ UNCHANGED <<tables, cmd, seen, entry, transfer>>
      BY <1>2 DEF StoreImport
    <2>2. pc[c] = "store" /\ "store" \in TransferSteps
      BY DEF StoreImport, TransferSteps
    <2>3. /\ p \in Package /\ p # Null /\ Named(p.id) /\ ValidPackage(p)
          /\ cmd[c] = Null /\ seen[c] = Null /\ entry[c] = Null /\ effect[c] = NoEffect
      BY <2>2, PackageClient
    <2>4. Imported(p) \in Effect
      BY <2>3 DEF Imported, Package, Effect
    <2>5. /\ Others(c) /\ OtherPackages(c) /\ UNCHANGED tables /\ pc'[c] = "commit"
          /\ effect'[c] = Imported(p) /\ package'[c] = p
      BY <2>1 DEF Goto, Others, OtherPackages, TransferInv, TransferTypes, TransferTypeOK, transfer
    <2>6. TransferTypes'
      BY <2>1, <2>4 DEF Goto, TransferInv, TransferTypes, TransferTypeOK, Steps, tables, transfer
    <2>7. TransferControl(c)'
      BY <2>1, <2>3, <2>5 DEF TransferControl
    <2>8. NamesOK(c)' /\ BarredOK(c)'
      BY <2>1, <2>2, <2>3 DEF TransferInv, NamesOK, Named, Known, BarredOK, tables, transfer
    <2>9. TransferPending(c)'
      <3>1. p.row # Null /\ p.id \in Ids /\ memories' = memories
        BY <2>1, <2>3, StoreAssumption DEF Package, tables
      <3>2. HolderOf(p.row.key)' = {}
        BY <2>1, <2>5, <3>1 DEF HolderOf
      <3> QED BY <2>1, <2>3, <2>5, <3>1, <3>2 DEF TransferPending, Imported, ValidPackage
    <2>10. ASSUME NEW d \in Clients \ {c} PROVE TransferApart(c, d)' /\ TransferApart(d, c)'
      <3>1. TransferApart(c, d) /\ TransferApart(d, c) /\ TransferPending(d)
        BY DEF TransferInv
      <3>2. ~Writes(d, p.id)
        BY <2>1, <3>1 DEF StoreImport, CanImport, TransferPending, Writes
      <3>3. effect[d].kind = "insert" /\ p.row.key # Null => effect[d].row.key # p.row.key
        BY DEF StoreImport, CanImport, CanInsert
      <3> QED BY <2>1, <2>3, <2>5, <3>1, <3>2, <3>3
              DEF TransferApart, Apart, Writes, Deletes, Shares, Others, NoEffect, Imported
    <2>11. exported' # Null => Known(exported'.id)
      BY <2>1 DEF TransferInv, transfer
    <2> QED BY <2>5, <2>6, <2>7, <2>8, <2>9, <2>10, <2>11, TransferFrame
  <1> QED BY <1>1, <1>2

LEMMA ExportRowTransfer ==
  ASSUME TransferInv, NEW c \in Clients, ExportRow(c)
  PROVE  TransferInv'
  <1>1. PICK i \in Ids :
          /\ memories[i] # Null
          /\ package' = [package EXCEPT ![c] =
                           [id |-> i, row |-> memories[i], history |-> {}, vector |-> TRUE]]
    BY DEF ExportRow
  <1> DEFINE p == [id |-> i, row |-> memories[i], history |-> {}, vector |-> TRUE]
  <1>2. p \in Package /\ p # Null /\ Named(p.id)
    <2>1. memories[i] \in Row
      BY <1>1 DEF TransferInv, TransferTypes
    <2>2. p \in Package
      BY <2>1 DEF Package
    <2> QED BY <1>1, <2>2, PackageAssumption DEF Named, Known
  <1>3. /\ UNCHANGED <<tables, cmd, seen, effect, entry, exported>> /\ Others(c) /\ OtherPackages(c)
        /\ pc' \in [Clients -> Steps \cup TransferSteps] /\ pc'[c] = "history"
        /\ package' \in [Clients -> Package \cup {Null}] /\ package'[c] = p
        /\ vector' \in [Clients -> BOOLEAN] /\ barred' \in [Clients -> BOOLEAN]
        /\ barred'[c] = barred[c] /\ "history" \in TransferSteps
    BY <1>1, <1>2 DEF ExportRow, Goto, Others, OtherPackages, TransferInv, TransferTypes,
                      TransferTypeOK, TransferSteps
  <1>4. /\ cmd[c] = Null /\ seen[c] = Null /\ entry[c] = Null /\ effect[c] = NoEffect /\ ~barred[c]
    BY IdleClient DEF ExportRow
  <1>5. BarredOK(c)'
    BY <1>3, <1>4 DEF BarredOK
  <1> QED BY <1>2, <1>3, <1>4, <1>5, PackageMoves

LEMMA ExportHistoryTransfer ==
  ASSUME TransferInv, NEW c \in Clients, ExportHistory(c)
  PROVE  TransferInv'
  <1> DEFINE p == package[c]
  <1>1. p \in Package
    BY PackageClient DEF ExportHistory, TransferSteps
  <1>2. exported' = IF memories[p.id] = Null THEN exported
                    ELSE [p EXCEPT !.history = HistoryOf(p.id)]
    BY DEF ExportHistory
  <1>3. CASE memories[p.id] = Null
    BY <1>2, <1>3, PackageEnds DEF ExportHistory, TransferInv, TransferTypes, TransferTypeOK
  <1>4. CASE memories[p.id] # Null
    <2>1. HistoryOf(p.id) \in SUBSET Snapshot
      BY DEF HistoryOf, TransferInv, TransferTypes
    <2>2. exported' \in Package /\ exported'.id = p.id
      BY <1>1, <1>2, <1>4, <2>1 DEF Package
    <2>3. Known(exported'.id)
      BY <1>4, <2>2 DEF Known
    <2> QED BY <2>2, <2>3, PackageEnds DEF ExportHistory
  <1> QED BY <1>3, <1>4

------------------------------------------------------------------------------
(* Commit *)

\* What the commit of a command or of an import does to the tables.
LEMMA TransferTables ==
  ASSUME TransferInv, NEW c \in Clients, Commit(c)
  PROVE  LET e == effect[c] IN
         /\ e \in Effect /\ TransferPending(c)
         /\ \A i \in Ids : memories'[i] = IF Writes(c, i) THEN e.row ELSE memories[i]
         /\ e.kind \in {"insert", "update"} => e.row \in Row /\ e.row # Null
         /\ e.kind # "delete" => tombstones' = tombstones
         /\ e.kind = "delete" => tombstones' = tombstones \cup {e.id}
         /\ memories' \in [Ids -> Row \cup {Null}] /\ versions' \in SUBSET Snapshot
         /\ relations' \in SUBSET Relation /\ tombstones' \in SUBSET Ids
         /\ ledger' \in [LedgerKeys -> Entry \cup {Null}]
  <1> DEFINE e == effect[c]
  <1>1. e \in Effect /\ TransferPending(c)
    BY DEF TransferInv, TransferTypes
  <1>2. memories' = [i \in Ids |-> IF Writes(c, i) THEN e.row ELSE memories[i]]
    BY DEF Commit
  <1>3. memories' \in [Ids -> Row \cup {Null}]
    BY <1>1, <1>2 DEF TransferInv, TransferTypes, Effect
  <1>4. e.kind \in {"insert", "update"} => e.row \in Row /\ e.row # Null
    BY <1>1 DEF TransferPending, Effect
  <1>5. /\ e.kind # "delete" => tombstones' = tombstones
        /\ e.kind = "delete" => tombstones' = tombstones \cup {e.id}
    BY <1>1 DEF Commit, Deletes, TransferPending
  <1>6. versions' \in SUBSET Snapshot
    <2>1. e.snaps \in SUBSET Snapshot /\ versions \in SUBSET Snapshot
      BY <1>1 DEF TransferInv, TransferTypes, Effect
    <2>2. versions' = {s \in versions : ~Deletes(c, s.id)} \cup e.snaps
      BY DEF Commit
    <2> QED BY <2>1, <2>2
  <1>7. relations' \in SUBSET Relation
    <2>1. e.rels \in SUBSET Relation /\ relations \in SUBSET Relation
      BY <1>1 DEF TransferInv, TransferTypes, Effect
    <2>2. relations' = {r \in relations : ~Deletes(c, r.source) /\ ~Deletes(c, r.target)}
                         \cup e.rels
      BY DEF Commit
    <2> QED BY <2>1, <2>2
  <1>8. tombstones' \in SUBSET Ids
    BY DEF Commit, TransferInv, TransferTypes
  <1>9. ledger' \in [LedgerKeys -> Entry \cup {Null}]
    BY DEF Commit, TransferInv, TransferTypes
  <1> QED BY <1>1, <1>2, <1>3, <1>4, <1>5, <1>6, <1>7, <1>8, <1>9

\* A memory the store has or had stays one, and a commit adds the one it writes.
LEMMA KnownGrows ==
  ASSUME TransferInv, NEW c \in Clients, Commit(c), NEW i \in Ids
  PROVE  /\ Known(i) => Known(i)'
         /\ Known(i)' => Known(i) \/ Writes(c, i)
  <1> DEFINE e == effect[c]
  <1>1. /\ e \in Effect /\ TransferPending(c)
        /\ memories'[i] = IF Writes(c, i) THEN e.row ELSE memories[i]
        /\ e.kind \in {"insert", "update"} => e.row # Null
        /\ e.kind # "delete" => tombstones' = tombstones
        /\ e.kind = "delete" => tombstones' = tombstones \cup {e.id}
    BY TransferTables
  <1> QED BY <1>1 DEF Known, Writes, Effect

\* Nobody writes the identifier of another client's open write.
LEMMA WritesKeptApart ==
  ASSUME TransferInv, NEW c \in Clients, NEW d \in Clients \ {c},
         cmd[d] # Null, cmd[d].op = "write"
  PROVE  cmd[d].id \in Ids /\ ~Writes(c, cmd[d].id)
  <1>1. /\ TransferControl(c) /\ TransferControl(d) /\ NamesOK(c) /\ NamesOK(d)
        /\ TransferPending(c) /\ TransferApart(c, d) /\ effect[c] \in Effect
    BY DEF TransferInv, TransferTypes
  <1>2. cmd[d].id \in Ids /\ ~Named(cmd[d].id)
    BY <1>1 DEF TransferControl, ControlOK, NamesOK
  <1>3. CASE package[c] # Null
    <2>1. effect[c] = NoEffect \/ effect[c].id = package[c].id
      BY <1>1, <1>3 DEF TransferControl, Imported
    <2>2. package[c].id # cmd[d].id
      BY <1>1, <1>2, <1>3 DEF NamesOK
    <2> QED BY <1>2, <2>1, <2>2 DEF Writes, NoEffect
  <1>4. CASE package[c] = Null
    <2> SUFFICES ASSUME Writes(c, cmd[d].id) PROVE FALSE
      BY <1>2
    <2>1. effect[c].kind # "none" /\ effect[c].id = cmd[d].id
      BY DEF Writes
    <2>2. CASE effect[c].kind = "insert"
      BY <1>1, <1>4, <2>1, <2>2 DEF TransferPending, TransferApart, Apart
    <2>3. CASE effect[c].kind \in {"update", "delete"}
      BY <1>1, <1>2, <2>1, <2>3 DEF TransferPending, Named, Known
    <2> QED BY <1>1, <2>1, <2>2, <2>3 DEF Effect
  <1> QED BY <1>3, <1>4

\* A write key a pending insert found free stays free: another client commits
\* neither an insert of the same key nor a change of a key.
LEMMA KeyStaysFree ==
  ASSUME TransferInv, NEW c \in Clients, Commit(c), NEW d \in Clients \ {c},
         effect[d].kind = "insert"
  PROVE  HolderOf(effect[d].row.key)' = {}
  <1> DEFINE e == effect[c]
             key == effect[d].row.key
  <1>1. effect'[d] = effect[d]
    BY DEF Commit, EndTransaction, TransferInv, TransferTypes
  <1>2. HolderOf(key) = {} /\ TransferApart(c, d)
    BY DEF TransferInv, TransferPending
  <1>3. /\ e \in Effect /\ TransferPending(c)
        /\ \A i \in Ids : memories'[i] = IF Writes(c, i) THEN e.row ELSE memories[i]
    BY TransferTables
  <1>4. SUFFICES ASSUME NEW i \in Ids, key # Null, memories'[i] # Null, memories'[i].key = key
                 PROVE  FALSE
    BY <1>1 DEF HolderOf
  <1>5. memories[i] # Null => memories[i].key # key
    BY <1>2, <1>4 DEF HolderOf
  <1>6. Writes(c, i) /\ e.row # Null /\ e.row.key = key
    BY <1>3, <1>4, <1>5
  <1>7. e.kind = "insert" \/ e.kind = "update"
    BY <1>3, <1>6 DEF Writes, TransferPending, Effect
  <1>8. CASE e.kind = "insert"
    BY <1>2, <1>4, <1>6, <1>8 DEF TransferApart
  <1>9. CASE e.kind = "update"
    BY <1>3, <1>5, <1>6, <1>9 DEF TransferPending, Writes
  <1> QED BY <1>7, <1>8, <1>9

\* A commit does not disturb what the other clients rely on.
LEMMA TransferOthers ==
  ASSUME TransferInv, NEW c \in Clients, Commit(c), EndTransfer(c), NEW d \in Clients \ {c}
  PROVE  (TransferControl(d) /\ NamesOK(d) /\ BarredOK(d) /\ TransferPending(d))'
  <1> DEFINE e == effect[c]
             f == effect[d]
  <1>1. /\ pc'[d] = pc[d] /\ cmd'[d] = cmd[d] /\ seen'[d] = seen[d]
        /\ effect'[d] = effect[d] /\ entry'[d] = entry[d]
        /\ package'[d] = package[d] /\ barred'[d] = barred[d]
    BY DEF Commit, EndTransaction, EndTransfer, TransferInv, TransferTypes, TransferTypeOK
  <1>2. /\ TransferControl(d) /\ NamesOK(d) /\ BarredOK(d) /\ TransferPending(d)
        /\ TransferApart(c, d)
    BY DEF TransferInv
  <1>3. /\ e \in Effect /\ TransferPending(c)
        /\ \A i \in Ids : memories'[i] = IF Writes(c, i) THEN e.row ELSE memories[i]
        /\ e.kind \in {"insert", "update"} => e.row # Null
        /\ tombstones \subseteq tombstones'
    BY TransferTables
  <1>4. TransferControl(d)'
    BY <1>1, <1>2 DEF TransferControl, ControlOK
  <1>5. NamesOK(d)'
    <2>1. package[d] # Null => Named(package[d].id)'
      <3>1. package[d] # Null => package[d].id \in Ids
        BY DEF TransferInv, TransferTypes, TransferTypeOK, Package
      <3> QED BY <1>1, <1>2, <3>1, KnownGrows DEF NamesOK, Named, Known
    <2>2. cmd[d] # Null /\ cmd[d].op = "write" => ~Named(cmd[d].id)'
      <3> SUFFICES ASSUME cmd[d] # Null, cmd[d].op = "write" PROVE ~Named(cmd[d].id)'
        OBVIOUS
      <3>1. cmd[d].id \in Ids /\ ~Writes(c, cmd[d].id)
        BY WritesKeptApart
      <3>2. ~Known(cmd[d].id) /\ ~(\E p \in Packages : p.id = cmd[d].id)
        BY <1>2 DEF NamesOK, Named
      <3>3. ~Known(cmd[d].id)'
        BY <1>1, <1>3, <3>1, <3>2, KnownGrows DEF Known
      <3> QED BY <1>1, <3>2, <3>3 DEF Named
    <2> QED BY <1>1, <2>1, <2>2 DEF NamesOK, Named, Known
  <1>6. BarredOK(d)'
    BY <1>1, <1>2, <1>3 DEF BarredOK
  <1>7. TransferPending(d)'
    <2>1. f.kind # "none" => f.id \in Ids /\ ~Writes(c, f.id)
      BY <1>2 DEF TransferPending, TransferApart, Apart, Writes
    <2>2. f.kind # "none" => memories'[f.id] = memories[f.id]
      BY <1>3, <2>1
    <2>3. ASSUME NEW r \in f.rels
          PROVE  memories'[r.source] # Null /\ memories'[r.target] # Null
      <3>1. /\ r.source \in Ids /\ r.target \in Ids
            /\ memories[r.source] # Null /\ memories[r.target] # Null
        BY <1>2 DEF TransferPending, TransferInv, TransferTypes, Effect, Relation
      <3>2. ~Deletes(c, r.source) /\ ~Deletes(c, r.target)
        BY <1>2, <3>1 DEF TransferApart, Apart, Shares
      <3> QED BY <1>3, <3>1, <3>2 DEF Writes, Deletes, Effect
    <2>4. f.kind = "insert" => HolderOf(f.row.key)' = {}
      BY KeyStaysFree
    <2> QED BY <1>1, <1>2, <2>2, <2>3, <2>4 DEF TransferPending
  <1> QED BY <1>4, <1>5, <1>6, <1>7

\* What a commit leaves of the history of each memory.
LEMMA CommittedHistory ==
  ASSUME TransferInv, NEW c \in Clients, Commit(c), NEW i \in Ids
  PROVE  /\ ~Writes(c, i) => HistoryOf(i)' = HistoryOf(i)
         /\ Writes(c, i) /\ effect[c].kind = "insert" => HistoryOf(i)' = effect[c].snaps
         /\ Writes(c, i) /\ effect[c].kind = "update" =>
              HistoryOf(i)' = HistoryOf(i) \cup {SnapshotOf(i, effect[c].row)}
  <1> DEFINE e == effect[c]
  <1>1. e \in Effect /\ TransferPending(c)
    BY TransferTables
  <1>2. versions' = {s \in versions : ~Deletes(c, s.id)} \cup e.snaps
    BY DEF Commit
  <1>3. /\ e.kind \in {"none", "delete"} => e.snaps = {}
        /\ e.kind = "insert" => \A s \in e.snaps : s.id = e.id
        /\ e.kind = "update" => e.snaps = {SnapshotOf(e.id, e.row)}
    BY <1>1 DEF TransferPending, VersionSequence
  <1>4. SnapshotOf(e.id, e.row).id = e.id
    BY DEF SnapshotOf
  <1>5. CASE ~Writes(c, i)
    <2>1. \A s \in e.snaps : s.id # i
      BY <1>1, <1>3, <1>4, <1>5 DEF Writes, Effect
    <2>2. ~Deletes(c, i)
      BY <1>5 DEF Writes, Deletes
    <2> QED BY <1>2, <1>5, <2>1, <2>2 DEF HistoryOf
  <1>6. CASE Writes(c, i) /\ e.kind = "insert"
    <2>1. e.id = i /\ memories[i] = Null /\ \A j \in Ids : ~Deletes(c, j)
      BY <1>1, <1>6 DEF Writes, TransferPending, Deletes
    <2>2. \A s \in versions : s.id # i
      BY <2>1 DEF TransferInv, ForgetErases
    <2> QED BY <1>2, <1>3, <1>6, <2>1, <2>2 DEF HistoryOf
  <1>7. CASE Writes(c, i) /\ e.kind = "update"
    <2>1. e.id = i /\ ~Deletes(c, i)
      BY <1>7 DEF Writes, Deletes
    <2>2. e.snaps = {SnapshotOf(i, e.row)} /\ SnapshotOf(i, e.row).id = i
      BY <1>3, <1>4, <1>7, <2>1
    <2> HIDE DEF e
    <2> QED BY <1>2, <1>7, <2>1, <2>2 DEF HistoryOf, e
  <1> QED BY <1>5, <1>6, <1>7

\* One more version extends a complete sequence.
LEMMA SequenceExtends ==
  ASSUME NEW i \in Ids, NEW old \in Row, NEW row \in Row, NEW snaps \in SUBSET Snapshot,
         VersionSequence(i, old, snaps), row.version = old.version + 1
  PROVE  VersionSequence(i, row, snaps \cup {SnapshotOf(i, row)})
  <1> DEFINE new == SnapshotOf(i, row)
  <1>1. new.id = i /\ new.version = row.version /\ old.version \in Nat /\ row.version \in Nat
    BY DEF SnapshotOf, Row
  <1>2. \A s \in snaps : s.version \in Nat /\ s.version <= old.version
    BY <1>1 DEF VersionSequence
  <1> HIDE DEF new
  <1>3. \A s \in snaps \cup {new} : s.id = i /\ s.version \in 1..row.version
    BY <1>1, <1>2 DEF VersionSequence
  <1>4. \A v \in 1..row.version : \E s \in snaps \cup {new} : s.version = v
    <2> TAKE v \in 1..row.version
    <2>1. v = row.version \/ v \in 1..old.version
      BY <1>1
    <2> QED BY <1>1, <2>1 DEF VersionSequence
  <1>5. \A s, t \in snaps \cup {new} : s.version = t.version => s = t
    BY <1>1, <1>2 DEF VersionSequence
  <1> QED BY <1>3, <1>4, <1>5 DEF VersionSequence, new

LEMMA CommitSequences ==
  ASSUME TransferInv, NEW c \in Clients, Commit(c)
  PROVE  SequencesComplete'
  <1> DEFINE e == effect[c]
  <1> SUFFICES ASSUME NEW i \in Ids, memories'[i] # Null
               PROVE  VersionSequence(i, memories'[i], HistoryOf(i)')
    BY DEF SequencesComplete, VersionSequence
  <1>1. /\ e \in Effect /\ TransferPending(c)
        /\ memories'[i] = IF Writes(c, i) THEN e.row ELSE memories[i]
        /\ e.kind \in {"insert", "update"} => e.row \in Row /\ e.row # Null
    BY TransferTables
  <1>2. CASE ~Writes(c, i)
    BY <1>1, <1>2, CommittedHistory DEF TransferInv, SequencesComplete
  <1>3. CASE Writes(c, i)
    <2>1. e.id = i /\ memories'[i] = e.row /\ e.kind \in {"insert", "update"}
      BY <1>1, <1>3 DEF Writes, TransferPending, Effect
    <2>2. CASE e.kind = "insert"
      <3>1. HistoryOf(i)' = e.snaps
        BY <1>3, <2>2, CommittedHistory
      <3> QED BY <1>1, <2>1, <2>2, <3>1 DEF TransferPending
    <2>3. CASE e.kind = "update"
      <3>1. HistoryOf(i)' = HistoryOf(i) \cup {SnapshotOf(i, e.row)}
        BY <1>3, <2>3, CommittedHistory
      <3>2. /\ memories[i] \in Row /\ VersionSequence(i, memories[i], HistoryOf(i))
            /\ e.row.version = memories[i].version + 1
        BY <1>1, <2>1, <2>3 DEF TransferPending, TransferInv, TransferTypes, SequencesComplete
      <3>3. HistoryOf(i) \in SUBSET Snapshot
        BY DEF HistoryOf, TransferInv, TransferTypes
      <3> HIDE DEF e
      <3> QED BY <1>1, <2>1, <2>3, <3>1, <3>2, <3>3, SequenceExtends
    <2> QED BY <2>1, <2>2, <2>3
  <1> QED BY <1>2, <1>3

LEMMA CommitErases ==
  ASSUME TransferInv, NEW c \in Clients, Commit(c)
  PROVE  ForgetErases'
  <1> DEFINE e == effect[c]
  <1>1. /\ e \in Effect /\ TransferPending(c) /\ versions' \in SUBSET Snapshot
        /\ \A i \in Ids : memories'[i] = IF Writes(c, i) THEN e.row ELSE memories[i]
        /\ e.kind \in {"insert", "update"} => e.row # Null
    BY TransferTables
  <1>2. \A i \in Ids : memories[i] # Null /\ ~Deletes(c, i) => memories'[i] # Null
    BY <1>1 DEF Writes, Deletes, Effect
  <1>3. ASSUME NEW s \in versions' PROVE memories'[s.id] # Null
    <2>1. \/ s \in versions /\ ~Deletes(c, s.id)
          \/ s \in e.snaps
      BY DEF Commit
    <2>2. CASE s \in versions /\ ~Deletes(c, s.id)
      BY <1>1, <1>2, <2>2 DEF TransferInv, ForgetErases, Snapshot
    <2>3. CASE s \in e.snaps
      <3>1. e.kind \in {"insert", "update"} /\ e.id \in Ids /\ s.id = e.id
        BY <1>1, <2>3 DEF TransferPending, Effect, VersionSequence, SnapshotOf
      <3> QED BY <1>1, <3>1 DEF Writes
    <2> QED BY <2>1, <2>2, <2>3
  <1>4. ASSUME NEW r \in relations' PROVE memories'[r.source] # Null /\ memories'[r.target] # Null
    <2>1. \/ r \in relations /\ ~Deletes(c, r.source) /\ ~Deletes(c, r.target)
          \/ r \in e.rels
      BY DEF Commit
    <2>2. CASE r \in relations /\ ~Deletes(c, r.source) /\ ~Deletes(c, r.target)
      BY <1>2, <2>2 DEF TransferInv, TransferTypes, ForgetErases, Relation
    <2>3. CASE r \in e.rels
      <3>1. /\ r.source \in Ids /\ r.target \in Ids
            /\ memories[r.source] # Null /\ memories[r.target] # Null
        BY <1>1, <2>3 DEF TransferPending, Effect, Relation
      <3>2. e.kind # "delete"
        BY <1>1, <2>3 DEF TransferPending
      <3> QED BY <1>2, <3>1, <3>2 DEF Deletes
    <2> QED BY <2>1, <2>2, <2>3
  <1> QED BY <1>3, <1>4 DEF ForgetErases

\* An insert commits a key nobody holds, and an update does not change one.
LEMMA CommitKeys ==
  ASSUME TransferInv, NEW c \in Clients, Commit(c)
  PROVE  OneMemoryPerWriteKey'
  <1> DEFINE e == effect[c]
  <1>1. /\ e \in Effect /\ TransferPending(c)
        /\ \A i \in Ids : memories'[i] = IF Writes(c, i) THEN e.row ELSE memories[i]
    BY TransferTables
  <1>2. ASSUME NEW i \in Ids, Writes(c, i), memories'[i] # Null, memories'[i].key # Null,
               NEW j \in Ids, ~Writes(c, j), memories'[j] # Null,
               memories'[i].key = memories'[j].key
        PROVE  FALSE
    <2>1. e.id = i /\ memories'[i] = e.row /\ memories'[j] = memories[j] /\ i # j
      BY <1>1, <1>2 DEF Writes
    <2>2. e.kind = "insert" \/ e.kind = "update"
      BY <1>1, <1>2, <2>1 DEF Writes, TransferPending, Effect
    <2>3. CASE e.kind = "insert"
      BY <1>1, <1>2, <2>1, <2>3 DEF TransferPending, HolderOf
    <2>4. CASE e.kind = "update"
      BY <1>1, <1>2, <2>1, <2>4 DEF TransferPending, TransferInv, OneMemoryPerWriteKey
    <2> QED BY <2>2, <2>3, <2>4
  <1>3. ASSUME NEW i \in Ids, NEW j \in Ids, memories'[i] # Null, memories'[j] # Null,
               memories'[i].key # Null, memories'[i].key = memories'[j].key
        PROVE  i = j
    <2>1. CASE Writes(c, i) /\ Writes(c, j)
      BY <2>1 DEF Writes
    <2>2. CASE ~Writes(c, i) /\ ~Writes(c, j)
      BY <1>1, <1>3, <2>2 DEF TransferInv, OneMemoryPerWriteKey
    <2> QED BY <1>2, <1>3, <2>1, <2>2
  <1> QED BY <1>3 DEF OneMemoryPerWriteKey

LEMMA CommitTransfer ==
  ASSUME TransferInv, NEW c \in Clients, Commit(c), EndTransfer(c), UNCHANGED exported
  PROVE  TransferInv'
  <1>1. /\ pc'[c] = "idle" /\ cmd'[c] = Null /\ seen'[c] = Null /\ effect'[c] = NoEffect
        /\ entry'[c] = Null /\ package'[c] = Null /\ ~barred'[c] /\ Others(c)
    BY DEF Commit, EndTransaction, EndTransfer, Others, TransferInv, TransferTypes, TransferTypeOK
  <1>2. TransferTypes'
    <2>1. /\ pc' \in [Clients -> Steps \cup TransferSteps]
          /\ cmd' \in [Clients -> Command \cup {Null}] /\ seen' \in [Clients -> Row \cup {Null}]
          /\ effect' \in [Clients -> Effect] /\ entry' \in [Clients -> Entry \cup {Null}]
      BY DEF Commit, EndTransaction, TransferInv, TransferTypes, TransferTypeOK, Steps, Effect, NoEffect
    <2>2. /\ package' \in [Clients -> Package \cup {Null}] /\ vector' \in [Clients -> BOOLEAN]
          /\ exported' \in Package \cup {Null} /\ barred' \in [Clients -> BOOLEAN]
      BY DEF EndTransfer, TransferInv, TransferTypes, TransferTypeOK
    <2> QED BY <2>1, <2>2, TransferTables DEF TransferTypes, TransferTypeOK
  <1>3. (TransferControl(c) /\ NamesOK(c) /\ BarredOK(c) /\ TransferPending(c))'
    BY <1>1 DEF TransferControl, ControlOK, Steps, NamesOK, BarredOK, TransferPending, NoEffect
  <1>4. ASSUME NEW d \in Clients, NEW f \in Clients, d # f PROVE TransferApart(d, f)'
    <2>1. TransferApart(d, f)
      BY <1>4 DEF TransferInv
    <2>2. CASE d = c \/ f = c
      BY <1>1, <1>4, <2>2 DEF TransferApart, Apart, Writes, Deletes, Shares, NoEffect
    <2>3. CASE d # c /\ f # c
      BY <1>1, <2>1, <2>3 DEF TransferApart, Apart, Writes, Deletes, Shares, Others
    <2> QED BY <2>2, <2>3
  <1>5. (exported # Null => Known(exported.id))'
    <2>1. exported # Null => exported.id \in Ids /\ Known(exported.id)
      BY DEF TransferInv, TransferTypes, TransferTypeOK, Package
    <2> QED BY <2>1, KnownGrows DEF Known
  <1>6. \A d \in Clients : (TransferControl(d) /\ NamesOK(d) /\ BarredOK(d) /\ TransferPending(d))'
    BY <1>3, TransferOthers
  <1> QED BY <1>2, <1>4, <1>5, <1>6, CommitSequences, CommitErases, CommitKeys DEF TransferInv

------------------------------------------------------------------------------
(* The invariant and what follows from it *)

LEMMA InitTransfer == TransferInit => TransferInv
  <1> SUFFICES ASSUME TransferInit PROVE TransferInv
    OBVIOUS
  <1>1. TransferTypes
    BY StoreAssumption DEF TransferInit, Init, TransferTypes, TransferTypeOK, Steps, Effect, NoEffect
  <1>2. \A c \in Clients : TransferControl(c) /\ NamesOK(c) /\ BarredOK(c) /\ TransferPending(c)
    BY DEF TransferInit, Init, TransferControl, ControlOK, Steps, NamesOK, BarredOK,
           TransferPending, NoEffect
  <1>3. \A c, d \in Clients : c # d => TransferApart(c, d)
    BY DEF TransferInit, Init, TransferApart, Apart, Writes, Deletes, Shares, NoEffect
  <1>4. SequencesComplete /\ ForgetErases /\ OneMemoryPerWriteKey
    BY DEF TransferInit, Init, SequencesComplete, ForgetErases, OneMemoryPerWriteKey
  <1> QED BY <1>1, <1>2, <1>3, <1>4 DEF TransferInit, TransferInv

\* The steps of MemoryStore, taken by a client that moves no package.
LEMMA StoreTransferStep ==
  ASSUME TransferInv, NEW c \in Clients, Step(c), ~Commit(c), UNCHANGED transfer
  PROVE  TransferInv'
  <1>1. CASE Refind(c)
    BY <1>1, InCommand, CommandEnds DEF Refind, Steps
  <1>2. CASE Replay(c)
    BY <1>2, InCommand, CommandEnds DEF Replay, Steps
  <1> QED BY <1>1, <1>2, FindTransfer, InsertTransfer, ClaimTransfer, CompleteTransfer,
             ReadTransfer, WriteTransfer, LinkTransfer, RemoveTransfer, CascadeTransfer DEF Step

LEMMA NextTransfer == TransferInv /\ [TransferNext]_allvars => TransferInv'
  <1> SUFFICES ASSUME TransferInv, [TransferNext]_allvars PROVE TransferInv'
    OBVIOUS
  <1>1. CASE UNCHANGED allvars
    <2>1. /\ UNCHANGED <<memories, versions, relations, tombstones, ledger>>
          /\ UNCHANGED <<pc, cmd, seen, effect, entry>>
          /\ UNCHANGED <<package, vector, exported, barred>>
      BY <1>1 DEF allvars, vars, tables, local, transfer
    <2>2. TransferTypes'
      BY <2>1 DEF TransferInv, TransferTypes, TransferTypeOK
    <2>3. \A c \in Clients : (TransferControl(c) /\ NamesOK(c) /\ BarredOK(c) /\ TransferPending(c))'
      BY <2>1 DEF TransferInv, TransferControl, ControlOK, NamesOK, Named, Known, BarredOK,
                  TransferPending, HolderOf
    <2>4. \A c, d \in Clients : c # d => TransferApart(c, d)'
      BY <2>1 DEF TransferInv, TransferApart, Apart, Writes, Deletes, Shares
    <2>5. (/\ exported # Null => Known(exported.id)
           /\ SequencesComplete /\ ForgetErases /\ OneMemoryPerWriteKey)'
      BY <2>1 DEF TransferInv, Known, SequencesComplete, HistoryOf, ForgetErases,
                  OneMemoryPerWriteKey
    <2> QED BY <2>2, <2>3, <2>4, <2>5 DEF TransferInv
  <1>2. CASE TransferNext
    <2>1. PICK c \in Clients :
            \/ StoreStep(c)
            \/ BeginImport(c) \/ CheckImport(c) \/ GuardImport(c) \/ StoreImport(c)
            \/ ExportRow(c) \/ ExportHistory(c)
      BY <1>2 DEF TransferNext
    <2>2. CASE StoreStep(c)
      <3>1. CASE Begin(c) /\ NotPackaged(cmd'[c]) /\ UNCHANGED transfer
        BY <3>1, BeginTransfer
      <3>2. CASE Step(c) /\ ~Commit(c) /\ UNCHANGED transfer
        BY <3>2, StoreTransferStep
      <3>3. CASE Commit(c) /\ EndTransfer(c) /\ UNCHANGED exported
        BY <3>3, CommitTransfer
      <3>4. CASE Abort(c) /\ EndTransfer(c) /\ UNCHANGED exported
        BY <3>4, PackageEnds DEF Abort, TransferInv, TransferTypes, TransferTypeOK
      <3> QED BY <2>2, <3>1, <3>2, <3>3, <3>4 DEF StoreStep
    <2> QED BY <2>1, <2>2, BeginImportTransfer, CheckImportTransfer, GuardImportTransfer,
               StoreImportTransfer, ExportRowTransfer, ExportHistoryTransfer
  <1> QED BY <1>1, <1>2

\* TransferInv holds in every reachable state, whatever the package files are
\* (services.import_memories, services.export_memory, repository.import_memories).
THEOREM TransferInvariant == TransferSpec => []TransferInv
  BY InitTransfer, NextTransfer, PTL DEF TransferSpec

\* An import that begins once its memory is forgotten never stores anything, for
\* any interleaving with the other requests (the two is_tombstoned lookups of
\* services.import_memories and repository.import_memories).
THEOREM RestoreIsBlocked == TransferSpec => []RestoreBlocked
  <1>1. TransferInv => RestoreBlocked
    <2> SUFFICES ASSUME TransferInv PROVE RestoreBlocked
      OBVIOUS
    <2>1. ASSUME NEW c \in Clients, barred[c] PROVE effect[c].kind = "none"
      BY <2>1 DEF TransferInv, BarredOK, TransferControl, NoEffect
    <2> QED BY <2>1 DEF RestoreBlocked, TransferInv, TransferTypes
  <1> QED BY <1>1, TransferInvariant, PTL

\* Imports share the unique index of the write key with writes: two memories never
\* hold the same key (repository.import_memories, repository.create).
THEOREM ImportsKeepWriteKeys == TransferSpec => []OneMemoryPerWriteKey
  <1>1. TransferInv => OneMemoryPerWriteKey
    BY DEF TransferInv
  <1> QED BY <1>1, TransferInvariant, PTL

\* A memory that is gone has no snapshot and no relation either when imports race
\* forgets (repository.forget, repository.import_memories).
THEOREM ImportsKeepErasure == TransferSpec => []ForgetErases
  <1>1. TransferInv => ForgetErases
    BY DEF TransferInv
  <1> QED BY <1>1, TransferInvariant, PTL

\* A live memory has one snapshot for each version up to its own, although a
\* malformed package is refused by a check of the file only, and an export reads
\* the row and the history in two statements (services._validate_import_record).
THEOREM ImportsKeepSequences == TransferSpec => []SequencesComplete
  <1>1. TransferInv => SequencesComplete
    BY DEF TransferInv
  <1> QED BY <1>1, TransferInvariant, PTL

------------------------------------------------------------------------------
(* The newest snapshot is the row *)

\* A step that leaves the tables alone.
LEMMA NewestFrame ==
  ASSUME NewestInv, NEW c \in Clients, UNCHANGED tables, Others(c), OtherPackages(c),
         PackageOK(c)', exported' # Null => exported'.id \in tombstones \/ Consistent(exported')
  PROVE  NewestInv'
  <1>1. \A d \in Clients \ {c} : PackageOK(d)'
    BY DEF NewestInv, PackageOK, Consistent, Others, OtherPackages, tables
  <1>2. (exported # Null => exported.id \in tombstones \/ Consistent(exported))'
    BY DEF Consistent, tables
  <1>3. (\A i \in Ids : memories[i] # Null => SnapshotOf(i, memories[i]) \in versions)'
    BY DEF NewestInv, tables
  <1> QED BY <1>1, <1>2, <1>3 DEF NewestInv

\* The client has no package after the step.
LEMMA NewestEnds ==
  ASSUME TransferInv, NewestInv, NEW c \in Clients, Rollback(c), EndTransfer(c),
         exported' # Null => exported'.id \in tombstones \/ Consistent(exported')
  PROVE  NewestInv'
  <1>1. UNCHANGED tables /\ Others(c) /\ OtherPackages(c) /\ package'[c] = Null
    BY DEF Rollback, EndTransaction, EndTransfer, Others, OtherPackages, TransferInv,
           TransferTypes, TransferTypeOK
  <1>2. PackageOK(c)'
    BY <1>1 DEF PackageOK
  <1> QED BY <1>1, <1>2, NewestFrame

LEMMA NewestRejects ==
  ASSUME TransferInv, NewestInv, NEW c \in Clients, Reject(c)
  PROVE  NewestInv'
  BY NewestEnds DEF Reject, NewestInv

\* A command's own steps.
LEMMA NewestCommand ==
  ASSUME TransferInv, NewestInv, NEW c \in Clients, Begin(c) \/ (Step(c) /\ ~Commit(c)),
         UNCHANGED transfer
  PROVE  NewestInv'
  <1>1. package[c] = Null
    <2>1. pc[c] \in Steps \ {"commit"}
      BY DEF Begin, Step, Find, Insert, Refind, Claim, Replay, Complete, Read, Write, Link,
             Remove, Cascade, Steps
    <2> QED BY <2>1, InCommand, IdleClient
  <1>2. UNCHANGED tables /\ Others(c)
    BY DEF Begin, Step, Find, Insert, Refind, Claim, Replay, Complete, Read, Write, Link, Remove,
           Cascade, Rollback, EndTransaction, Goto, Others, TransferInv, TransferTypes, TransferTypeOK
  <1>3. OtherPackages(c) /\ PackageOK(c)' /\ exported' = exported
    BY <1>1 DEF OtherPackages, PackageOK, transfer
  <1> QED BY <1>2, <1>3, NewestFrame DEF NewestInv

LEMMA NewestPackages ==
  ASSUME TransferInv, NewestInv, NEW c \in Clients,
         \A p \in Packages : ValidPackage(p) => Consistent(p),
         BeginImport(c) \/ CheckImport(c) \/ GuardImport(c) \/ StoreImport(c) \/ ExportRow(c)
  PROVE  NewestInv'
  <1>1. CASE Reject(c)
    BY <1>1, NewestRejects
  <1>2. CASE ~Reject(c)
    <2>1. UNCHANGED tables /\ Others(c) /\ OtherPackages(c) /\ exported' = exported
      BY <1>2 DEF BeginImport, CheckImport, GuardImport, StoreImport, ExportRow, Goto, Others,
                  OtherPackages, transfer, TransferInv, TransferTypes, TransferTypeOK
    <2>2. CASE BeginImport(c)
      <3>1. PICK p \in Packages \cup ({exported} \ {Null}) :
              ValidPackage(p) /\ package' = [package EXCEPT ![c] = p]
        BY <2>2 DEF BeginImport
      <3>2. pc'[c] = "check" /\ package'[c] = p
        BY <2>2, <3>1 DEF BeginImport, Goto, TransferInv, TransferTypes, TransferTypeOK
      <3>3. p.id \in tombstones \/ Consistent(p)
        BY <3>1 DEF NewestInv
      <3>4. PackageOK(c)'
        BY <2>1, <3>2, <3>3 DEF PackageOK, Consistent, tables
      <3> QED BY <2>1, <3>4, NewestFrame DEF NewestInv
    <2>3. CASE CheckImport(c)
      <3>1. pc[c] = "check" /\ pc'[c] = "guard" /\ package'[c] = package[c]
        BY <1>2, <2>3 DEF CheckImport, Goto, TransferInv, TransferTypes, TransferTypeOK
      <3>2. PackageOK(c)'
        BY <2>1, <3>1 DEF NewestInv, PackageOK, Consistent, tables
      <3> QED BY <2>1, <3>2, NewestFrame DEF NewestInv
    <2>4. CASE GuardImport(c)
      <3>1. /\ pc[c] = "guard" /\ pc'[c] = "store" /\ package'[c] = package[c]
            /\ package[c].id \notin tombstones
        BY <1>2, <2>4 DEF GuardImport, Goto, IsTombstoned, transfer, TransferInv, TransferTypes,
                          TransferTypeOK
      <3>2. PackageOK(c)'
        BY <2>1, <3>1 DEF NewestInv, PackageOK, Consistent, tables
      <3> QED BY <2>1, <3>2, NewestFrame DEF NewestInv
    <2>5. CASE StoreImport(c)
      <3>1. pc[c] = "store" /\ pc'[c] = "commit" /\ package'[c] = package[c]
        BY <1>2, <2>5 DEF StoreImport, Goto, transfer, TransferInv, TransferTypes, TransferTypeOK
      <3>2. PackageOK(c)'
        BY <2>1, <3>1 DEF NewestInv, PackageOK, Consistent, tables
      <3> QED BY <2>1, <3>2, NewestFrame DEF NewestInv
    <2>6. CASE ExportRow(c)
      <3>1. PICK i \in Ids :
              /\ memories[i] # Null
              /\ package' = [package EXCEPT ![c] =
                               [id |-> i, row |-> memories[i], history |-> {}, vector |-> TRUE]]
        BY <2>6 DEF ExportRow
      <3>2. pc'[c] = "history" /\ package'[c].id = i /\ package'[c].row = memories[i]
        BY <2>6, <3>1 DEF ExportRow, Goto, TransferInv, TransferTypes, TransferTypeOK
      <3>3. SnapshotOf(i, memories[i]) \in versions
        BY <3>1 DEF NewestInv
      <3>4. PackageOK(c)'
        BY <2>1, <3>2, <3>3 DEF PackageOK, tables
      <3> QED BY <2>1, <3>4, NewestFrame DEF NewestInv
    <2> QED BY <2>2, <2>3, <2>4, <2>5, <2>6
  <1> QED BY <1>1, <1>2

\* An export whose two reads see different memories reads a forgotten one.
LEMMA NewestExport ==
  ASSUME TransferInv, NewestInv, NEW c \in Clients, ExportHistory(c)
  PROVE  NewestInv'
  <1> DEFINE p == package[c]
  <1>1. p \in Package /\ p # Null
    BY PackageClient DEF ExportHistory, TransferSteps
  <1>2. CASE memories[p.id] = Null
    BY <1>2, NewestEnds DEF ExportHistory, NewestInv
  <1>3. CASE memories[p.id] # Null
    <2>1. exported' = [p EXCEPT !.history = HistoryOf(p.id)]
      BY <1>3 DEF ExportHistory
    <2>2. exported'.id = p.id /\ exported'.row = p.row /\ exported'.history = HistoryOf(p.id)
      BY <1>1, <2>1 DEF Package
    <2>3. p.id \in tombstones \/ SnapshotOf(p.id, p.row) \in versions
      BY <1>1 DEF ExportHistory, NewestInv, PackageOK
    <2>4. SnapshotOf(p.id, p.row).id = p.id
      BY DEF SnapshotOf
    <2>5. exported'.id \in tombstones \/ Consistent(exported')
      BY <2>2, <2>3, <2>4 DEF Consistent, HistoryOf
    <2> QED BY <2>5, NewestEnds DEF ExportHistory
  <1> QED BY <1>2, <1>3

\* A commit writes the snapshot of the row it writes, and removes one only with a
\* tombstone.
LEMMA NewestCommit ==
  ASSUME TransferInv, NewestInv, NEW c \in Clients, Commit(c), EndTransfer(c), UNCHANGED exported
  PROVE  NewestInv'
  <1> DEFINE e == effect[c]
  <1>1. /\ e \in Effect /\ TransferPending(c)
        /\ \A i \in Ids : memories'[i] = IF Writes(c, i) THEN e.row ELSE memories[i]
        /\ e.kind # "delete" => tombstones' = tombstones
        /\ e.kind = "delete" => tombstones' = tombstones \cup {e.id}
    BY TransferTables
  <1>2. /\ tombstones \subseteq tombstones'
        /\ \A i \in Ids : Deletes(c, i) => i \in tombstones'
    BY <1>1 DEF Deletes
  <1>3. versions' = {s \in versions : ~Deletes(c, s.id)} \cup e.snaps
    BY DEF Commit
  <1>4. ASSUME NEW i \in Ids, memories'[i] # Null PROVE SnapshotOf(i, memories'[i]) \in versions'
    <2>1. SnapshotOf(i, memories'[i]).id = i
      BY DEF SnapshotOf
    <2>2. CASE ~Writes(c, i)
      <3>1. memories'[i] = memories[i] /\ ~Deletes(c, i)
        BY <1>1, <2>2 DEF Writes, Deletes
      <3>2. SnapshotOf(i, memories'[i]) \in versions
        BY <1>4, <3>1 DEF NewestInv
      <3> QED BY <1>3, <2>1, <3>1, <3>2
    <2>3. CASE Writes(c, i)
      <3>1. e.id = i /\ memories'[i] = e.row /\ e.kind \in {"insert", "update"}
        BY <1>1, <1>4, <2>3 DEF Writes, TransferPending, Effect
      <3>2. CASE package[c] = Null
        BY <1>1, <1>3, <3>1, <3>2 DEF TransferPending
      <3>3. CASE package[c] # Null
        <4>1. e = Imported(package[c]) /\ Consistent(package[c])
          BY <3>3 DEF Commit, TransferInv, TransferControl, NewestInv, PackageOK
        <4>2. SnapshotOf(i, memories'[i]) \in e.snaps
          BY <3>1, <4>1 DEF Consistent, Imported
        <4> QED BY <1>3, <4>2
      <3> QED BY <3>2, <3>3
    <2> QED BY <2>2, <2>3
  <1>5. ASSUME NEW d \in Clients PROVE PackageOK(d)'
    <2>1. CASE d = c
      BY <2>1 DEF PackageOK, EndTransfer, TransferInv, TransferTypes, TransferTypeOK
    <2>2. CASE d # c
      <3> DEFINE p == package[d]
      <3>1. pc'[d] = pc[d] /\ package'[d] = p
        BY <2>2 DEF Commit, EndTransaction, EndTransfer, TransferInv, TransferTypes, TransferTypeOK
      <3>2. p # Null /\ pc[d] = "history" /\ p.id \notin tombstones' =>
              SnapshotOf(p.id, p.row) \in versions'
        <4>1. p # Null => p.id \in Ids
          BY DEF TransferInv, TransferTypes, TransferTypeOK, Package
        <4>2. SnapshotOf(p.id, p.row).id = p.id
          BY DEF SnapshotOf
        <4> QED BY <1>2, <1>3, <4>1, <4>2 DEF NewestInv, PackageOK
      <3>3. PackageOK(d)
        BY DEF NewestInv
      <3> QED BY <1>2, <3>1, <3>2, <3>3 DEF PackageOK, Consistent
    <2> QED BY <2>1, <2>2
  <1>6. (exported # Null => exported.id \in tombstones \/ Consistent(exported))'
    BY <1>2 DEF NewestInv, Consistent
  <1> QED BY <1>4, <1>5, <1>6 DEF NewestInv

LEMMA NextNewest ==
  ASSUME \A p \in Packages : ValidPackage(p) => Consistent(p)
  PROVE  TransferInv /\ NewestInv /\ [TransferNext]_allvars => NewestInv'
  <1> SUFFICES ASSUME TransferInv, NewestInv, [TransferNext]_allvars PROVE NewestInv'
    OBVIOUS
  <1>1. CASE UNCHANGED allvars
    <2>1. UNCHANGED <<memories, versions, tombstones, pc, package, exported>>
      BY <1>1 DEF allvars, vars, tables, local, transfer
    <2> QED BY <2>1 DEF NewestInv, PackageOK, Consistent
  <1>2. CASE TransferNext
    <2>1. PICK c \in Clients :
            \/ StoreStep(c)
            \/ BeginImport(c) \/ CheckImport(c) \/ GuardImport(c) \/ StoreImport(c)
            \/ ExportRow(c) \/ ExportHistory(c)
      BY <1>2 DEF TransferNext
    <2>2. CASE StoreStep(c)
      <3>1. CASE (Begin(c) \/ (Step(c) /\ ~Commit(c))) /\ UNCHANGED transfer
        BY <3>1, NewestCommand
      <3>2. CASE Commit(c) /\ EndTransfer(c) /\ UNCHANGED exported
        BY <3>2, NewestCommit
      <3>3. CASE Abort(c) /\ EndTransfer(c) /\ UNCHANGED exported
        BY <3>3, NewestEnds DEF Abort, NewestInv
      <3> QED BY <2>2, <3>1, <3>2, <3>3 DEF StoreStep
    <2> QED BY <2>1, <2>2, NewestPackages, NewestExport
  <1> QED BY <1>1, <1>2

\* If the newest snapshot of every package file that passes validation is its row,
\* then the history of every live memory stays complete and ends with the row; the
\* packages the store itself exports need no such hypothesis.  The code does not
\* check it of a file (services._validate_import_record).
THEOREM ImportsKeepHistory ==
  ASSUME \A p \in Packages : ValidPackage(p) => Consistent(p)
  PROVE  TransferSpec => []HistoryComplete
  <1>1. TransferInit => NewestInv
    BY DEF TransferInit, Init, NewestInv, PackageOK
  <1>2. TransferInv /\ NewestInv => HistoryComplete
    <2> SUFFICES ASSUME TransferInv, NewestInv, NEW i \in Ids, memories[i] # Null
                 PROVE  /\ SnapshotOf(i, memories[i]) \in versions
                        /\ \A v \in 1..memories[i].version :
                             \E s \in versions : s.id = i /\ s.version = v
                        /\ \A s \in versions : s.id = i => s.version <= memories[i].version
                        /\ \A s, t \in versions :
                             s.id = i /\ t.id = i /\ s.version = t.version => s = t
      BY DEF HistoryComplete
    <2>1. VersionSequence(i, memories[i], HistoryOf(i)) /\ memories[i] \in Row
      BY DEF TransferInv, TransferTypes, SequencesComplete
    <2>2. SnapshotOf(i, memories[i]) \in versions
      BY DEF NewestInv
    <2>3. \A v \in 1..memories[i].version : \E s \in versions : s.id = i /\ s.version = v
      BY <2>1 DEF VersionSequence, HistoryOf
    <2>4. \A s \in versions : s.id = i => s.version <= memories[i].version
      BY <2>1 DEF VersionSequence, HistoryOf, Row
    <2>5. \A s, t \in versions : s.id = i /\ t.id = i /\ s.version = t.version => s = t
      BY <2>1 DEF VersionSequence, HistoryOf
    <2> QED BY <2>2, <2>3, <2>4, <2>5
  <1>3. TransferInv /\ NewestInv /\ [TransferNext]_allvars => NewestInv'
    BY NextNewest
  <1> QED BY <1>1, <1>2, <1>3, TransferInvariant, PTL DEF TransferSpec

------------------------------------------------------------------------------
\* History is append-only beside imports too: an import inserts a memory that is
\* absent and never touches one that lives (INSERT ... ON CONFLICT DO NOTHING).
THEOREM ImportsOnlyAppend == TransferSpec => HistoryAppendOnly
  <1>1. ASSUME TransferInv, NEW c \in Clients, Commit(c),
               NEW i \in Ids, memories[i] # Null, memories'[i] # Null
        PROVE  /\ {s \in versions : s.id = i} \subseteq versions'
               /\ memories'[i] # memories[i] =>
                    memories'[i].version = memories[i].version + 1
    <2> DEFINE e == effect[c]
    <2>1. /\ e \in Effect /\ TransferPending(c)
          /\ memories'[i] = IF Writes(c, i) THEN e.row ELSE memories[i]
      BY <1>1, TransferTables
    <2>2. versions' = {s \in versions : ~Deletes(c, s.id)} \cup e.snaps
      BY <1>1 DEF Commit
    <2>3. ~Deletes(c, i)
      BY <1>1, <2>1 DEF Deletes, Writes, TransferPending
    <2>4. Writes(c, i) => e.kind = "update" /\ e.id = i
      BY <1>1, <2>1, <2>3 DEF Deletes, Writes, TransferPending, Effect
    <2>5. memories'[i] # memories[i] => memories'[i].version = memories[i].version + 1
      BY <2>1, <2>4 DEF TransferPending
    <2> QED BY <2>2, <2>3, <2>5
  <1>2. ASSUME TransferInv, TransferNext, ~(\E c \in Clients : Commit(c))
        PROVE  UNCHANGED tables
    BY <1>2 DEF TransferNext, StoreStep, BeginImport, CheckImport, GuardImport, StoreImport,
                ExportRow, ExportHistory, Reject, Rollback, Abort, Begin, Step, Find, Insert,
                Refind, Claim, Replay, Complete, Read, Write, Link, Remove, Cascade
  <1>3. ASSUME TransferInv, [TransferNext]_allvars,
               NEW i \in Ids, memories[i] # Null, memories'[i] # Null
        PROVE  /\ {s \in versions : s.id = i} \subseteq versions'
               /\ memories'[i] # memories[i] =>
                    memories'[i].version = memories[i].version + 1
    <2>1. CASE \E c \in Clients : Commit(c)
      BY <1>1, <1>3, <2>1
    <2>2. CASE ~(\E c \in Clients : Commit(c))
      BY <1>2, <1>3, <2>2 DEF tables, allvars, vars
    <2> QED BY <2>1, <2>2
  <1>4. TransferInv /\ [TransferNext]_allvars =>
          [\A i \in Ids : memories[i] # Null /\ memories'[i] # Null =>
             /\ {s \in versions : s.id = i} \subseteq versions'
             /\ memories'[i] # memories[i] =>
                  memories'[i].version = memories[i].version + 1]_vars
    BY <1>3
  <1> QED BY <1>4, TransferInvariant, PTL DEF TransferSpec, HistoryAppendOnly
==============================================================================
