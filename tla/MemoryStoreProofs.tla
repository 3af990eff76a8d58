-------------------------- MODULE MemoryStoreProofs --------------------------
(***************************************************************************)
(* StoreInv is an inductive invariant of MemoryStore, for any number of    *)
(* clients, memories, contents and keys and any set of commands, and       *)
(* LedgerInv is inductive relative to it; the safety and action properties *)
(* of the store follow from the two.  RefinementInv, inductive relative to *)
(* StoreInv, adds what makes a commit one step of AtomicStore.             *)
(***************************************************************************)
EXTENDS StoreRefinement, TLAPS

\* The transactions of the other clients keep their local state.
Others(c) ==
    \A d \in Clients \ {c} :
        /\ pc'[d] = pc[d] /\ cmd'[d] = cmd[d] /\ seen'[d] = seen[d]
        /\ effect'[d] = effect[d] /\ entry'[d] = entry[d]

\* The initial tables are empty and every client is idle, so all the parts of
\* the invariant hold at the start.
LEMMA InitInv == Init => StoreInv
  <1> SUFFICES ASSUME Init PROVE StoreInv
    OBVIOUS
  <1>1. TypeOK
    BY StoreAssumption DEF Init, TypeOK, Steps, Effect, NoEffect
  <1>2. \A c \in Clients : ControlOK(c) /\ SeenOK(c) /\ WriteIdOK(c) /\ PendingOK(c)
    BY DEF Init, ControlOK, SeenOK, WriteIdOK, PendingOK, NoEffect
  <1>3. \A c, d \in Clients : c # d => Apart(c, d)
    BY DEF Init, Apart, Writes, Deletes, NoEffect
  <1>4. HistoryComplete /\ ForgetErases /\ ForgetIsFinal /\ LegalHistory
    BY DEF Init, HistoryComplete, ForgetErases, ForgetIsFinal, LegalHistory
  <1> QED BY <1>1, <1>2, <1>3, <1>4 DEF StoreInv

\* A step that leaves the tables and the other transactions alone keeps the
\* invariant if it keeps the parts about its own client.
LEMMA LocalFrame ==
  ASSUME StoreInv, NEW c \in Clients, UNCHANGED tables, Others(c), TypeOK',
         ControlOK(c)', SeenOK(c)', WriteIdOK(c)', PendingOK(c)',
         \A d \in Clients \ {c} : Apart(c, d)' /\ Apart(d, c)'
  PROVE  StoreInv'
  <1>1. \A d \in Clients : (ControlOK(d) /\ SeenOK(d) /\ WriteIdOK(d) /\ PendingOK(d))'
    <2> SUFFICES ASSUME NEW d \in Clients \ {c}
                 PROVE  (ControlOK(d) /\ SeenOK(d) /\ WriteIdOK(d) /\ PendingOK(d))'
      OBVIOUS
    <2>1. ControlOK(d) /\ SeenOK(d) /\ WriteIdOK(d) /\ PendingOK(d)
      BY DEF StoreInv
    <2>2. ControlOK(d)'
      BY <2>1 DEF ControlOK, Others
    <2>3. SeenOK(d)' /\ WriteIdOK(d)'
      BY <2>1 DEF SeenOK, WriteIdOK, Others, tables
    <2>4. PendingOK(d)'
      BY <2>1 DEF PendingOK, Others, tables
    <2> QED BY <2>2, <2>3, <2>4
  <1>2. \A d, e \in Clients : d # e => Apart(d, e)'
    <2> SUFFICES ASSUME NEW d \in Clients \ {c}, NEW e \in Clients \ {c}, d # e
                 PROVE  Apart(d, e)'
      OBVIOUS
    <2>1. Apart(d, e)
      BY DEF StoreInv
    <2> QED BY <2>1 DEF Apart, Writes, Deletes, Shares, Others
  <1>3. (HistoryComplete /\ ForgetErases /\ ForgetIsFinal /\ LegalHistory)'
    BY DEF StoreInv, HistoryComplete, ForgetErases, ForgetIsFinal, LegalHistory, tables
  <1> QED BY <1>1, <1>2, <1>3 DEF StoreInv

\* Ending a transaction without a commit, by an error, a replay or an abort,
\* releases all it held.
LEMMA RollbackInv ==
  ASSUME StoreInv, NEW c \in Clients, Rollback(c)
  PROVE  StoreInv'
  <1> USE DEF Rollback, EndTransaction
  <1>1. Others(c)
    BY DEF Others, StoreInv, TypeOK
  <1>2. TypeOK'
    BY StoreAssumption DEF StoreInv, TypeOK, tables, Steps, Effect, NoEffect
  <1>3. /\ pc'[c] = "idle" /\ cmd'[c] = Null /\ seen'[c] = Null
        /\ effect'[c] = NoEffect /\ entry'[c] = Null
    BY DEF StoreInv, TypeOK
  <1>4. ControlOK(c)' /\ SeenOK(c)' /\ WriteIdOK(c)' /\ PendingOK(c)'
    BY <1>3 DEF ControlOK, SeenOK, WriteIdOK, PendingOK, NoEffect
  <1>5. \A d \in Clients \ {c} : Apart(c, d)' /\ Apart(d, c)'
    BY <1>3 DEF Apart, Writes, Deletes, Shares, NoEffect
  <1> QED BY <1>1, <1>2, <1>4, <1>5, LocalFrame

\* Evolving a row keeps its key and its fingerprint.
LEMMA EvolveRow ==
  ASSUME NEW r \in Row, NEW content \in Contents, NEW state \in States
  PROVE  LET new == Evolve(r, content, state) IN
         /\ new \in Row
         /\ new.version = r.version + 1 /\ new.key = r.key /\ new.state = state
  BY DEF Evolve, Row

\* An UPDATE of the row a value was evolved from stores that value.
LEMMA UpdatedRow ==
  ASSUME NEW r, NEW content, NEW state
  PROVE  Updated(r, Evolve(r, content, state)) = Evolve(r, content, state)
  BY DEF Updated, Evolve

\* Opening a transaction: a write takes an identifier that is nobody else's.
LEMMA BeginInv ==
  ASSUME StoreInv, NEW c \in Clients, Begin(c)
  PROVE  StoreInv'
  <1>1. PICK k \in Commands :
          /\ \/ k.op # "write" /\ ~Unrevealed(k.id) /\ cmd' = [cmd EXCEPT ![c] = k]
             \/ /\ k.op = "write"
                /\ \E i \in Ids : /\ FreshId(i)
                                  /\ cmd' = [cmd EXCEPT ![c] = [k EXCEPT !.id = i]]
          /\ Goto(c, FirstStep(k))
    BY DEF Begin
  <1>2. k \in Command /\ WellFormed(k)
    BY StoreAssumption
  <1>3. /\ pc[c] = "idle" /\ cmd[c] = Null /\ entry[c] = Null /\ seen[c] = Null
        /\ effect[c] = NoEffect
    BY DEF Begin, StoreInv, ControlOK, SeenOK
  <1>4. /\ pc'[c] = FirstStep(k) /\ seen'[c] = Null
        /\ effect'[c] = NoEffect /\ entry'[c] = Null
    BY <1>1, <1>3 DEF Begin, Goto, StoreInv, TypeOK
  <1>5. /\ cmd'[c] \in Command /\ WellFormed(cmd'[c]) /\ cmd'[c].id \in Ids
        /\ cmd'[c] # Null /\ cmd'[c].op = k.op /\ cmd'[c].key = k.key
    <2>1. CASE k.op # "write"
      BY <1>1, <1>2, <2>1, StoreAssumption DEF StoreInv, TypeOK, WellFormed, Command
    <2>2. CASE k.op = "write"
      BY <1>1, <1>2, <2>2, StoreAssumption DEF StoreInv, TypeOK, WellFormed, Command
    <2> QED BY <2>1, <2>2
  <1>6. cmd'[c].op = "write" => FreshId(cmd'[c].id)
    BY <1>1, <1>2 DEF StoreInv, TypeOK, Command
  <1>7. Others(c) /\ UNCHANGED tables
    BY <1>1 DEF Begin, Goto, Others, StoreInv, TypeOK
  <1>8. TypeOK'
    <2>1. FirstStep(k) \in Steps
      BY DEF FirstStep, Steps
    <2>2. cmd' \in [Clients -> Command \cup {Null}]
      BY <1>1, <1>5 DEF StoreInv, TypeOK
    <2> QED BY <1>1, <2>1, <2>2 DEF Begin, Goto, StoreInv, TypeOK, tables
  <1>9. ControlOK(c)'
    <2>1. k.key = Null \/ k.key \in Keys
      BY <1>2 DEF Command
    <2>2. k.op \in {"confirm", "pin", "discard"} => k.key # Null
      BY <1>2, StoreAssumption DEF WellFormed
    <2>3. CASE k.op = "write"
      BY <1>4, <1>5, <2>3 DEF ControlOK, FirstStep, LedgerOps
    <2>4. CASE k.op \in LedgerOps /\ k.key # Null
      <3>1. FirstStep(k) = "claim"
        BY <2>4 DEF FirstStep, LedgerOps
      <3> QED BY <1>4, <1>5, <2>1, <2>4, <3>1 DEF ControlOK
    <2>5. CASE k.op = "forget" /\ k.key = Null
      <3>1. FirstStep(k) = "remove"
        BY <2>5 DEF FirstStep
      <3> QED BY <1>4, <1>5, <2>5, <3>1 DEF ControlOK
    <2>6. CASE k.op = "relate" \/ (k.op = "update" /\ k.key = Null)
      <3>1. FirstStep(k) = "read" /\ k.key = Null
        BY <1>2, <2>6 DEF FirstStep, LedgerOps, WellFormed
      <3> QED BY <1>4, <1>5, <2>6, <3>1 DEF ControlOK
    <2>7. k.op \in LedgerOps \cup {"write", "relate"}
      BY <1>2 DEF Command, Ops
    <2> QED BY <2>2, <2>3, <2>4, <2>5, <2>6, <2>7 DEF LedgerOps
  <1>10. SeenOK(c)' /\ PendingOK(c)'
    BY <1>4 DEF SeenOK, PendingOK, NoEffect
  <1>11. WriteIdOK(c)'
    BY <1>6, <1>7 DEF WriteIdOK, FreshId, tables
  <1>12. \A d \in Clients \ {c} : Apart(c, d)' /\ Apart(d, c)'
    BY <1>4, <1>6, <1>7 DEF Apart, Writes, Deletes, Shares, NoEffect, FreshId, Others
  <1> QED BY <1>7, <1>8, <1>9, <1>10, <1>11, <1>12, LocalFrame

\* A miss of find_by_idempotency_key only moves the transaction on.
LEMMA FindInv ==
  ASSUME StoreInv, NEW c \in Clients, Find(c)
  PROVE  StoreInv'
  <1>1. CASE Rollback(c)
    BY <1>1, RollbackInv
  <1>2. CASE Goto(c, "insert") /\ UNCHANGED <<tables, cmd, seen, effect, entry>>
    <2>1. Others(c) /\ pc'[c] = "insert"
      BY <1>2 DEF Goto, Others, StoreInv, TypeOK
    <2>2. TypeOK'
      BY <1>2 DEF Goto, StoreInv, TypeOK, tables, Steps
    <2>3. ControlOK(c)'
      BY <1>2, <2>1 DEF Find, ControlOK, StoreInv
    <2>4. SeenOK(c)' /\ WriteIdOK(c)' /\ PendingOK(c)'
      BY <1>2 DEF SeenOK, WriteIdOK, PendingOK, StoreInv, tables
    <2>5. \A d \in Clients \ {c} : Apart(c, d)' /\ Apart(d, c)'
      BY <1>2 DEF Apart, Writes, Deletes, Shares, StoreInv
    <2> QED BY <1>2, <2>1, <2>2, <2>3, <2>4, <2>5, LocalFrame
  <1> QED BY <1>1, <1>2 DEF Find

\* The uncommitted insert takes the fresh identifier the write was given.
LEMMA InsertInv ==
  ASSUME StoreInv, NEW c \in Clients, Insert(c)
  PROVE  StoreInv'
  <1> DEFINE k == cmd[c]
             row == Create(k.content, k.state, k.key)
             new == [kind |-> "insert", id |-> k.id, row |-> row,
                     snaps |-> {SnapshotOf(k.id, row)}, rels |-> {}]
  <1>1. /\ pc[c] = "insert" /\ k \in Command /\ WellFormed(k) /\ k.id \in Ids
        /\ k.op = "write" /\ effect[c] = NoEffect
    BY DEF Insert, StoreInv, ControlOK
  <1>2. UNCHANGED <<tables, cmd, seen, entry>>
    BY DEF Insert
  <1>3. CASE Goto(c, "refind") /\ UNCHANGED effect
    <2>1. Others(c) /\ pc'[c] = "refind"
      BY <1>2, <1>3 DEF Goto, Others, StoreInv, TypeOK
    <2>2. TypeOK'
      BY <1>2, <1>3 DEF Goto, StoreInv, TypeOK, tables, Steps
    <2>3. ControlOK(c)'
      BY <1>1, <1>2, <1>3, <2>1 DEF ControlOK, StoreInv
    <2>4. SeenOK(c)' /\ WriteIdOK(c)' /\ PendingOK(c)'
      BY <1>2, <1>3 DEF SeenOK, WriteIdOK, PendingOK, StoreInv, tables
    <2>5. \A d \in Clients \ {c} : Apart(c, d)' /\ Apart(d, c)'
      BY <1>2, <1>3 DEF Apart, Writes, Deletes, Shares, StoreInv
    <2> QED BY <1>2, <2>1, <2>2, <2>3, <2>4, <2>5, LocalFrame
  <1>4. CASE effect' = [effect EXCEPT ![c] = new] /\ Goto(c, "commit")
    <2>1. Others(c) /\ pc'[c] = "commit" /\ effect'[c] = new
      BY <1>2, <1>4 DEF Goto, Others, StoreInv, TypeOK
    <2>2. row \in Row /\ row.version = 1
      BY <1>1 DEF Create, Row, WellFormed, WriteFingerprint, Command, States
    <2>3. SnapshotOf(k.id, row) \in Snapshot
      BY <1>1, <2>2 DEF SnapshotOf, Snapshot, Row
    <2>4. new \in Effect
      BY <1>1, <2>2, <2>3 DEF Effect
    <2>5. TypeOK'
      BY <1>2, <1>4, <2>4 DEF Goto, StoreInv, TypeOK, tables, Steps
    <2>6. ControlOK(c)'
      BY <1>1, <1>2, <2>1 DEF ControlOK, StoreInv
    <2>7. SeenOK(c)' /\ WriteIdOK(c)'
      BY <1>2 DEF SeenOK, WriteIdOK, StoreInv, tables
    <2>8. PendingOK(c)'
      BY <1>1, <1>2, <2>1, <2>2, StoreAssumption DEF PendingOK, Create, Command
    <2>9. ASSUME NEW d \in Clients \ {c} PROVE Apart(c, d)' /\ Apart(d, c)'
      <3>1. Apart(c, d) /\ Apart(d, c) /\ PendingOK(d) /\ WriteIdOK(c)
        BY DEF StoreInv
      <3>2. ~Writes(d, k.id)
        BY <1>1, <3>1, StoreAssumption
        DEF Apart, PendingOK, WriteIdOK, Writes, Command, Effect, StoreInv, TypeOK
      <3> QED BY <1>1, <1>2, <2>1, <3>1, <3>2
              DEF Apart, Writes, Deletes, Shares, Others, NoEffect
    <2> QED BY <1>2, <2>1, <2>5, <2>6, <2>7, <2>8, <2>9, LocalFrame
  <1> QED BY <1>3, <1>4 DEF Insert

\* A claim inserts an in_progress row or locks the completed one it replays.
LEMMA ClaimInv ==
  ASSUME StoreInv, NEW c \in Clients, Claim(c)
  PROVE  StoreInv'
  <1> DEFINE k == cmd[c]
             old == ledger[LedgerKey(k)]
  <1>1. /\ pc[c] = "claim" /\ k \in Command /\ WellFormed(k) /\ k.id \in Ids
        /\ k.op \in LedgerOps /\ k.key \in Keys /\ effect[c] = NoEffect /\ k # Null
    BY StoreAssumption DEF Claim, StoreInv, ControlOK
  <1>2. CASE Rollback(c)
    BY <1>2, RollbackInv
  <1>3. ASSUME NEW e, NEW step,
               e \in Entry,
               step \in {"remove", "read", "replay"},
               step = "remove" => k.op = "forget",
               step = "read" => k.op # "forget",
               entry' = [entry EXCEPT ![c] = e],
               Goto(c, step),
               UNCHANGED <<tables, cmd, seen, effect>>
        PROVE  StoreInv'
    <2>1. Others(c) /\ pc'[c] = step /\ entry'[c] = e /\ e # Null
      BY <1>3, StoreAssumption DEF Goto, Others, StoreInv, TypeOK
    <2>2. TypeOK'
      BY <1>3 DEF Goto, StoreInv, TypeOK, tables, Steps
    <2>3. ControlOK(c)'
      BY <1>1, <1>3, <2>1 DEF ControlOK, StoreInv, LedgerOps
    <2>4. SeenOK(c)' /\ WriteIdOK(c)' /\ PendingOK(c)'
      BY <1>3 DEF SeenOK, WriteIdOK, PendingOK, StoreInv, tables
    <2>5. \A d \in Clients \ {c} : Apart(c, d)' /\ Apart(d, c)'
      BY <1>3 DEF Apart, Writes, Deletes, Shares, StoreInv
    <2> QED BY <1>3, <2>1, <2>2, <2>3, <2>4, <2>5, LocalFrame
  <1>4. InProgress(k) \in Entry
    <2>1. Fingerprint(k) \in Command
      BY <1>1 DEF Fingerprint, Command
    <2> QED BY <1>1, <2>1 DEF InProgress, Entry
  <1>5. old # Null => old \in Entry
    BY <1>1 DEF LedgerKey, LedgerKeys, StoreInv, TypeOK
  <1>6. CASE /\ entry' = [entry EXCEPT ![c] = InProgress(k)]
             /\ Goto(c, IF k.op = "forget" THEN "remove" ELSE "read")
             /\ UNCHANGED <<tables, cmd, seen, effect>>
    <2>1. CASE k.op = "forget"
      BY <1>3, <1>4, <1>6, <2>1
    <2>2. CASE k.op # "forget"
      BY <1>3, <1>4, <1>6, <2>2
    <2> QED BY <2>1, <2>2
  <1>7. CASE /\ old # Null
             /\ entry' = [entry EXCEPT ![c] = old]
             /\ Goto(c, "replay")
             /\ UNCHANGED <<tables, cmd, seen, effect>>
    BY <1>3, <1>5, <1>7
  <1> QED BY <1>2, <1>6, <1>7 DEF Claim

\* What complete() leaves is a ledger row.
LEMMA CompleteEntry ==
  ASSUME StoreInv, NEW c \in Clients, Complete(c)
  PROVE  entry'[c] \in Entry
  <1> DEFINE returned == IF effect[c].kind = "update" THEN effect[c].row ELSE seen[c]
  <1>1. /\ pc[c] = "complete" /\ entry[c] \in Entry
        /\ cmd[c].op \notin {"forget", "discard"} => returned \in Row
    BY DEF Complete, StoreInv, TypeOK, ControlOK, PendingOK, Effect
  <1>2. CASE cmd[c].op \in {"forget", "discard"}
    BY <1>1, <1>2 DEF Complete, StoreInv, TypeOK, Entry
  <1>3. CASE cmd[c].op \notin {"forget", "discard"}
    BY <1>1, <1>3 DEF Complete, StoreInv, TypeOK, Entry, Row
  <1> QED BY <1>2, <1>3

\* Completing a claim changes the ledger row the transaction will commit.
LEMMA CompleteInv ==
  ASSUME StoreInv, NEW c \in Clients, Complete(c)
  PROVE  StoreInv'
  <1>1. /\ pc[c] = "complete" /\ cmd[c] \in Command /\ cmd[c] # Null
        /\ cmd[c].op \in LedgerOps /\ cmd[c].key \in Keys
    BY StoreAssumption DEF Complete, StoreInv, ControlOK
  <1>2. entry'[c] \in Entry
    BY CompleteEntry
  <1>3. UNCHANGED <<tables, cmd, seen, effect>> /\ Goto(c, "commit")
    BY DEF Complete
  <1>4. Others(c) /\ pc'[c] = "commit" /\ entry' \in [Clients -> Entry \cup {Null}]
    BY <1>2, <1>3 DEF Complete, Goto, Others, StoreInv, TypeOK
  <1>5. TypeOK'
    BY <1>3, <1>4 DEF Goto, StoreInv, TypeOK, tables, Steps
  <1>6. ControlOK(c)'
    BY <1>1, <1>2, <1>3, <1>4, StoreAssumption DEF ControlOK, StoreInv
  <1>7. SeenOK(c)' /\ WriteIdOK(c)' /\ PendingOK(c)'
    BY <1>3 DEF SeenOK, WriteIdOK, PendingOK, StoreInv, tables
  <1>8. \A d \in Clients \ {c} : Apart(c, d)' /\ Apart(d, c)'
    BY <1>3 DEF Apart, Writes, Deletes, Shares, StoreInv
  <1> QED BY <1>3, <1>4, <1>5, <1>6, <1>7, <1>8, LocalFrame

\* get() and the checks that follow it: what was read is the current row.
LEMMA ReadInv ==
  ASSUME StoreInv, NEW c \in Clients, Read(c)
  PROVE  StoreInv'
  <1> DEFINE k == cmd[c]
             row == memories[k.id]
  <1>1. CASE Rollback(c)
    BY <1>1, RollbackInv
  <1>2. CASE /\ Accepts(k, row)
             /\ seen' = [seen EXCEPT ![c] = row]
             /\ Goto(c, AfterRead(k, row))
             /\ UNCHANGED <<tables, cmd, effect, entry>>
    <2>1. /\ pc[c] = "read" /\ k \in Command /\ WellFormed(k) /\ k.id \in Ids /\ k # Null
          /\ k.op \in {"update", "confirm", "pin", "discard", "relate"}
          /\ effect[c] = NoEffect
      BY StoreAssumption DEF Read, StoreInv, ControlOK
    <2>2. row \in Row /\ row # Null
      BY <1>2, <2>1 DEF Accepts, Permits, StoreInv, TypeOK
    <2>3. Others(c) /\ pc'[c] = AfterRead(k, row) /\ seen'[c] = row
      BY <1>2 DEF Goto, Others, StoreInv, TypeOK
    <2>4. TypeOK'
      BY <1>2, <2>2 DEF Goto, StoreInv, TypeOK, tables, Steps, AfterRead
    <2>5. ControlOK(c)'
      <3>1. ControlOK(c)
        BY DEF StoreInv
      <3>2. CASE k.op = "relate"
        BY <1>2, <2>1, <2>2, <2>3, <3>1, <3>2, StoreAssumption
        DEF ControlOK, AfterRead, WellFormed, NoEffect
      <3>3. CASE k.op = "discard"
        BY <1>2, <2>1, <2>2, <2>3, <3>1, <3>3 DEF ControlOK, AfterRead
      <3>4. CASE k.op \in {"update", "confirm", "pin"}
        <4>1. AfterRead(k, row) \in {"write", "complete"}
          BY <3>4 DEF AfterRead
        <4>2. AfterRead(k, row) = "complete" => k.op = "pin" /\ k.key \in Keys
          BY <2>1, <3>4 DEF AfterRead, WellFormed
        <4>3. k.key \in Keys => entry[c] # Null
          BY <2>1, <3>1, StoreAssumption DEF ControlOK
        <4> QED BY <1>2, <2>1, <2>2, <2>3, <3>1, <3>4, <4>1, <4>2, <4>3
                DEF ControlOK, LedgerOps
      <3> QED BY <2>1, <3>2, <3>3, <3>4
    <2>6. SeenOK(c)'
      BY <1>2, <2>1, <2>2, <2>3 DEF SeenOK, Accepts, Permits, tables, Row, Target
    <2>7. WriteIdOK(c)' /\ PendingOK(c)'
      BY <1>2 DEF WriteIdOK, PendingOK, StoreInv, tables
    <2>8. \A d \in Clients \ {c} : Apart(c, d)' /\ Apart(d, c)'
      BY <1>2 DEF Apart, Writes, Deletes, Shares, StoreInv
    <2> QED BY <1>2, <2>3, <2>4, <2>5, <2>6, <2>7, <2>8, LocalFrame
  <1> QED BY <1>1, <1>2 DEF Read

\* The compare-and-swap found the version that was read, so the row is still
\* the one that was read and the new one is its legal successor.
LEMMA WriteInv ==
  ASSUME StoreInv, NEW c \in Clients, Write(c)
  PROVE  StoreInv'
  <1> DEFINE k == cmd[c]
             row == Updated(memories[k.id],
                            Evolve(seen[c], NewContent(k, seen[c]), Target(k, seen[c])))
             new == [kind |-> "update", id |-> k.id, row |-> row,
                     snaps |-> {SnapshotOf(k.id, row)}, rels |-> {}]
             step == IF k.rel # Null THEN "link" ELSE AfterWrite(k)
  <1>1. CASE Rollback(c)
    BY <1>1, RollbackInv
  <1>2. CASE /\ Swappable(k)
             /\ effect' = [effect EXCEPT ![c] = new]
             /\ Goto(c, step)
             /\ UNCHANGED <<tables, cmd, seen, entry>>
    <2>1. /\ pc[c] = "write" /\ k \in Command /\ WellFormed(k) /\ k.id \in Ids /\ k # Null
          /\ k.op \in {"update", "confirm", "pin"} /\ effect[c] = NoEffect
          /\ seen[c] \in Row /\ seen[c] # Null
          /\ k.key # Null => entry[c] # Null
      BY StoreAssumption DEF Write, StoreInv, ControlOK, TypeOK
    <2>2. /\ memories[k.id] = seen[c]
          /\ AssertTransition(seen[c].state, Target(k, seen[c]), k.other # Null)
      BY <1>2, <2>1 DEF Swappable, StoreInv, SeenOK
    <2>3. Target(k, seen[c]) \in States
      BY <2>1 DEF Target, LinkedState, Command, Row, States
    <2>4. NewContent(k, seen[c]) \in Contents
      BY <2>1 DEF NewContent, Command, Row
    <2>5. /\ row \in Row /\ row.version = seen[c].version + 1
          /\ row.key = seen[c].key /\ row.state = Target(k, seen[c])
      BY <2>1, <2>2, <2>3, <2>4, EvolveRow, UpdatedRow
    <2>6. SnapshotOf(k.id, row) \in Snapshot
      BY <2>1, <2>5 DEF SnapshotOf, Snapshot, Row
    <2>7. new \in Effect
      BY <2>1, <2>5, <2>6 DEF Effect
    <2>8. Others(c) /\ pc'[c] = step /\ effect'[c] = new
      BY <1>2 DEF Goto, Others, StoreInv, TypeOK
    <2>9. TypeOK'
      BY <1>2, <2>7 DEF Goto, StoreInv, TypeOK, tables, Steps, AfterWrite
    <2>10. ControlOK(c)'
      <3>1. ControlOK(c)
        BY DEF StoreInv
      <3>2. k.key # Null => k.key \in Keys
        BY <2>1 DEF Command
      <3> HIDE DEF row
      <3>3. effect'[c].kind = "update"
        BY <2>8
      <3> QED BY <1>2, <2>1, <2>8, <3>1, <3>2, <3>3
              DEF ControlOK, AfterWrite, LedgerOps, WellFormed
    <2>11. SeenOK(c)' /\ WriteIdOK(c)'
      BY <1>2 DEF SeenOK, WriteIdOK, StoreInv, tables
    <2>12. PendingOK(c)'
      <3>1. /\ cmd'[c] = k /\ memories' = memories /\ row # Null
            /\ \/ row.state = seen[c].state
               \/ row.state \in Allowed[seen[c].state]
        BY <1>2, <2>2, <2>5, StoreAssumption DEF tables, AssertTransition
      <3> HIDE DEF row
      <3> QED BY <2>1, <2>2, <2>5, <2>8, <3>1 DEF PendingOK
    <2>13. ASSUME NEW d \in Clients \ {c} PROVE Apart(c, d)' /\ Apart(d, c)'
      <3>1. Apart(c, d) /\ Apart(d, c) /\ ~Writes(d, k.id)
        BY DEF StoreInv, Write, CanUpdate
      <3> QED BY <1>2, <2>1, <2>8, <3>1
              DEF Apart, Writes, Deletes, Shares, Others, NoEffect
    <2> QED BY <1>2, <2>8, <2>9, <2>10, <2>11, <2>12, <2>13, LocalFrame
  <1> QED BY <1>1, <1>2 DEF Write

\* A new relation: both endpoints are live and no open transaction deletes one.
LEMMA LinkInv ==
  ASSUME StoreInv, NEW c \in Clients, Link(c)
  PROVE  StoreInv'
  <1> DEFINE k == cmd[c]
             r == [source |-> k.id, target |-> k.other, type |-> k.rel]
  <1>1. CASE Rollback(c)
    BY <1>1, RollbackInv
  <1>2. CASE /\ memories[k.id] # Null /\ memories[k.other] # Null
             /\ effect' = [effect EXCEPT ![c].rels = {r}]
             /\ Goto(c, AfterWrite(k))
             /\ UNCHANGED <<tables, cmd, seen, entry>>
    <2>1. /\ pc[c] = "link" /\ k \in Command /\ WellFormed(k) /\ k.id \in Ids /\ k # Null
          /\ \/ k.op = "update" /\ effect[c].kind = "update" /\ k.rel # Null
             \/ k.op = "relate" /\ effect[c].kind = "none"
          /\ k.key # Null => entry[c] # Null
      BY StoreAssumption DEF Link, StoreInv, ControlOK
    <2>2. k.other \in Ids /\ k.rel \in RelationTypes
      BY <2>1 DEF WellFormed, Command
    <2>3. /\ Others(c) /\ pc'[c] = AfterWrite(k) /\ effect[c] \in Effect
          /\ effect'[c] = [effect[c] EXCEPT !.rels = {r}]
      BY <1>2 DEF Goto, Others, StoreInv, TypeOK
    <2>4. /\ effect'[c] \in Effect /\ effect'[c].rels = {r}
          /\ effect'[c].kind = effect[c].kind /\ effect'[c].id = effect[c].id
          /\ effect'[c].row = effect[c].row /\ effect'[c].snaps = effect[c].snaps
      BY <2>1, <2>2, <2>3 DEF Effect, Relation
    <2>5. TypeOK'
      BY <1>2, <2>3, <2>4 DEF Goto, StoreInv, TypeOK, tables, Steps, AfterWrite
    <2>6. ControlOK(c)'
      <3>1. ControlOK(c)
        BY DEF StoreInv
      <3>2. k.key # Null => k.key \in Keys
        BY <2>1 DEF Command
      <3> QED BY <1>2, <2>1, <2>3, <2>4, <3>1, <3>2
              DEF ControlOK, AfterWrite, LedgerOps, WellFormed
    <2>7. SeenOK(c)' /\ WriteIdOK(c)'
      BY <1>2 DEF SeenOK, WriteIdOK, StoreInv, tables
    <2>8. PendingOK(c)'
      <3>1. PendingOK(c) /\ effect[c].kind # "delete"
        BY <2>1 DEF StoreInv
      <3> QED BY <1>2, <2>1, <2>4, <3>1 DEF PendingOK, tables
    <2>9. ASSUME NEW d \in Clients \ {c} PROVE Apart(c, d)' /\ Apart(d, c)'
      <3>1. Apart(c, d) /\ Apart(d, c) /\ ~Deletes(d, k.id) /\ ~Deletes(d, k.other)
        BY DEF StoreInv, Link, CanLink
      <3> QED BY <1>2, <2>3, <2>4, <3>1 DEF Apart, Writes, Deletes, Shares, Others
    <2> QED BY <1>2, <2>3, <2>5, <2>6, <2>7, <2>8, <2>9, LocalFrame
  <1> QED BY <1>1, <1>2 DEF Link

\* DELETE waits for the writers of the row and for new relations to it.
LEMMA RemoveInv ==
  ASSUME StoreInv, NEW c \in Clients, Remove(c)
  PROVE  StoreInv'
  <1> DEFINE k == cmd[c]
             new == [kind |-> "delete", id |-> k.id, row |-> Null,
                     snaps |-> {}, rels |-> {}]
  <1>1. /\ pc[c] = "remove" /\ k \in Command /\ WellFormed(k) /\ k.id \in Ids /\ k # Null
        /\ k.op \in {"discard", "forget"} /\ effect[c] = NoEffect
        /\ k.key # Null => entry[c] # Null
    BY StoreAssumption DEF Remove, StoreInv, ControlOK
  <1>2. UNCHANGED <<tables, cmd, seen, entry>>
    BY DEF Remove
  <1>3. \/ /\ memories[k.id] # Null
           /\ effect' = [effect EXCEPT ![c] = new]
           /\ Goto(c, "sources")
        \/ /\ effect' = effect
           /\ Goto(c, AfterWrite(k))
    BY DEF Remove
  <1>4. /\ Others(c)
        /\ effect'[c] = new => pc'[c] = "sources"
        /\ effect'[c] = NoEffect => pc'[c] = AfterWrite(k)
        /\ effect'[c] \in {new, NoEffect}
        /\ effect'[c] = new => memories[k.id] # Null
    BY <1>1, <1>2, <1>3 DEF Goto, Others, StoreInv, TypeOK, NoEffect
  <1>5. TypeOK'
    <2>1. new \in Effect
      BY <1>1 DEF Effect
    <2>2. effect' \in [Clients -> Effect]
      BY <1>3, <2>1 DEF StoreInv, TypeOK
    <2>3. pc' \in [Clients -> Steps]
      BY <1>3 DEF Goto, StoreInv, TypeOK, Steps, AfterWrite
    <2> QED BY <1>2, <2>2, <2>3 DEF StoreInv, TypeOK, tables
  <1>6. ControlOK(c)'
    <2>1. ControlOK(c)
      BY DEF StoreInv
    <2>2. k.key # Null => k.key \in Keys
      BY <1>1 DEF Command
    <2> QED BY <1>1, <1>2, <1>4, <2>1, <2>2 DEF ControlOK, AfterWrite, LedgerOps
  <1>7. SeenOK(c)' /\ WriteIdOK(c)'
    BY <1>2 DEF SeenOK, WriteIdOK, StoreInv, tables
  <1>8. PendingOK(c)'
    <2>1. memories' = memories /\ cmd'[c] = k
      BY <1>2 DEF tables
    <2>2. CASE effect'[c] = new
      BY <1>1, <1>4, <2>1, <2>2 DEF PendingOK
    <2>3. CASE effect'[c] = NoEffect
      BY <2>3 DEF PendingOK, NoEffect
    <2> QED BY <1>4, <2>2, <2>3
  <1>9. ASSUME NEW d \in Clients \ {c} PROVE Apart(c, d)' /\ Apart(d, c)'
    <2>1. Apart(c, d) /\ Apart(d, c) /\ ~Writes(d, k.id) /\ ~Shares(d, k.id)
      BY DEF StoreInv, Remove, CanDelete
    <2> QED BY <1>2, <1>4, <2>1 DEF Apart, Writes, Deletes, Shares, Others, NoEffect
  <1> QED BY <1>2, <1>4, <1>5, <1>6, <1>7, <1>8, <1>9, LocalFrame

\* A cascade changes nothing before the commit but where its transaction stands.
LEMMA CascadeInv ==
  ASSUME StoreInv, NEW c \in Clients, Cascade(c)
  PROVE  StoreInv'
  <1> DEFINE k == cmd[c]
  <1>1. /\ pc[c] \in {"sources", "targets"} /\ k \in Command /\ WellFormed(k) /\ k.id \in Ids
        /\ k.op \in {"discard", "forget"} /\ effect[c].kind = "delete"
        /\ k.key # Null => entry[c] # Null
    BY StoreAssumption DEF Cascade, StoreInv, ControlOK
  <1>2. /\ UNCHANGED <<tables, cmd, seen, effect, entry>> /\ Others(c)
        /\ pc'[c] \in {"targets", AfterWrite(k)}
    BY DEF Cascade, Goto, Others, StoreInv, TypeOK
  <1>3. TypeOK'
    BY DEF Cascade, Goto, StoreInv, TypeOK, tables, Steps, AfterWrite
  <1>4. ControlOK(c)'
    <2>1. ControlOK(c)
      BY DEF StoreInv
    <2>2. k.key # Null => k.key \in Keys
      BY <1>1 DEF Command
    <2> QED BY <1>1, <1>2, <2>1, <2>2 DEF ControlOK, AfterWrite, LedgerOps
  <1>5. SeenOK(c)' /\ WriteIdOK(c)' /\ PendingOK(c)'
    BY <1>2 DEF SeenOK, WriteIdOK, PendingOK, StoreInv, tables
  <1>6. ASSUME NEW d \in Clients \ {c} PROVE Apart(c, d)' /\ Apart(d, c)'
    BY <1>2 DEF StoreInv, Apart, Writes, Deletes, Shares
  <1> QED BY <1>2, <1>3, <1>4, <1>5, <1>6, LocalFrame

\* What Commit does to the tables, by the kind of write it commits.
LEMMA CommitTables ==
  ASSUME StoreInv, NEW c \in Clients, Commit(c)
  PROVE  LET e == effect[c] IN
         /\ e \in Effect
         /\ memories' \in [Ids -> Row \cup {Null}]
         /\ \A i \in Ids : memories'[i] = IF Writes(c, i) THEN e.row ELSE memories[i]
         /\ e.kind = "none" => versions' = versions
         /\ e.kind \in {"insert", "update"} =>
              versions' = versions \cup {SnapshotOf(e.id, e.row)}
         /\ e.kind = "delete" => versions' = {s \in versions : s.id # e.id}
         /\ e.kind # "delete" => tombstones' = tombstones
         /\ e.kind = "delete" => tombstones' = tombstones \cup {e.id}
  <1> DEFINE e == effect[c]
  <1>1. e \in Effect /\ PendingOK(c)
    BY DEF StoreInv, TypeOK
  <1>2. memories' = [i \in Ids |-> IF Writes(c, i) THEN e.row ELSE memories[i]]
    BY DEF Commit
  <1>3. memories' \in [Ids -> Row \cup {Null}]
    BY <1>1, <1>2 DEF StoreInv, TypeOK, Effect
  <1>4. versions' = {s \in versions : ~Deletes(c, s.id)} \cup e.snaps
    BY DEF Commit
  <1>5. /\ e.kind = "none" => versions' = versions
        /\ e.kind \in {"insert", "update"} =>
             versions' = versions \cup {SnapshotOf(e.id, e.row)}
        /\ e.kind = "delete" => versions' = {s \in versions : s.id # e.id}
    BY <1>1, <1>4 DEF Deletes, PendingOK
  <1>6. /\ e.kind # "delete" => tombstones' = tombstones
        /\ e.kind = "delete" => tombstones' = tombstones \cup {e.id}
    BY <1>1 DEF Commit, Deletes, PendingOK
  <1> QED BY <1>1, <1>2, <1>3, <1>5, <1>6

\* The committed step keeps the type of every table.
LEMMA CommitType ==
  ASSUME StoreInv, NEW c \in Clients, Commit(c)
  PROVE  TypeOK'
  <1>1. versions' \in SUBSET Snapshot
    <2>1. effect[c].snaps \in SUBSET Snapshot /\ versions \in SUBSET Snapshot
      BY DEF StoreInv, TypeOK, Effect
    <2>2. versions' = {s \in versions : ~Deletes(c, s.id)} \cup effect[c].snaps
      BY DEF Commit
    <2> QED BY <2>1, <2>2
  <1>2. relations' \in SUBSET Relation
    <2>1. effect[c].rels \in SUBSET Relation /\ relations \in SUBSET Relation
      BY DEF StoreInv, TypeOK, Effect
    <2>2. relations' = {r \in relations : ~Deletes(c, r.source) /\ ~Deletes(c, r.target)}
                         \cup effect[c].rels
      BY DEF Commit
    <2> QED BY <2>1, <2>2
  <1>3. tombstones' \in SUBSET Ids
    BY DEF Commit, StoreInv, TypeOK
  <1>4. ledger' \in [LedgerKeys -> Entry \cup {Null}]
    BY DEF Commit, StoreInv, TypeOK
  <1>5. memories' \in [Ids -> Row \cup {Null}]
    BY CommitTables
  <1>6. /\ pc' \in [Clients -> Steps]
        /\ cmd' \in [Clients -> Command \cup {Null}]
        /\ seen' \in [Clients -> Row \cup {Null}]
        /\ effect' \in [Clients -> Effect]
        /\ entry' \in [Clients -> Entry \cup {Null}]
    BY DEF Commit, EndTransaction, StoreInv, TypeOK, Steps, Effect, NoEffect
  <1> QED BY <1>1, <1>2, <1>3, <1>4, <1>5, <1>6 DEF TypeOK

\* A commit does not disturb what the other open transactions rely on.
LEMMA CommitOthers ==
  ASSUME StoreInv, NEW c \in Clients, Commit(c), NEW d \in Clients \ {c}
  PROVE  (ControlOK(d) /\ SeenOK(d) /\ WriteIdOK(d) /\ PendingOK(d))'
  <1> DEFINE e == effect[c]
  <1>1. /\ pc'[d] = pc[d] /\ cmd'[d] = cmd[d] /\ seen'[d] = seen[d]
        /\ effect'[d] = effect[d] /\ entry'[d] = entry[d]
    BY DEF Commit, EndTransaction, StoreInv, TypeOK
  <1>2. /\ ControlOK(d) /\ SeenOK(d) /\ WriteIdOK(d) /\ PendingOK(d)
        /\ PendingOK(c) /\ WriteIdOK(c) /\ Apart(c, d)
    BY DEF StoreInv
  <1>3. /\ e \in Effect
        /\ \A i \in Ids : memories'[i] = IF Writes(c, i) THEN e.row ELSE memories[i]
        /\ e.kind # "delete" => tombstones' = tombstones
        /\ e.kind = "delete" => tombstones' = tombstones \cup {e.id}
    BY CommitTables
  <1>4. ControlOK(d)'
    BY <1>1, <1>2 DEF ControlOK
  <1>5. SeenOK(d)'
    <2> SUFFICES ASSUME seen[d] # Null PROVE SeenOK(d)'
      BY <1>1 DEF SeenOK
    <2> DEFINE k == cmd[d]
    <2>1. k \in Command /\ k.id \in Ids /\ seen[d] \in Row
      BY <1>2 DEF SeenOK, StoreInv, TypeOK
    <2>2. CASE ~Writes(c, k.id)
      <3>1. memories'[k.id] = memories[k.id] /\ tombstones \subseteq tombstones'
        BY <1>3, <2>1, <2>2
      <3> QED BY <1>1, <1>2, <3>1 DEF SeenOK
    <2>3. CASE Writes(c, k.id)
      <3>1. memories'[k.id] = e.row /\ e.id = k.id /\ e.kind # "none"
        BY <1>3, <2>1, <2>3 DEF Writes
      <3>2. CASE e.kind = "insert"
        BY <1>2, <3>1, <3>2 DEF PendingOK, WriteIdOK, SeenOK
      <3>3. CASE e.kind = "update"
        <4>1. /\ memories[k.id] # Null /\ memories[k.id] \in Row /\ e.row # Null
              /\ e.row.version = memories[k.id].version + 1
          BY <1>2, <2>1, <3>1, <3>3 DEF PendingOK, StoreInv, TypeOK
        <4>2. e.row.version > seen[d].version
          BY <1>2, <2>1, <4>1 DEF SeenOK, Row
        <4>3. e.row \in Row
          BY <1>3, <4>1 DEF Effect
        <4> QED BY <1>1, <1>2, <2>1, <3>1, <4>1, <4>2, <4>3 DEF SeenOK, Row
      <3>4. CASE e.kind = "delete"
        BY <1>1, <1>2, <1>3, <3>1, <3>4 DEF PendingOK, SeenOK
      <3> QED BY <1>3, <3>1, <3>2, <3>3, <3>4 DEF Effect
    <2> QED BY <2>2, <2>3
  <1>6. WriteIdOK(d)'
    <2> SUFFICES ASSUME cmd[d] # Null, cmd[d].op = "write"
                 PROVE  memories'[cmd[d].id] = Null /\ cmd[d].id \notin tombstones'
      BY <1>1 DEF WriteIdOK
    <2>1. cmd[d].id \in Ids /\ memories[cmd[d].id] = Null /\ cmd[d].id \notin tombstones
      BY <1>2 DEF WriteIdOK, ControlOK, StoreInv, TypeOK
    <2>2. ~Writes(c, cmd[d].id)
      BY <1>2, <1>3, <2>1 DEF Writes, PendingOK, Apart, Effect
    <2>3. e.kind = "delete" => e.id # cmd[d].id
      BY <2>2 DEF Writes
    <2> QED BY <1>3, <2>1, <2>2, <2>3
  <1>7. PendingOK(d)'
    <2> DEFINE f == effect[d]
    <2>1. f.kind # "none" => f.id \in Ids /\ ~Writes(c, f.id)
      BY <1>2 DEF PendingOK, Apart, Writes
    <2>2. f.kind # "none" => memories'[f.id] = memories[f.id]
      BY <1>3, <2>1
    <2>3. ASSUME NEW r \in f.rels
          PROVE  memories'[r.source] # Null /\ memories'[r.target] # Null
      <3>1. /\ r.source \in Ids /\ r.target \in Ids
            /\ memories[r.source] # Null /\ memories[r.target] # Null
        BY <1>2 DEF PendingOK, StoreInv, TypeOK, Effect, Relation
      <3>2. ~Deletes(c, r.source) /\ ~Deletes(c, r.target)
        BY <1>2, <3>1 DEF Apart, Shares
      <3>3. e.kind \in {"insert", "update"} => e.row # Null
        BY <1>2 DEF PendingOK
      <3> QED BY <1>3, <3>1, <3>2, <3>3 DEF Writes, Deletes, Effect
    <2> QED BY <1>1, <1>2, <2>2, <2>3 DEF PendingOK
  <1> QED BY <1>4, <1>5, <1>6, <1>7

\* Nothing of a forgotten memory survives a commit, and nothing it commits
\* refers to one.
LEMMA CommitForget ==
  ASSUME StoreInv, NEW c \in Clients, Commit(c)
  PROVE  ForgetErases' /\ ForgetIsFinal'
  <1> DEFINE e == effect[c]
  <1>1. /\ e \in Effect
        /\ \A i \in Ids : memories'[i] = IF Writes(c, i) THEN e.row ELSE memories[i]
        /\ e.kind # "delete" => tombstones' = tombstones
        /\ e.kind = "delete" => tombstones' = tombstones \cup {e.id}
    BY CommitTables
  <1>2. PendingOK(c) /\ WriteIdOK(c) /\ ForgetErases /\ ForgetIsFinal
    BY DEF StoreInv
  <1>3. e.kind \in {"insert", "update"} => e.row # Null
    BY <1>2 DEF PendingOK
  <1>4. \A i \in Ids : memories[i] # Null /\ ~Deletes(c, i) => memories'[i] # Null
    BY <1>1, <1>3 DEF Writes, Deletes, Effect
  <1>5. \A s \in versions' : memories'[s.id] # Null
    <2> SUFFICES ASSUME NEW s \in versions' PROVE memories'[s.id] # Null
      OBVIOUS
    <2>1. \/ s \in versions /\ ~Deletes(c, s.id)
          \/ s \in e.snaps
      BY DEF Commit
    <2>2. CASE s \in versions /\ ~Deletes(c, s.id)
      BY <1>2, <1>4, <2>2 DEF ForgetErases, StoreInv, TypeOK, Snapshot
    <2>3. CASE s \in e.snaps
      <3>1. e.kind \in {"insert", "update"} /\ s = SnapshotOf(e.id, e.row) /\ e.id \in Ids
        BY <1>1, <1>2, <2>3 DEF PendingOK, Effect
      <3>2. s.id = e.id /\ Writes(c, e.id)
        BY <3>1 DEF SnapshotOf, Writes
      <3> QED BY <1>1, <1>3, <3>1, <3>2
    <2> QED BY <2>1, <2>2, <2>3
  <1>6. \A r \in relations' : memories'[r.source] # Null /\ memories'[r.target] # Null
    <2> SUFFICES ASSUME NEW r \in relations'
                 PROVE  memories'[r.source] # Null /\ memories'[r.target] # Null
      OBVIOUS
    <2>1. \/ r \in relations /\ ~Deletes(c, r.source) /\ ~Deletes(c, r.target)
          \/ r \in e.rels
      BY DEF Commit
    <2>2. CASE r \in relations /\ ~Deletes(c, r.source) /\ ~Deletes(c, r.target)
      BY <1>2, <1>4, <2>2 DEF ForgetErases, StoreInv, TypeOK, Relation
    <2>3. CASE r \in e.rels
      <3>1. /\ r.source \in Ids /\ r.target \in Ids
            /\ memories[r.source] # Null /\ memories[r.target] # Null
        BY <1>1, <1>2, <2>3 DEF PendingOK, Effect, Relation
      <3>2. e.kind # "delete"
        BY <1>2, <2>3 DEF PendingOK
      <3> QED BY <1>4, <3>1, <3>2 DEF Deletes
    <2> QED BY <2>1, <2>2, <2>3
  <1>7. ASSUME NEW i \in tombstones' PROVE memories'[i] = Null
    <2>1. i \in Ids
      BY CommitType DEF TypeOK
    <2>2. CASE Writes(c, i)
      <3>1. e.kind # "insert" \/ i \notin tombstones
        BY <1>2, <2>2 DEF Writes, PendingOK, WriteIdOK
      <3>2. e.kind # "update" \/ i \notin tombstones
        BY <1>2, <2>2 DEF Writes, PendingOK, ForgetIsFinal
      <3>3. e.kind = "delete"
        BY <1>1, <1>7, <2>2, <3>1, <3>2 DEF Writes, Effect
      <3> QED BY <1>1, <1>2, <2>1, <2>2, <3>3 DEF PendingOK
    <2>3. CASE ~Writes(c, i)
      <3>1. i \in tombstones
        BY <1>1, <1>2, <1>7, <2>3 DEF Writes
      <3> QED BY <1>1, <1>2, <2>1, <2>3, <3>1 DEF ForgetIsFinal
    <2> QED BY <2>2, <2>3
  <1> QED BY <1>5, <1>6, <1>7 DEF ForgetErases, ForgetIsFinal

\* The snapshot a commit adds is the next one of its memory, and a legal one.
LEMMA CommitHistory ==
  ASSUME StoreInv, NEW c \in Clients, Commit(c)
  PROVE  HistoryComplete' /\ LegalHistory'
  <1> DEFINE e == effect[c]
             new == SnapshotOf(e.id, e.row)
  <1>1. /\ e \in Effect
        /\ \A i \in Ids : memories'[i] = IF Writes(c, i) THEN e.row ELSE memories[i]
        /\ e.kind = "none" => versions' = versions
        /\ e.kind \in {"insert", "update"} => versions' = versions \cup {new}
        /\ e.kind = "delete" => versions' = {s \in versions : s.id # e.id}
    BY CommitTables
  <1>2. /\ PendingOK(c) /\ WriteIdOK(c) /\ ForgetErases
        /\ HistoryComplete /\ LegalHistory
    BY DEF StoreInv
  <1>3. versions \in SUBSET Snapshot /\ memories \in [Ids -> Row \cup {Null}]
    BY DEF StoreInv, TypeOK
  <1>4. CASE e.kind = "none"
    <2>1. \A i \in Ids : memories'[i] = memories[i]
      BY <1>1, <1>4 DEF Writes
    <2> QED BY <1>1, <1>2, <1>4, <2>1 DEF HistoryComplete, LegalHistory
  <1>5. CASE e.kind = "delete"
    <2>1. \A i \in Ids : i # e.id => memories'[i] = memories[i]
      BY <1>1 DEF Writes
    <2>2. e.id \in Ids /\ memories'[e.id] = Null
      BY <1>1, <1>2, <1>5 DEF Writes, PendingOK
    <2>3. HistoryComplete'
      <3> SUFFICES ASSUME NEW i \in Ids, i # e.id, memories[i] # Null
                   PROVE  /\ SnapshotOf(i, memories[i]) \in versions'
                          /\ \A v \in 1..memories[i].version :
                               \E s \in versions' : s.id = i /\ s.version = v
                          /\ \A s \in versions' : s.id = i => s.version <= memories[i].version
                          /\ \A s, t \in versions' :
                               s.id = i /\ t.id = i /\ s.version = t.version => s = t
        BY <2>1, <2>2 DEF HistoryComplete
      <3>1. SnapshotOf(i, memories[i]).id = i
        BY DEF SnapshotOf
      <3> QED BY <1>1, <1>2, <1>5, <3>1 DEF HistoryComplete
    <2> QED BY <1>1, <1>2, <1>5, <2>3 DEF LegalHistory
  <1>6. CASE e.kind \in {"insert", "update"}
    <2>1. /\ e.id \in Ids /\ e.row \in Row /\ e.row # Null
          /\ memories'[e.id] = e.row
          /\ \A i \in Ids : i # e.id => memories'[i] = memories[i]
      BY <1>1, <1>2, <1>6 DEF Writes, PendingOK, Effect
    <2>2. /\ new.id = e.id /\ new.version = e.row.version
          /\ new.state = e.row.state /\ new.content = e.row.content
      BY DEF SnapshotOf
    <2>3. /\ \A s \in versions : s.id = e.id => s.version < e.row.version
          /\ \A v \in 1..e.row.version : v # e.row.version =>
               \E s \in versions : s.id = e.id /\ s.version = v
          /\ \A s \in versions : s.id = e.id /\ s.version + 1 = e.row.version =>
               s.state = e.row.state \/ e.row.state \in Allowed[s.state]
      <3>1. CASE e.kind = "insert"
        <4>1. memories[e.id] = Null /\ e.row.version = 1
          BY <1>2, <3>1 DEF PendingOK, WriteIdOK
        <4> QED BY <1>2, <4>1 DEF ForgetErases
      <3>2. CASE e.kind = "update"
        <4> DEFINE old == memories[e.id]
        <4>1. /\ old \in Row /\ old # Null /\ e.row.version = old.version + 1
              /\ e.row.state = old.state \/ e.row.state \in Allowed[old.state]
          BY <1>2, <1>3, <2>1, <3>2 DEF PendingOK
        <4>2. old.version \in Nat /\ e.row.version \in Nat
          BY <2>1, <4>1 DEF Row
        <4>3. /\ SnapshotOf(e.id, old) \in versions
              /\ \A v \in 1..old.version : \E s \in versions : s.id = e.id /\ s.version = v
              /\ \A s \in versions : s.id = e.id => s.version <= old.version
              /\ \A s, t \in versions :
                   s.id = e.id /\ t.id = e.id /\ s.version = t.version => s = t
          BY <1>2, <2>1, <4>1 DEF HistoryComplete
        <4>4. \A s \in versions : s.version \in Nat
          BY <1>3 DEF Snapshot
        <4>5. \A s \in versions : s.id = e.id /\ s.version + 1 = e.row.version =>
                s.state = old.state
          <5>1. ASSUME NEW s \in versions, s.id = e.id, s.version + 1 = e.row.version
                PROVE  s = SnapshotOf(e.id, old)
            <6>1. s.version = old.version
              BY <4>1, <4>2, <4>4, <5>1
            <6> QED BY <4>3, <5>1, <6>1 DEF SnapshotOf
          <5> QED BY <5>1 DEF SnapshotOf
        <4>6. \A s \in versions : s.id = e.id => s.version < e.row.version
          BY <4>1, <4>2, <4>3, <4>4
        <4>7. \A v \in 1..e.row.version : v # e.row.version => v \in 1..old.version
          BY <4>1, <4>2
        <4> QED BY <4>1, <4>3, <4>5, <4>6, <4>7
      <3> QED BY <1>6, <3>1, <3>2
    <2>4. versions' = versions \cup {new} /\ \A s \in versions : s.version \in Nat
      BY <1>1, <1>3, <1>6 DEF Snapshot
    <2>5. e.row.version \in Nat
      BY <2>1 DEF Row
    <2>6. HistoryComplete'
      <3> SUFFICES ASSUME NEW i \in Ids, memories'[i] # Null
                   PROVE  /\ SnapshotOf(i, memories'[i]) \in versions'
                          /\ \A v \in 1..memories'[i].version :
                               \E s \in versions' : s.id = i /\ s.version = v
                          /\ \A s \in versions' : s.id = i => s.version <= memories'[i].version
                          /\ \A s, t \in versions' :
                               s.id = i /\ t.id = i /\ s.version = t.version => s = t
        BY DEF HistoryComplete
      <3> HIDE DEF new, e
      <3>1. CASE i = e.id
        <4>1. SnapshotOf(i, memories'[i]) \in versions'
          BY <2>1, <2>4, <3>1 DEF new
        <4>2. \A v \in 1..e.row.version : \E s \in versions' : s.id = i /\ s.version = v
          BY <2>2, <2>3, <2>4, <3>1
        <4>3. \A s \in versions' : s.id = i => s.version <= e.row.version
          BY <2>2, <2>3, <2>4, <2>5, <3>1
        <4>4. \A s, t \in versions' :
                s.id = i /\ t.id = i /\ s.version = t.version => s = t
          <5>1. \A s \in versions : s.id = i => s.version # new.version
            BY <2>2, <2>3, <2>4, <2>5, <3>1
          <5>2. \A s, t \in versions :
                  s.id = i /\ t.id = i /\ s.version = t.version => s = t
            BY <1>2, <2>3, <3>1 DEF HistoryComplete, ForgetErases
          <5> QED BY <2>2, <2>4, <3>1, <5>1, <5>2
        <4> QED BY <2>1, <3>1, <4>1, <4>2, <4>3, <4>4
      <3>2. CASE i # e.id
        <4>1. memories'[i] = memories[i] /\ \A s \in versions' : s.id = i => s \in versions
          BY <2>1, <2>2, <2>4, <3>2
        <4> QED BY <1>2, <2>4, <4>1 DEF HistoryComplete
      <3> QED BY <3>1, <3>2
    <2>7. LegalHistory'
      <3> SUFFICES ASSUME NEW s \in versions', NEW t \in versions',
                          s.id = t.id, t.version = s.version + 1
                   PROVE  s.state = t.state \/ t.state \in Allowed[s.state]
        BY DEF LegalHistory
      <3> HIDE DEF new, e
      <3>1. CASE s \in versions /\ t \in versions
        BY <1>2, <3>1 DEF LegalHistory
      <3>2. CASE s \in versions /\ t = new
        BY <2>2, <2>3, <3>2
      <3>3. CASE s = new
        BY <2>2, <2>3, <2>4, <2>5, <3>3
      <3> QED BY <2>4, <3>1, <3>2, <3>3
    <2> QED BY <2>6, <2>7
  <1> QED BY <1>1, <1>4, <1>5, <1>6 DEF Effect

\* A commit keeps the whole invariant: the tables by the four lemmas above, the
\* committing client because it ends idle.
LEMMA CommitInv ==
  ASSUME StoreInv, NEW c \in Clients, Commit(c)
  PROVE  StoreInv'
  <1>1. /\ pc'[c] = "idle" /\ cmd'[c] = Null /\ seen'[c] = Null
        /\ effect'[c] = NoEffect /\ entry'[c] = Null
    BY DEF Commit, EndTransaction, StoreInv, TypeOK
  <1>2. (ControlOK(c) /\ SeenOK(c) /\ WriteIdOK(c) /\ PendingOK(c))'
    BY <1>1 DEF ControlOK, SeenOK, WriteIdOK, PendingOK, NoEffect
  <1>3. \A d \in Clients : (ControlOK(d) /\ SeenOK(d) /\ WriteIdOK(d) /\ PendingOK(d))'
    BY <1>2, CommitOthers
  <1>4. \A d, e \in Clients : d # e => Apart(d, e)'
    <2> SUFFICES ASSUME NEW d \in Clients, NEW e \in Clients, d # e
                 PROVE  Apart(d, e)'
      OBVIOUS
    <2>1. \A x \in Clients \ {c} : cmd'[x] = cmd[x] /\ effect'[x] = effect[x]
      BY DEF Commit, EndTransaction, StoreInv, TypeOK
    <2>2. CASE d # c /\ e # c
      <3>1. Apart(d, e)
        BY DEF StoreInv
      <3> QED BY <2>1, <2>2, <3>1 DEF Apart, Writes, Deletes, Shares
    <2>3. CASE d = c \/ e = c
      BY <1>1, <2>3 DEF Apart, Writes, Deletes, Shares, NoEffect
    <2> QED BY <2>2, <2>3
  <1> QED BY <1>3, <1>4, CommitType, CommitForget, CommitHistory DEF StoreInv

\* StoreInv is inductive: every statement of every transaction, interleaved
\* with those of the others, and every abort, preserves it.
LEMMA NextInv == StoreInv /\ [Next]_vars => StoreInv'
  <1> SUFFICES ASSUME StoreInv, [Next]_vars PROVE StoreInv'
    OBVIOUS
  <1>1. CASE UNCHANGED vars
    BY <1>1 DEF StoreInv, TypeOK, vars, tables, local, ControlOK, SeenOK, WriteIdOK,
       PendingOK, Apart, Writes, Deletes, Shares, HistoryComplete, ForgetErases,
       ForgetIsFinal, LegalHistory
  <1>2. ASSUME NEW c \in Clients, Begin(c) \/ Step(c) \/ Abort(c) PROVE StoreInv'
    <2>1. CASE Begin(c)   BY <2>1, BeginInv
    <2>2. CASE Abort(c)   BY <2>2, RollbackInv DEF Abort
    <2>3. CASE Find(c)    BY <2>3, FindInv
    <2>4. CASE Insert(c)  BY <2>4, InsertInv
    <2>5. CASE Refind(c)  BY <2>5, RollbackInv DEF Refind
    <2>6. CASE Claim(c)   BY <2>6, ClaimInv
    <2>7. CASE Replay(c)  BY <2>7, RollbackInv DEF Replay
    <2>8. CASE Complete(c) BY <2>8, CompleteInv
    <2>9. CASE Read(c)    BY <2>9, ReadInv
    <2>10. CASE Write(c)  BY <2>10, WriteInv
    <2>11. CASE Link(c)   BY <2>11, LinkInv
    <2>12. CASE Remove(c) BY <2>12, RemoveInv
    <2>13. CASE Cascade(c) BY <2>13, CascadeInv
    <2>14. CASE Commit(c) BY <2>14, CommitInv
    <2> QED BY <1>2, <2>1, <2>2, <2>3, <2>4, <2>5, <2>6, <2>7, <2>8, <2>9, <2>10,
               <2>11, <2>12, <2>13, <2>14 DEF Step
  <1> QED BY <1>1, <1>2 DEF Next

\* The invariant holds in every reachable state of the store.
THEOREM StoreInvariant == Spec => []StoreInv
  BY InitInv, NextInv, PTL DEF Spec

\* Type correctness of the tables and of every open transaction.
THEOREM TypeCorrect == Spec => []TypeOK
  <1>1. StoreInv => TypeOK
    BY DEF StoreInv
  <1> QED BY <1>1, StoreInvariant, PTL

\* No interleaving of updates, confirmations, pins, forgets and aborts loses an
\* update: the history of every live memory is complete and ends in its row.
THEOREM HistoryIsComplete == Spec => []HistoryComplete
  <1>1. StoreInv => HistoryComplete
    BY DEF StoreInv
  <1> QED BY <1>1, StoreInvariant, PTL

\* Every recorded transition is one the domain accepts.
THEOREM HistoryIsLegal == Spec => []LegalHistory
  <1>1. StoreInv => LegalHistory
    BY DEF StoreInv
  <1> QED BY <1>1, StoreInvariant, PTL

\* A forgotten memory leaves no snapshot and no relation behind, not even one
\* that a concurrent request was adding.
THEOREM ForgetIsComplete == Spec => []ForgetErases
  <1>1. StoreInv => ForgetErases
    BY DEF StoreInv
  <1> QED BY <1>1, StoreInvariant, PTL

\* No request that was under way brings a forgotten memory back.
THEOREM ForgetStaysFinal == Spec => []ForgetIsFinal
  <1>1. StoreInv => ForgetIsFinal
    BY DEF StoreInv
  <1> QED BY <1>1, StoreInvariant, PTL

------------------------------------------------------------------------------
(* The idempotency ledger and the write keys *)

\* A step that leaves the tables and the other transactions alone keeps
\* LedgerInv if it keeps the parts about its own client.
LEMMA LedgerFrame ==
  ASSUME LedgerInv, NEW c \in Clients, UNCHANGED tables, Others(c),
         EntryOK(c)', SeenKept(c)', KeyFree(c)',
         \A d \in Clients \ {c} : KeysApart(c, d)' /\ KeysApart(d, c)'
  PROVE  LedgerInv'
  <1>1. ASSUME NEW d \in Clients \ {c} PROVE (EntryOK(d) /\ SeenKept(d) /\ KeyFree(d))'
    <2>1. EntryOK(d) /\ SeenKept(d) /\ KeyFree(d)
      BY DEF LedgerInv
    <2>2. EntryOK(d)'
      BY <2>1 DEF EntryOK, Others, tables
    <2>3. SeenKept(d)' /\ KeyFree(d)'
      BY <2>1 DEF SeenKept, KeyFree, HolderOf, Others, tables
    <2> QED BY <2>2, <2>3
  <1>2. ASSUME NEW d \in Clients \ {c}, NEW e \in Clients \ {c}, d # e
        PROVE  KeysApart(d, e)'
    <2>1. KeysApart(d, e)
      BY <1>2 DEF LedgerInv
    <2> QED BY <2>1 DEF KeysApart, Others
  <1>3. (AnswersKept /\ NoStuckClaim /\ OneMemoryPerWriteKey)'
    BY DEF LedgerInv, AnswersKept, NoStuckClaim, OneMemoryPerWriteKey, tables
  <1> QED BY <1>1, <1>2, <1>3 DEF LedgerInv

\* A transaction that holds nothing and has read nothing asks for nothing.
LEMMA LedgerIdle ==
  ASSUME LedgerInv, NEW c \in Clients, UNCHANGED tables, Others(c),
         entry'[c] = Null, seen'[c] = Null, effect'[c] = NoEffect
  PROVE  LedgerInv'
  <1>1. EntryOK(c)' /\ SeenKept(c)' /\ KeyFree(c)'
    BY DEF EntryOK, SeenKept, KeyFree, NoEffect
  <1>2. \A d \in Clients \ {c} : KeysApart(c, d)' /\ KeysApart(d, c)'
    BY DEF KeysApart, NoEffect
  <1> QED BY <1>1, <1>2, LedgerFrame

LEMMA RollbackLedger ==
  ASSUME StoreInv, LedgerInv, NEW c \in Clients, Rollback(c)
  PROVE  LedgerInv'
  <1>1. /\ Others(c) /\ UNCHANGED tables
        /\ entry'[c] = Null /\ seen'[c] = Null /\ effect'[c] = NoEffect
    BY DEF Rollback, EndTransaction, Others, StoreInv, TypeOK
  <1> QED BY <1>1, LedgerIdle

\* Begin and the lookup of a write open no claim and write nothing.
LEMMA OpeningLedger ==
  ASSUME StoreInv, LedgerInv, NEW c \in Clients, Begin(c) \/ Find(c)
  PROVE  LedgerInv'
  <1>1. CASE Rollback(c)
    BY <1>1, RollbackLedger
  <1>2. CASE ~Rollback(c)
    <2>1. /\ pc[c] \in {"idle", "find"} /\ UNCHANGED <<tables, seen, effect, entry>>
          /\ Others(c)
      BY <1>2 DEF Begin, Find, Goto, Others, StoreInv, TypeOK
    <2>2. entry[c] = Null /\ seen[c] = Null /\ effect[c] = NoEffect
      BY <2>1 DEF StoreInv, ControlOK, SeenOK, LedgerOps
    <2> QED BY <2>1, <2>2, LedgerIdle
  <1> QED BY <1>1, <1>2

\* The insert waited for its write key and found it free.
LEMMA InsertLedger ==
  ASSUME StoreInv, LedgerInv, NEW c \in Clients, Insert(c)
  PROVE  LedgerInv'
  <1> DEFINE k == cmd[c]
  <1>1. /\ UNCHANGED <<tables, cmd, seen, entry>> /\ Others(c)
        /\ entry'[c] = Null /\ seen'[c] = Null /\ effect[c] = NoEffect
    BY DEF Insert, Goto, Others, StoreInv, TypeOK, ControlOK, SeenOK, LedgerOps
  <1>2. CASE UNCHANGED effect
    BY <1>1, <1>2, LedgerIdle
  <1>3. CASE effect' # effect
    <2>1. /\ HolderOf(k.key) = {} /\ CanInsert(c, k.key)
          /\ effect'[c].kind = "insert" /\ effect'[c].row.key = k.key
      BY <1>3 DEF Insert, StoreInv, TypeOK, Create
    <2>2. EntryOK(c)' /\ SeenKept(c)' /\ KeyFree(c)'
      BY <1>1, <2>1 DEF EntryOK, SeenKept, KeyFree, HolderOf, tables
    <2>3. ASSUME NEW d \in Clients \ {c} PROVE KeysApart(c, d)' /\ KeysApart(d, c)'
      BY <1>1, <2>1 DEF KeysApart, CanInsert, Others
    <2> QED BY <1>1, <2>2, <2>3, LedgerFrame
  <1> QED BY <1>2, <1>3

\* A claim waited for those of the same key: nobody else holds it.
LEMMA ClaimLedger ==
  ASSUME StoreInv, LedgerInv, NEW c \in Clients, Claim(c)
  PROVE  LedgerInv'
  <1> DEFINE k == cmd[c]
  <1>1. CASE Rollback(c)
    BY <1>1, RollbackLedger
  <1>2. CASE ~Rollback(c)
    <2>1. /\ UNCHANGED <<tables, cmd, seen, effect>> /\ Others(c) /\ CanClaim(c, k)
          /\ pc[c] = "claim" /\ effect'[c] = NoEffect
          /\ \/ /\ ledger[LedgerKey(k)] = Null /\ entry'[c] = InProgress(k)
                /\ pc'[c] \in {"remove", "read"}
             \/ pc'[c] = "replay"
      BY <1>2 DEF Claim, Goto, Others, StoreInv, TypeOK, ControlOK
    <2>2. EntryOK(c)'
      BY <2>1 DEF EntryOK, InProgress, tables
    <2>3. SeenKept(c)' /\ KeyFree(c)'
      BY <2>1 DEF LedgerInv, SeenKept, KeyFree, NoEffect, tables
    <2>4. ASSUME NEW d \in Clients \ {c} PROVE KeysApart(c, d)' /\ KeysApart(d, c)'
      BY <2>1 DEF KeysApart, CanClaim, Others, NoEffect
    <2> QED BY <2>1, <2>2, <2>3, <2>4, LedgerFrame
  <1> QED BY <1>1, <1>2

\* complete() records the memory the transaction wrote or read.
LEMMA CompleteLedger ==
  ASSUME StoreInv, LedgerInv, NEW c \in Clients, Complete(c)
  PROVE  LedgerInv'
  <1>1. /\ UNCHANGED <<tables, cmd, seen, effect>> /\ Others(c)
        /\ pc[c] = "complete" /\ pc'[c] = "commit"
    BY DEF Complete, Goto, Others, StoreInv, TypeOK
  <1>2. entry[c] \in Entry /\ entry[c] # Null
    BY <1>1 DEF StoreInv, TypeOK, ControlOK
  <1>3. entry[c].answer = Null /\ entry[c].id = cmd[c].id
        /\ ledger[LedgerKey(cmd[c])] = Null
    BY <1>1, <1>2 DEF LedgerInv, EntryOK
  <1>4. EntryOK(c)'
    <2>1. CASE cmd[c].op \in {"forget", "discard"}
      <3>1. /\ entry'[c].answer = Null /\ entry'[c].id = cmd[c].id
            /\ entry'[c].status = "completed"
        BY <1>2, <1>3, <2>1 DEF Complete, StoreInv, TypeOK, Entry
      <3> QED BY <1>1, <1>3, <3>1 DEF EntryOK, tables
    <2>2. CASE cmd[c].op \notin {"forget", "discard"}
      <3> DEFINE returned == IF effect[c].kind = "update" THEN effect[c].row ELSE seen[c]
      <3>1. /\ entry'[c].answer = returned /\ entry'[c].id = cmd[c].id
            /\ entry'[c].status = "completed" /\ entry'[c].version = returned.version
        BY <1>2, <1>3, <2>2 DEF Complete, StoreInv, TypeOK, Entry
      <3> QED BY <1>1, <1>3, <3>1 DEF EntryOK, tables
    <2> QED BY <2>1, <2>2
  <1>5. SeenKept(c)' /\ KeyFree(c)'
    BY <1>1 DEF LedgerInv, SeenKept, KeyFree, HolderOf, tables
  <1>6. ASSUME NEW d \in Clients \ {c} PROVE KeysApart(c, d)' /\ KeysApart(d, c)'
    <2>1. KeysApart(c, d) /\ KeysApart(d, c)
      BY DEF LedgerInv
    <2> QED BY <1>1, <1>2, <2>1 DEF KeysApart, Others
  <1> QED BY <1>1, <1>4, <1>5, <1>6, LedgerFrame

\* What get() returned is the newest snapshot of its memory.
LEMMA ReadLedger ==
  ASSUME StoreInv, LedgerInv, NEW c \in Clients, Read(c)
  PROVE  LedgerInv'
  <1> DEFINE k == cmd[c]
             row == memories[k.id]
  <1>1. CASE Rollback(c)
    BY <1>1, RollbackLedger
  <1>2. CASE ~Rollback(c)
    <2>1. /\ UNCHANGED <<tables, cmd, effect, entry>> /\ Others(c)
          /\ pc[c] = "read" /\ effect[c] = NoEffect /\ k.id \in Ids
          /\ seen'[c] = row /\ row # Null
          /\ pc'[c] \in {"remove", "link", "complete", "write"}
      BY <1>2 DEF Read, Goto, Others, StoreInv, TypeOK, ControlOK, AfterRead, Accepts, Permits
    <2>2. EntryOK(c)'
      BY <2>1 DEF LedgerInv, EntryOK, tables
    <2>3. SeenKept(c)'
      BY <2>1 DEF SeenKept, StoreInv, HistoryComplete, tables
    <2>4. KeyFree(c)'
      BY <2>1 DEF KeyFree, NoEffect
    <2>5. ASSUME NEW d \in Clients \ {c} PROVE KeysApart(c, d)' /\ KeysApart(d, c)'
      <3>1. KeysApart(c, d) /\ KeysApart(d, c)
        BY DEF LedgerInv
      <3> QED BY <2>1, <3>1 DEF KeysApart, Others
    <2> QED BY <2>1, <2>2, <2>3, <2>4, <2>5, LedgerFrame
  <1> QED BY <1>1, <1>2

\* The writes of the other operations insert no key and answer nothing yet; one
\* that commits without complete() has claimed nothing.
LEMMA WriteLedger ==
  ASSUME StoreInv, LedgerInv, NEW c \in Clients,
         Write(c) \/ Link(c) \/ Remove(c) \/ Cascade(c)
  PROVE  LedgerInv'
  <1> DEFINE k == cmd[c]
  <1>1. CASE Rollback(c)
    BY <1>1, RollbackLedger
  <1>2. CASE ~Rollback(c)
    <2>1. /\ UNCHANGED <<tables, cmd, seen, entry>>
          /\ pc[c] \in {"write", "link", "remove", "sources", "targets"}
          /\ pc'[c] \in {"link", "sources", "targets", AfterWrite(k)}
          /\ Others(c)
      <3>1. CASE Write(c)
        BY <1>2, <3>1 DEF Write, Goto, Others, StoreInv, TypeOK
      <3>2. CASE Link(c)
        BY <1>2, <3>2 DEF Link, Goto, Others, StoreInv, TypeOK
      <3>3. CASE Remove(c)
        BY <1>2, <3>3 DEF Remove, Goto, Others, StoreInv, TypeOK
      <3>4. CASE Cascade(c)
        BY <3>4 DEF Cascade, Goto, Others, StoreInv, TypeOK
      <3> QED BY <3>1, <3>2, <3>3, <3>4
    <2>2. effect'[c].kind # "insert"
      <3>1. CASE Write(c)
        BY <1>2, <3>1 DEF Write, StoreInv, TypeOK
      <3>2. CASE Link(c)
        <4>1. effect[c] \in Effect /\ effect[c].kind # "insert"
          BY <3>2 DEF Link, StoreInv, TypeOK, ControlOK
        <4> QED BY <1>2, <3>2, <4>1 DEF Link, Effect, StoreInv, TypeOK
      <3>3. CASE Remove(c)
        BY <1>2, <3>3 DEF Remove, StoreInv, TypeOK, ControlOK, NoEffect
      <3>4. CASE Cascade(c)
        BY <3>4 DEF Cascade, StoreInv, ControlOK
      <3> QED BY <3>1, <3>2, <3>3, <3>4
    <2>3. pc'[c] = "commit" => entry[c] = Null
      BY <2>1, StoreAssumption DEF AfterWrite, StoreInv, ControlOK
    <2>4. EntryOK(c)'
      BY <2>1, <2>3 DEF LedgerInv, EntryOK, AfterWrite, tables
    <2>5. SeenKept(c)' /\ KeyFree(c)'
      BY <2>1, <2>2 DEF LedgerInv, SeenKept, KeyFree, tables
    <2>6. ASSUME NEW d \in Clients \ {c} PROVE KeysApart(c, d)' /\ KeysApart(d, c)'
      <3>1. KeysApart(c, d) /\ KeysApart(d, c)
        BY DEF LedgerInv
      <3> QED BY <2>1, <2>2, <3>1 DEF KeysApart, Others
    <2> QED BY <2>1, <2>4, <2>5, <2>6, LedgerFrame
  <1> QED BY <1>1, <1>2

\* A memory that was known before a commit and lives after it was alive all the
\* time, and keeps its snapshots and its write key.
LEMMA CommitKeeps ==
  ASSUME StoreInv, NEW c \in Clients, Commit(c), NEW i \in Ids, memories'[i] # Null
  PROVE  /\ memories[i] # Null \/ i \in tombstones =>
              /\ memories[i] # Null
              /\ \A s \in versions : s.id = i => s \in versions'
              /\ memories'[i] # memories[i] =>
                   memories'[i].version = memories[i].version + 1
         /\ \/ memories[i] # Null /\ memories'[i].key = memories[i].key
            \/ effect[c].kind = "insert" /\ i = effect[c].id /\ memories'[i] = effect[c].row
  <1> DEFINE e == effect[c]
  <1>1. /\ e \in Effect
        /\ memories'[i] = IF Writes(c, i) THEN e.row ELSE memories[i]
        /\ e.kind = "none" => versions' = versions
        /\ e.kind \in {"insert", "update"} => versions' = versions \cup {SnapshotOf(e.id, e.row)}
        /\ e.kind = "delete" => versions' = {s \in versions : s.id # e.id}
    BY CommitTables
  <1>2. PendingOK(c) /\ WriteIdOK(c) /\ ForgetIsFinal
    BY DEF StoreInv
  <1>3. CASE ~Writes(c, i)
    <2>1. memories'[i] = memories[i]
      BY <1>1, <1>3
    <2>2. \A s \in versions : s.id = i => s \in versions'
      BY <1>1, <1>3 DEF Writes, Effect
    <2> QED BY <2>1, <2>2
  <1>4. CASE Writes(c, i)
    <2>1. e.id = i /\ e.kind # "none" /\ memories'[i] = e.row
      BY <1>1, <1>4 DEF Writes
    <2>2. CASE e.kind = "insert"
      BY <1>2, <2>1, <2>2 DEF PendingOK, WriteIdOK
    <2>3. CASE e.kind = "update"
      BY <1>1, <1>2, <2>1, <2>3 DEF PendingOK
    <2>4. CASE e.kind = "delete"
      BY <1>2, <2>1, <2>4 DEF PendingOK
    <2> QED BY <1>1, <2>1, <2>2, <2>3, <2>4 DEF Effect
  <1> QED BY <1>3, <1>4

\* A commit writes the one ledger row it claimed and frees or takes no key that
\* another open transaction relies on.
LEMMA CommitLedgerOthers ==
  ASSUME StoreInv, LedgerInv, NEW c \in Clients, Commit(c), NEW d \in Clients \ {c}
  PROVE  (EntryOK(d) /\ SeenKept(d) /\ KeyFree(d))'
  <1>1. /\ pc'[d] = pc[d] /\ cmd'[d] = cmd[d] /\ seen'[d] = seen[d]
        /\ effect'[d] = effect[d] /\ entry'[d] = entry[d]
    BY DEF Commit, EndTransaction, StoreInv, TypeOK
  <1>2. /\ EntryOK(d) /\ SeenKept(d) /\ KeyFree(d) /\ KeysApart(c, d)
        /\ SeenOK(d) /\ ControlOK(d) /\ PendingOK(c)
    BY DEF LedgerInv, StoreInv
  <1>3. EntryOK(d)'
    <2> SUFFICES ASSUME entry[d] # Null, pc[d] # "replay"
                 PROVE  ledger'[LedgerKey(cmd[d])] = Null
      BY <1>1, <1>2 DEF EntryOK
    <2>1. LedgerKey(cmd[d]) \in LedgerKeys /\ ledger[LedgerKey(cmd[d])] = Null
      BY <1>2 DEF ControlOK, EntryOK, LedgerKey, LedgerKeys
    <2>2. entry[c] # Null => LedgerKey(cmd[c]) # LedgerKey(cmd[d])
      BY <1>2 DEF KeysApart
    <2> QED BY <2>1, <2>2 DEF Commit
  <1>4. SeenKept(d)'
    <2> DEFINE i == cmd[d].id
    <2> SUFFICES ASSUME seen[d] # Null, memories'[i] # Null
                 PROVE  SnapshotOf(i, seen[d]) \in versions'
      BY <1>1 DEF SeenKept
    <2>1. i \in Ids /\ (memories[i] # Null \/ i \in tombstones)
      BY <1>2 DEF SeenOK
    <2>2. memories[i] # Null /\ \A s \in versions : s.id = i => s \in versions'
      BY <2>1, CommitKeeps
    <2> QED BY <1>2, <2>2 DEF SeenKept, SnapshotOf
  <1>5. KeyFree(d)'
    <2> DEFINE key == effect[d].row.key
    <2> SUFFICES ASSUME effect[d].kind = "insert", key # Null,
                        NEW i \in Ids, memories'[i] # Null, memories'[i].key = key
                 PROVE  FALSE
      BY <1>1 DEF KeyFree, HolderOf
    <2>1. memories[i] # Null => memories[i].key # key
      BY <1>2 DEF KeyFree, HolderOf
    <2>2. effect[c].kind = "insert" => effect[c].row.key # key
      BY <1>2 DEF KeysApart
    <2> QED BY <2>1, <2>2, CommitKeeps
  <1> QED BY <1>3, <1>4, <1>5

\* The committed answer is the newest snapshot, or one that is kept.
LEMMA CommitAnswers ==
  ASSUME StoreInv, LedgerInv, NEW c \in Clients, Commit(c)
  PROVE  AnswersKept' /\ NoStuckClaim'
  <1> SUFFICES ASSUME NEW o \in LedgerKeys, ledger'[o] # Null
               PROVE  LET e == ledger'[o] IN
                      /\ e.status = "completed"
                      /\ e.answer # Null =>
                           /\ e.version = e.answer.version
                           /\ memories'[e.id] = Null => e.id \in tombstones'
                           /\ memories'[e.id] # Null => SnapshotOf(e.id, e.answer) \in versions'
    BY DEF AnswersKept, NoStuckClaim
  <1> DEFINE e == ledger'[o]
             w == effect[c]
  <1>1. /\ w \in Effect
        /\ \A i \in Ids : memories'[i] = IF Writes(c, i) THEN w.row ELSE memories[i]
        /\ w.kind \in {"insert", "update"} => versions' = versions \cup {SnapshotOf(w.id, w.row)}
        /\ w.kind # "delete" => tombstones' = tombstones
        /\ w.kind = "delete" => tombstones' = tombstones \cup {w.id}
    BY CommitTables
  <1>2. PendingOK(c) /\ SeenOK(c) /\ SeenKept(c) /\ EntryOK(c) /\ ControlOK(c)
    BY DEF StoreInv, LedgerInv
  <1>3. ASSUME NEW i \in Ids, memories[i] = Null => i \in tombstones, memories'[i] = Null
        PROVE  i \in tombstones'
    <2>1. CASE Writes(c, i)
      <3>1. w.row = Null /\ w.id = i /\ w.kind # "none"
        BY <1>1, <1>3, <2>1 DEF Writes
      <3>2. w.kind = "delete"
        BY <1>1, <1>2, <3>1 DEF PendingOK, Effect
      <3> QED BY <1>1, <3>1, <3>2
    <2>2. CASE ~Writes(c, i)
      BY <1>1, <1>3, <2>2
    <2> QED BY <2>1, <2>2
  <1>4. CASE entry[c] # Null /\ LedgerKey(cmd[c]) = o
    <2>1. e = entry[c] /\ pc[c] = "commit"
      BY <1>4 DEF Commit
    <2>2. e.status = "completed" /\ e.id = cmd[c].id /\ e.id \in Ids
      BY <1>2, <1>4, <2>1 DEF EntryOK, ControlOK
    <2>3. CASE w.kind = "update" /\ e.answer = w.row /\ e.version = e.answer.version
      <3>1. w.id = e.id /\ w.row # Null /\ Writes(c, w.id)
        BY <1>2, <2>2, <2>3 DEF PendingOK, Writes
      <3> QED BY <1>1, <2>2, <2>3, <3>1
    <2>4. CASE e.answer # Null /\ e.answer = seen[c] /\ e.version = e.answer.version
      <3>1. memories[e.id] = Null => e.id \in tombstones
        BY <1>2, <2>2, <2>4 DEF SeenOK
      <3>2. ASSUME memories'[e.id] # Null PROVE SnapshotOf(e.id, e.answer) \in versions'
        <4>1. memories[e.id] # Null /\ \A s \in versions : s.id = e.id => s \in versions'
          BY <2>2, <3>1, <3>2, CommitKeeps
        <4> QED BY <1>2, <2>2, <2>4, <4>1 DEF SeenKept, SnapshotOf
      <3> QED BY <1>3, <2>2, <2>4, <3>1, <3>2
    <2> QED BY <1>2, <1>4, <2>1, <2>2, <2>3, <2>4 DEF EntryOK
  <1>5. CASE ~(entry[c] # Null /\ LedgerKey(cmd[c]) = o)
    <2>1. e = ledger[o] /\ e \in Entry
      BY <1>5 DEF Commit, StoreInv, TypeOK
    <2>2. /\ e.status = "completed" /\ e.id \in Ids
          /\ e.answer # Null =>
               /\ e.version = e.answer.version
               /\ memories[e.id] = Null => e.id \in tombstones
               /\ memories[e.id] # Null => SnapshotOf(e.id, e.answer) \in versions
      BY <2>1 DEF LedgerInv, AnswersKept, NoStuckClaim, Entry
    <2>3. ASSUME e.answer # Null, memories'[e.id] # Null
          PROVE  SnapshotOf(e.id, e.answer) \in versions'
      <3>1. memories[e.id] # Null /\ \A s \in versions : s.id = e.id => s \in versions'
        BY <2>2, <2>3, CommitKeeps
      <3> QED BY <2>2, <2>3, <3>1 DEF SnapshotOf
    <2> QED BY <1>3, <2>2, <2>3
  <1> QED BY <1>4, <1>5

\* Neither an insert nor an update gives a write key a second holder.
LEMMA CommitWriteKeys ==
  ASSUME StoreInv, LedgerInv, NEW c \in Clients, Commit(c)
  PROVE  OneMemoryPerWriteKey'
  <1> SUFFICES ASSUME NEW i \in Ids, NEW j \in Ids,
                      memories'[i] # Null, memories'[j] # Null,
                      memories'[i].key # Null, memories'[i].key = memories'[j].key
               PROVE  i = j
    BY DEF OneMemoryPerWriteKey
  <1> DEFINE e == effect[c]
  <1>1. ASSUME NEW x \in Ids, memories'[x] # Null
        PROVE  \/ memories[x] # Null /\ memories'[x].key = memories[x].key
               \/ e.kind = "insert" /\ x = e.id /\ memories'[x] = e.row
    BY <1>1, CommitKeeps
  <1>2. e.kind = "insert" /\ e.row.key # Null =>
          \A x \in Ids : memories[x] # Null => memories[x].key # e.row.key
    BY DEF LedgerInv, KeyFree, HolderOf
  <1>3. OneMemoryPerWriteKey
    BY DEF LedgerInv
  <1> QED BY <1>1, <1>2, <1>3 DEF OneMemoryPerWriteKey

LEMMA CommitLedger ==
  ASSUME StoreInv, LedgerInv, NEW c \in Clients, Commit(c)
  PROVE  LedgerInv'
  <1>1. /\ entry'[c] = Null /\ seen'[c] = Null /\ effect'[c] = NoEffect
        /\ \A d \in Clients \ {c} : /\ cmd'[d] = cmd[d] /\ entry'[d] = entry[d]
                                    /\ effect'[d] = effect[d]
    BY DEF Commit, EndTransaction, StoreInv, TypeOK
  <1>2. (EntryOK(c) /\ SeenKept(c) /\ KeyFree(c))'
    BY <1>1 DEF EntryOK, SeenKept, KeyFree, NoEffect
  <1>3. ASSUME NEW d \in Clients, NEW e \in Clients, d # e PROVE KeysApart(d, e)'
    <2>1. CASE d = c \/ e = c
      BY <1>1, <2>1 DEF KeysApart, NoEffect
    <2>2. CASE d # c /\ e # c
      <3>1. KeysApart(d, e)
        BY <1>3 DEF LedgerInv
      <3> QED BY <1>1, <2>2, <3>1 DEF KeysApart
    <2> QED BY <2>1, <2>2
  <1> QED BY <1>2, <1>3, CommitLedgerOthers, CommitAnswers, CommitWriteKeys DEF LedgerInv

\* LedgerInv is inductive relative to StoreInv.
LEMMA NextLedger == StoreInv /\ LedgerInv /\ [Next]_vars => LedgerInv'
  <1> SUFFICES ASSUME StoreInv, LedgerInv, [Next]_vars PROVE LedgerInv'
    OBVIOUS
  <1>1. CASE UNCHANGED vars
    BY <1>1 DEF LedgerInv, vars, tables, local, EntryOK, SeenKept, KeyFree, HolderOf,
       KeysApart, AnswersKept, NoStuckClaim, OneMemoryPerWriteKey
  <1>2. ASSUME NEW c \in Clients, Begin(c) \/ Step(c) \/ Abort(c) PROVE LedgerInv'
    <2>1. CASE Begin(c) \/ Find(c)  BY <2>1, OpeningLedger
    <2>2. CASE Abort(c) \/ Refind(c) \/ Replay(c)
      BY <2>2, RollbackLedger DEF Abort, Refind, Replay
    <2>3. CASE Insert(c)   BY <2>3, InsertLedger
    <2>4. CASE Claim(c)    BY <2>4, ClaimLedger
    <2>5. CASE Complete(c) BY <2>5, CompleteLedger
    <2>6. CASE Read(c)     BY <2>6, ReadLedger
    <2>7. CASE Write(c) \/ Link(c) \/ Remove(c) \/ Cascade(c)  BY <2>7, WriteLedger
    <2>8. CASE Commit(c)   BY <2>8, CommitLedger
    <2> QED BY <1>2, <2>1, <2>2, <2>3, <2>4, <2>5, <2>6, <2>7, <2>8 DEF Step
  <1> QED BY <1>1, <1>2 DEF Next

\* The invariant of ledger and write keys holds in every reachable state.
THEOREM LedgerInvariant == Spec => []LedgerInv
  <1>1. Init => LedgerInv
    BY DEF Init, LedgerInv, EntryOK, SeenKept, KeyFree, KeysApart, NoEffect,
       AnswersKept, NoStuckClaim, OneMemoryPerWriteKey
  <1> QED BY <1>1, NextLedger, StoreInvariant, PTL DEF Spec

\* However many requests race with one write key, at most one memory has it.
THEOREM WriteKeysUnique == Spec => []OneMemoryPerWriteKey
  <1>1. LedgerInv => OneMemoryPerWriteKey
    BY DEF LedgerInv
  <1> QED BY <1>1, LedgerInvariant, PTL

\* No committed claim is in progress.
THEOREM ClaimsComplete == Spec => []NoStuckClaim
  <1>1. LedgerInv => NoStuckClaim
    BY DEF LedgerInv
  <1> QED BY <1>1, LedgerInvariant, PTL

\* A retry is answered with the memory its first execution returned: the answer
\* is in the history, and the history has one snapshot for its version.
THEOREM ReplaysAreFaithful == Spec => []ReplayFaithful
  <1>1. StoreInv /\ LedgerInv => ReplayFaithful
    <2> SUFFICES ASSUME StoreInv, LedgerInv, NEW o \in LedgerKeys,
                        ledger[o] # Null, ledger[o].answer # Null,
                        memories[ledger[o].id] # Null
                 PROVE  GetVersion(ledger[o].id, ledger[o].version)
                          = {SnapshotOf(ledger[o].id, ledger[o].answer)}
      BY DEF ReplayFaithful
    <2> DEFINE e == ledger[o]
               snap == SnapshotOf(e.id, e.answer)
    <2>1. e.id \in Ids
      BY DEF StoreInv, TypeOK, Entry
    <2>2. snap \in versions /\ snap.id = e.id /\ snap.version = e.version
      BY DEF LedgerInv, AnswersKept, SnapshotOf
    <2>3. /\ SnapshotOf(e.id, memories[e.id]) \in versions
          /\ \A s, t \in versions : s.id = e.id /\ t.id = e.id /\ s.version = t.version => s = t
      BY <2>1 DEF StoreInv, HistoryComplete
    <2>4. /\ SnapshotOf(e.id, memories[e.id]).id = e.id
          /\ SnapshotOf(e.id, memories[e.id]).version = memories[e.id].version
      BY DEF SnapshotOf
    <2> HIDE DEF snap, e
    <2>5. GetVersion(e.id, e.version) = {snap}
      <3>1. CASE memories[e.id].version = e.version
        BY <2>2, <2>3, <2>4, <3>1 DEF GetVersion, e
      <3>2. CASE memories[e.id].version # e.version
        BY <2>2, <2>3, <3>2 DEF GetVersion, e
      <3> QED BY <3>1, <3>2
    <2> QED BY <2>5 DEF snap, e
  <1> QED BY <1>1, StoreInvariant, LedgerInvariant, PTL

\* A step that is no commit leaves the tables as they are.
LEMMA OnlyCommitsWrite ==
  ASSUME [Next]_vars, ~(\E c \in Clients : Commit(c))
  PROVE  UNCHANGED tables
  <1>1. CASE UNCHANGED vars
    BY <1>1 DEF vars
  <1>2. ASSUME NEW c \in Clients, Begin(c) \/ Step(c) \/ Abort(c) PROVE UNCHANGED tables
    BY <1>2 DEF Begin, Step, Abort, Find, Insert, Refind, Claim, Replay, Complete, Read,
                Write, Link, Remove, Cascade, Rollback
  <1> QED BY <1>1, <1>2 DEF Next

\* A completed operation key keeps its outcome: a claim that will be committed
\* found the key free, and no other transaction can take it in the meantime.
THEOREM LedgerIsWriteOnce == Spec => LedgerWriteOnce
  <1>1. ASSUME StoreInv, LedgerInv, [Next]_vars, NEW o \in LedgerKeys, ledger[o] # Null
        PROVE  ledger'[o] = ledger[o]
    <2>1. CASE \E c \in Clients : Commit(c)
      <3>1. PICK c \in Clients : Commit(c)
        BY <2>1
      <3>2. ledger'[o] = IF entry[c] # Null /\ LedgerKey(cmd[c]) = o THEN entry[c] ELSE ledger[o]
        BY <3>1 DEF Commit
      <3>3. entry[c] # Null => ledger[LedgerKey(cmd[c])] = Null
        BY <1>1, <3>1 DEF LedgerInv, EntryOK, Commit
      <3> QED BY <1>1, <3>2, <3>3
    <2>2. CASE ~(\E c \in Clients : Commit(c))
      BY <1>1, <2>2, OnlyCommitsWrite DEF tables
    <2> QED BY <2>1, <2>2
  <1>2. StoreInv /\ LedgerInv /\ [Next]_vars =>
          [\A o \in LedgerKeys : ledger[o] # Null => ledger'[o] = ledger[o]]_vars
    BY <1>1
  <1> QED BY <1>2, StoreInvariant, LedgerInvariant, PTL DEF Spec, LedgerWriteOnce

\* History is append-only: what a commit changes in a memory that survives it is
\* one version and one snapshot more.
THEOREM HistoryGrows == Spec => HistoryAppendOnly
  <1>1. ASSUME StoreInv, [Next]_vars,
               NEW i \in Ids, memories[i] # Null, memories'[i] # Null
        PROVE  /\ {s \in versions : s.id = i} \subseteq versions'
               /\ memories'[i] # memories[i] =>
                    memories'[i].version = memories[i].version + 1
    <2>1. CASE \E c \in Clients : Commit(c)
      BY <1>1, <2>1, CommitKeeps
    <2>2. CASE ~(\E c \in Clients : Commit(c))
      BY <1>1, <2>2, OnlyCommitsWrite DEF tables
    <2> QED BY <2>1, <2>2
  <1>2. StoreInv /\ [Next]_vars =>
          [\A i \in Ids : memories[i] # Null /\ memories'[i] # Null =>
             /\ {s \in versions : s.id = i} \subseteq versions'
             /\ memories'[i] # memories[i] =>
                  memories'[i].version = memories[i].version + 1]_vars
    BY <1>1
  <1> QED BY <1>2, StoreInvariant, PTL DEF Spec, HistoryAppendOnly

------------------------------------------------------------------------------
(* MemoryStore implements AtomicStore *)

\* The operators the abstract store takes from MemoryCommands are those of the
\* detailed one: the refinement mapping substitutes no constant.
LEMMA AtomicOperators ==
  /\ \A content, state, key : Atomic!Create(content, state, key) = Create(content, state, key)
  /\ \A i, row : Atomic!SnapshotOf(i, row) = SnapshotOf(i, row)
  /\ \A row, content, state : Atomic!Evolve(row, content, state) = Evolve(row, content, state)
  /\ \A k, row : Atomic!Target(k, row) = Target(k, row)
  /\ \A k, row : Atomic!NewContent(k, row) = NewContent(k, row)
  /\ \A k, row : Atomic!Permits(k, row) <=> Permits(k, row)
  /\ \A k : Atomic!LedgerKey(k) = LedgerKey(k)
  /\ \A k : Atomic!Fingerprint(k) = Fingerprint(k)
  /\ Atomic!LedgerKeys = LedgerKeys
  <1>1. /\ \A content, state, key : Atomic!Create(content, state, key) = Create(content, state, key)
        /\ \A i, row : Atomic!SnapshotOf(i, row) = SnapshotOf(i, row)
        /\ \A row, content, state : Atomic!Evolve(row, content, state) = Evolve(row, content, state)
    BY DEF Atomic!Create, Create, Atomic!SnapshotOf, SnapshotOf, Atomic!Evolve, Evolve
  <1>2. /\ \A k, row : Atomic!Target(k, row) = Target(k, row)
        /\ \A k, row : Atomic!NewContent(k, row) = NewContent(k, row)
    BY DEF Atomic!Target, Target, Atomic!NewContent, NewContent, Atomic!LinkedState, LinkedState
  <1>3. \A from, target, related :
          Atomic!AssertTransition(from, target, related) <=> AssertTransition(from, target, related)
    BY DEF Atomic!AssertTransition, AssertTransition, Atomic!Allowed, Allowed
  <1>4. \A k, row : Atomic!Permits(k, row) <=> Permits(k, row)
    BY <1>2, <1>3 DEF Atomic!Permits, Permits
  <1>5. /\ \A k : Atomic!LedgerKey(k) = LedgerKey(k)
        /\ \A k : Atomic!Fingerprint(k) = Fingerprint(k)
        /\ Atomic!LedgerKeys = LedgerKeys
    BY DEF Atomic!LedgerKey, LedgerKey, Atomic!Fingerprint, Fingerprint,
           Atomic!LedgerKeys, LedgerKeys, Atomic!LedgerOps, LedgerOps
  <1> QED BY <1>1, <1>2, <1>4, <1>5

\* A step that leaves the tables and the other transactions alone keeps
\* RefinementInv if it keeps the parts about its own client.
LEMMA RefinementFrame ==
  ASSUME RefinementInv, NEW c \in Clients, UNCHANGED tables, Others(c),
         SentOK(c)', EvolvesOK(c)', WritesOK(c)', OutcomeOK(c)',
         \A d \in Clients \ {c} : NamesApart(c, d)' /\ NamesApart(d, c)'
  PROVE  RefinementInv'
  <1>1. ASSUME NEW d \in Clients \ {c}
        PROVE  (SentOK(d) /\ EvolvesOK(d) /\ WritesOK(d) /\ OutcomeOK(d))'
    <2>1. SentOK(d) /\ EvolvesOK(d) /\ WritesOK(d) /\ OutcomeOK(d)
      BY DEF RefinementInv
    <2>2. SentOK(d)'
      BY <2>1 DEF SentOK, Others
    <2>3. EvolvesOK(d)'
      BY <2>1 DEF EvolvesOK, Others, tables
    <2>4. WritesOK(d)'
      BY <2>1 DEF WritesOK, Others, tables
    <2>5. OutcomeOK(d)'
      BY <2>1 DEF OutcomeOK, Outcome, Others
    <2> QED BY <2>2, <2>3, <2>4, <2>5
  <1>2. ASSUME NEW d \in Clients \ {c}, NEW e \in Clients \ {c}, d # e
        PROVE  NamesApart(d, e)'
    <2>1. NamesApart(d, e)
      BY <1>2 DEF RefinementInv
    <2> QED BY <2>1 DEF NamesApart, Others
  <1> QED BY <1>1, <1>2 DEF RefinementInv

\* A transaction that has read, written and claimed nothing owes only its name.
LEMMA RefinementIdle ==
  ASSUME RefinementInv, NEW c \in Clients, UNCHANGED tables, Others(c),
         entry'[c] = Null, seen'[c] = Null, effect'[c] = NoEffect,
         pc'[c] \notin {"write", "complete", "commit"}, SentOK(c)',
         \A d \in Clients \ {c} : cmd'[c] # Null /\ cmd'[d] # Null
           /\ (cmd'[c].op = "write" \/ cmd'[d].op = "write") => cmd'[c].id # cmd'[d].id
  PROVE  RefinementInv'
  <1>1. EvolvesOK(c)' /\ WritesOK(c)' /\ OutcomeOK(c)'
    BY DEF EvolvesOK, WritesOK, OutcomeOK, NoEffect
  <1>2. \A d \in Clients \ {c} : NamesApart(c, d)' /\ NamesApart(d, c)'
    BY DEF NamesApart, NoEffect
  <1> QED BY <1>1, <1>2, RefinementFrame

LEMMA RollbackRefinement ==
  ASSUME StoreInv, RefinementInv, NEW c \in Clients, Rollback(c)
  PROVE  RefinementInv'
  <1>1. /\ Others(c) /\ UNCHANGED tables /\ pc'[c] = "idle" /\ cmd'[c] = Null
        /\ entry'[c] = Null /\ seen'[c] = Null /\ effect'[c] = NoEffect
    BY DEF Rollback, EndTransaction, Others, StoreInv, TypeOK
  <1>2. SentOK(c)'
    BY <1>1 DEF SentOK
  <1> QED BY <1>1, <1>2, RefinementIdle

\* A new write has a fresh identifier, and no other request may name it.
LEMMA BeginRefinement ==
  ASSUME StoreInv, RefinementInv, NEW c \in Clients, Begin(c)
  PROVE  RefinementInv'
  <1>1. PICK k \in Commands :
          /\ \/ k.op # "write" /\ ~Unrevealed(k.id) /\ cmd' = [cmd EXCEPT ![c] = k]
             \/ /\ k.op = "write"
                /\ \E i \in Ids : /\ FreshId(i)
                                  /\ cmd' = [cmd EXCEPT ![c] = [k EXCEPT !.id = i]]
          /\ Goto(c, FirstStep(k))
    BY DEF Begin
  <1>2. k \in Command
    BY StoreAssumption
  <1>3. /\ pc[c] = "idle" /\ entry[c] = Null /\ seen[c] = Null /\ effect[c] = NoEffect
    BY DEF Begin, StoreInv, ControlOK, SeenOK
  <1>4. /\ Others(c) /\ UNCHANGED tables /\ pc'[c] \notin {"write", "complete", "commit"}
        /\ seen'[c] = Null /\ effect'[c] = NoEffect /\ entry'[c] = Null
    BY <1>1, <1>3 DEF Begin, Goto, FirstStep, Others, StoreInv, TypeOK
  <1>5. SentOK(c)'
    <2>1. CASE k.op # "write"
      BY <1>1, <2>1 DEF SentOK, StoreInv, TypeOK
    <2>2. CASE k.op = "write"
      <3>1. /\ cmd'[c].op = "write" /\ cmd'[c].content = k.content
            /\ cmd'[c].state = k.state /\ cmd'[c].key = k.key
        BY <1>1, <1>2, <2>2 DEF StoreInv, TypeOK, Command
      <3> QED BY <2>2, <3>1 DEF SentOK
    <2> QED BY <2>1, <2>2
  <1>6. ASSUME NEW d \in Clients \ {c}, cmd'[d] # Null,
               cmd'[c].op = "write" \/ cmd'[d].op = "write"
        PROVE  cmd'[c].id # cmd'[d].id
    <2>1. cmd'[d] = cmd[d]
      BY <1>4 DEF Others
    <2>2. CASE k.op # "write"
      <3>1. cmd'[c] = k /\ ~Unrevealed(k.id)
        BY <1>1, <2>2 DEF StoreInv, TypeOK
      <3> QED BY <1>6, <2>1, <2>2, <3>1 DEF Unrevealed
    <2>3. CASE k.op = "write"
      <3>1. FreshId(cmd'[c].id)
        BY <1>1, <1>2, <2>3 DEF StoreInv, TypeOK, Command
      <3> QED BY <1>6, <2>1, <3>1 DEF FreshId
    <2> QED BY <2>2, <2>3
  <1> QED BY <1>4, <1>5, <1>6, RefinementIdle

LEMMA FindRefinement ==
  ASSUME StoreInv, RefinementInv, NEW c \in Clients, Find(c)
  PROVE  RefinementInv'
  <1>1. CASE Rollback(c)
    BY <1>1, RollbackRefinement
  <1>2. CASE ~Rollback(c)
    <2>1. /\ pc[c] = "find" /\ UNCHANGED <<tables, cmd, seen, effect, entry>> /\ Others(c)
          /\ pc'[c] = "insert"
      BY <1>2 DEF Find, Goto, Others, StoreInv, TypeOK
    <2>2. /\ entry[c] = Null /\ seen[c] = Null /\ effect[c] = NoEffect /\ cmd[c] # Null
      BY <2>1, StoreAssumption DEF StoreInv, ControlOK, SeenOK, LedgerOps
    <2>3. SentOK(c)'
      BY <2>1 DEF SentOK, RefinementInv
    <2>4. \A d \in Clients \ {c} : NamesApart(c, d) /\ NamesApart(d, c)
      BY DEF RefinementInv
    <2> QED BY <2>1, <2>2, <2>3, <2>4, RefinementIdle DEF NamesApart
  <1> QED BY <1>1, <1>2

\* Only update and relate have a relation to add.
LEMMA NoNewRelations ==
  ASSUME NEW k \in Command, WellFormed(k), k.op \notin {"update", "relate"} \/ k.rel = Null
  PROVE  Atomic!NewRelations(k) = {}
  BY DEF Atomic!NewRelations, WellFormed

LEMMA InsertRefinement ==
  ASSUME StoreInv, RefinementInv, NEW c \in Clients, Insert(c)
  PROVE  RefinementInv'
  <1> DEFINE k == cmd[c]
             row == Create(k.content, k.state, k.key)
  <1>1. /\ UNCHANGED <<tables, cmd, seen, entry>> /\ Others(c) /\ pc[c] = "insert"
        /\ entry[c] = Null /\ seen[c] = Null /\ effect[c] = NoEffect
        /\ k \in Command /\ WellFormed(k) /\ k.op = "write" /\ k # Null
    BY StoreAssumption
    DEF Insert, Goto, Others, StoreInv, TypeOK, ControlOK, SeenOK, LedgerOps
  <1>2. SentOK(c)'
    BY <1>1 DEF SentOK, RefinementInv
  <1>3. \A d \in Clients \ {c} : NamesApart(c, d) /\ NamesApart(d, c)
    BY DEF RefinementInv
  <1>4. CASE UNCHANGED effect
    <2>1. pc'[c] = "refind"
      BY <1>1, <1>4 DEF Insert, Goto, StoreInv, TypeOK, NoEffect
    <2> QED BY <1>1, <1>2, <1>3, <1>4, <2>1, RefinementIdle DEF NamesApart
  <1>5. CASE effect' # effect
    <2>1. /\ pc'[c] = "commit" /\ effect'[c].kind = "insert" /\ effect'[c].row = row
          /\ effect'[c].rels = {}
      BY <1>5 DEF Insert, Goto, StoreInv, TypeOK
    <2>2. Atomic!NewRelations(k) = {}
      BY <1>1, NoNewRelations
    <2>3. EvolvesOK(c)'
      BY <1>1, <2>1 DEF EvolvesOK
    <2>4. WritesOK(c)'
      <3>1. cmd'[c] = k
        BY <1>1
      <3> QED BY <1>1, <2>1, <2>2, <3>1 DEF WritesOK
    <2>5. OutcomeOK(c)'
      BY <1>1, <2>1 DEF OutcomeOK, LedgerOps
    <2>6. \A d \in Clients \ {c} : NamesApart(c, d)' /\ NamesApart(d, c)'
      BY <1>1, <1>3, <2>1 DEF NamesApart, Others
    <2> QED BY <1>1, <1>2, <2>3, <2>4, <2>5, <2>6, RefinementFrame
  <1> QED BY <1>4, <1>5

LEMMA ClaimRefinement ==
  ASSUME StoreInv, RefinementInv, NEW c \in Clients, Claim(c)
  PROVE  RefinementInv'
  <1> DEFINE k == cmd[c]
  <1>1. CASE Rollback(c)
    BY <1>1, RollbackRefinement
  <1>2. CASE ~Rollback(c)
    <2>1. /\ UNCHANGED <<tables, cmd, seen, effect>> /\ Others(c)
          /\ pc[c] = "claim" /\ effect[c] = NoEffect
          /\ \/ entry'[c] = InProgress(k) /\ pc'[c] \in {"remove", "read"}
             \/ pc'[c] = "replay"
      BY <1>2 DEF Claim, Goto, Others, StoreInv, TypeOK, ControlOK
    <2>2. SentOK(c) /\ EvolvesOK(c) /\ \A d \in Clients \ {c} : NamesApart(c, d) /\ NamesApart(d, c)
      BY DEF RefinementInv
    <2>3. SentOK(c)' /\ EvolvesOK(c)'
      BY <2>1, <2>2 DEF SentOK, EvolvesOK, NoEffect
    <2>4. WritesOK(c)' /\ OutcomeOK(c)'
      BY <2>1 DEF WritesOK, OutcomeOK, NoEffect
    <2>5. \A d \in Clients \ {c} : NamesApart(c, d)' /\ NamesApart(d, c)'
      BY <2>1, <2>2 DEF NamesApart, Others
    <2> QED BY <2>1, <2>3, <2>4, <2>5, RefinementFrame
  <1> QED BY <1>1, <1>2

\* complete() turns the claim into the row the abstract store records.
LEMMA CompleteRefinement ==
  ASSUME StoreInv, RefinementInv, NEW c \in Clients, Complete(c)
  PROVE  RefinementInv'
  <1> DEFINE k == cmd[c]
             returned == IF effect[c].kind = "update" THEN effect[c].row ELSE seen[c]
  <1>1. /\ UNCHANGED <<tables, cmd, seen, effect>> /\ Others(c)
        /\ pc[c] = "complete" /\ pc'[c] = "commit"
    BY DEF Complete, Goto, Others, StoreInv, TypeOK
  <1>2. SentOK(c) /\ EvolvesOK(c) /\ WritesOK(c) /\ OutcomeOK(c)
        /\ \A d \in Clients \ {c} : NamesApart(c, d) /\ NamesApart(d, c)
    BY DEF RefinementInv
  <1>3. entry[c] # Null /\ entry[c] \in Entry
    BY <1>1 DEF StoreInv, TypeOK, ControlOK
  <1>4. entry[c] = InProgress(k)
    BY <1>1, <1>2, <1>3 DEF OutcomeOK
  <1>5. entry'[c] = Outcome(c)
    <2> DEFINE x == entry'[c]
    <2>1. /\ x = [print |-> x.print, status |-> x.status, id |-> x.id,
                  version |-> x.version, result |-> x.result, answer |-> x.answer]
          /\ Atomic!Fingerprint(k) = Fingerprint(k)
      BY CompleteEntry, AtomicOperators DEF Entry
    <2>2. /\ entry[c].print = Fingerprint(k) /\ entry[c].id = k.id
          /\ entry[c].version = 0 /\ entry[c].answer = Null
      BY <1>4 DEF InProgress
    <2>3. /\ x.print = entry[c].print /\ x.id = entry[c].id /\ x.status = "completed"
          /\ k.op \in {"forget", "discard"} =>
               /\ x.version = entry[c].version /\ x.answer = entry[c].answer
               /\ x.result = IF effect[c].kind = "delete" THEN "forgotten" ELSE "already_absent"
          /\ k.op \notin {"forget", "discard"} =>
               /\ x.version = returned.version /\ x.answer = returned
               /\ x.result = "updated"
      BY <1>3 DEF Complete, StoreInv, TypeOK, Entry
    <2> HIDE DEF x
    <2>4. x = Outcome(c)
      BY <2>1, <2>2, <2>3 DEF Outcome, Atomic!Completed
    <2> QED BY <2>4 DEF x
  <1>6. OutcomeOK(c)'
    <2>1. Outcome(c)' = Outcome(c)
      BY <1>1 DEF Outcome
    <2>2. entry'[c] # Null
      BY CompleteEntry, StoreAssumption
    <2> QED BY <1>1, <1>5, <2>1, <2>2 DEF OutcomeOK
  <1>7. SentOK(c)' /\ EvolvesOK(c)'
    BY <1>1, <1>2 DEF SentOK, EvolvesOK, tables
  <1>8. WritesOK(c)'
    BY <1>1, <1>2 DEF WritesOK, tables
  <1>9. \A d \in Clients \ {c} : NamesApart(c, d)' /\ NamesApart(d, c)'
    BY <1>1, <1>2 DEF NamesApart, Others
  <1> QED BY <1>1, <1>6, <1>7, <1>8, <1>9, RefinementFrame

\* What was read is what the command permits.
LEMMA ReadRefinement ==
  ASSUME StoreInv, RefinementInv, NEW c \in Clients, Read(c)
  PROVE  RefinementInv'
  <1> DEFINE k == cmd[c]
             row == memories[k.id]
  <1>1. CASE Rollback(c)
    BY <1>1, RollbackRefinement
  <1>2. CASE ~Rollback(c)
    <2>1. /\ UNCHANGED <<tables, cmd, effect, entry>> /\ Others(c)
          /\ pc[c] = "read" /\ effect[c] = NoEffect
          /\ seen'[c] = row /\ row # Null /\ Permits(k, row)
          /\ pc'[c] = AfterRead(k, row)
      BY <1>2 DEF Read, Goto, Others, StoreInv, TypeOK, ControlOK, Accepts, Permits
    <2>2. /\ k \in Command /\ WellFormed(k)
          /\ SentOK(c) /\ OutcomeOK(c)
          /\ \A d \in Clients \ {c} : NamesApart(c, d) /\ NamesApart(d, c)
      BY <2>1 DEF RefinementInv, StoreInv, ControlOK
    <2>3. /\ pc'[c] \in {"remove", "link", "complete", "write"}
          /\ pc'[c] = "complete" => k.op = "pin" /\ row.state = k.state
          /\ pc'[c] = "write" /\ k.op = "pin" => row.state # k.state
      BY <2>1 DEF AfterRead
    <2>4. SentOK(c)' /\ EvolvesOK(c)'
      BY <2>1, <2>2, <2>3 DEF SentOK, EvolvesOK, NoEffect
    <2>5. WritesOK(c)'
      <3>1. k.op = "pin" => Atomic!NewRelations(k) = {}
        BY <2>2, NoNewRelations
      <3> QED BY <2>1, <2>3, <3>1 DEF WritesOK, NoEffect
    <2>6. OutcomeOK(c)'
      BY <2>1, <2>2, <2>3 DEF OutcomeOK
    <2>7. \A d \in Clients \ {c} : NamesApart(c, d)' /\ NamesApart(d, c)'
      BY <2>1, <2>2 DEF NamesApart, Others
    <2> QED BY <2>1, <2>4, <2>5, <2>6, <2>7, RefinementFrame
  <1> QED BY <1>1, <1>2

\* The row that is there is the one the new one was evolved from.
LEMMA WriteRefinement ==
  ASSUME StoreInv, RefinementInv, NEW c \in Clients, Write(c)
  PROVE  RefinementInv'
  <1> DEFINE k == cmd[c]
             row == Updated(memories[k.id],
                            Evolve(seen[c], NewContent(k, seen[c]), Target(k, seen[c])))
  <1>1. CASE Rollback(c)
    BY <1>1, RollbackRefinement
  <1>2. CASE ~Rollback(c)
    <2>1. /\ UNCHANGED <<tables, cmd, seen, entry>> /\ Others(c) /\ Swappable(k)
          /\ pc[c] = "write" /\ effect'[c].kind = "update" /\ effect'[c].row = row
          /\ effect'[c].rels = {}
          /\ pc'[c] = IF k.rel # Null THEN "link" ELSE AfterWrite(k)
      BY <1>2 DEF Write, Goto, Others, StoreInv, TypeOK
    <2>2. /\ k \in Command /\ WellFormed(k) /\ k # Null /\ seen[c] # Null
          /\ k.op \in {"update", "confirm", "pin"}
          /\ k.key # Null => entry[c] # Null
          /\ entry[c] # Null => k.key # Null
          /\ SentOK(c) /\ EvolvesOK(c) /\ OutcomeOK(c)
          /\ \A d \in Clients \ {c} : NamesApart(c, d) /\ NamesApart(d, c)
      BY <2>1, StoreAssumption DEF RefinementInv, StoreInv, ControlOK
    <2>3. memories[k.id] = seen[c]
      BY <2>1, <2>2 DEF Swappable, StoreInv, SeenOK
    <2>4. SentOK(c)'
      BY <2>1, <2>2 DEF SentOK
    <2>5. EvolvesOK(c)'
      <3>1. /\ cmd'[c] = k /\ seen'[c] = seen[c] /\ memories' = memories /\ pc'[c] # "write"
        BY <2>1 DEF tables, AfterWrite
      <3>2. row = Evolve(seen[c], NewContent(k, seen[c]), Target(k, seen[c]))
        BY <2>3, UpdatedRow
      <3> HIDE DEF row
      <3> QED BY <2>1, <2>2, <2>3, <3>1, <3>2 DEF EvolvesOK
    <2> HIDE DEF row
    <2>6. WritesOK(c)'
      <3>1. k.rel = Null => Atomic!NewRelations(k) = {}
        BY <2>2, NoNewRelations
      <3>2. pc'[c] \in {"complete", "commit"} => k.rel = Null
        BY <2>1
      <3> QED BY <2>1, <2>2, <3>1, <3>2 DEF WritesOK
    <2>7. OutcomeOK(c)'
      BY <2>1, <2>2 DEF OutcomeOK, AfterWrite
    <2>8. \A d \in Clients \ {c} : NamesApart(c, d)' /\ NamesApart(d, c)'
      BY <2>1, <2>2 DEF NamesApart, Others
    <2> QED BY <2>1, <2>4, <2>5, <2>6, <2>7, <2>8, RefinementFrame
  <1> QED BY <1>1, <1>2

\* The relation is new to the table and to the other open transactions.
LEMMA LinkRefinement ==
  ASSUME StoreInv, RefinementInv, NEW c \in Clients, Link(c)
  PROVE  RefinementInv'
  <1> DEFINE k == cmd[c]
             r == [source |-> k.id, target |-> k.other, type |-> k.rel]
  <1>1. CASE Rollback(c)
    BY <1>1, RollbackRefinement
  <1>2. CASE ~Rollback(c)
    <2>1. /\ UNCHANGED <<tables, cmd, seen, entry>> /\ Others(c) /\ CanLink(c, r)
          /\ pc[c] = "link" /\ pc'[c] = AfterWrite(k) /\ r \notin relations
          /\ effect'[c] = [effect[c] EXCEPT !.rels = {r}]
      BY <1>2 DEF Link, Goto, Others, StoreInv, TypeOK
    <2>2. /\ k \in Command /\ WellFormed(k) /\ k # Null /\ k.rel # Null
          /\ \/ k.op = "update" /\ effect[c].kind = "update"
             \/ k.op = "relate" /\ effect[c].kind = "none"
          /\ k.key # Null => entry[c] # Null
          /\ entry[c] # Null => k.key # Null
          /\ SentOK(c) /\ EvolvesOK(c) /\ OutcomeOK(c)
          /\ \A d \in Clients \ {c} : NamesApart(c, d) /\ NamesApart(d, c)
      BY <2>1, StoreAssumption DEF RefinementInv, StoreInv, ControlOK, WellFormed
    <2>3. /\ effect'[c].rels = {r} /\ effect'[c].kind = effect[c].kind
          /\ effect'[c].row = effect[c].row
      BY <2>1 DEF StoreInv, TypeOK, Effect
    <2>4. SentOK(c)' /\ EvolvesOK(c)'
      BY <2>1, <2>2, <2>3 DEF SentOK, EvolvesOK, tables, AfterWrite
    <2>5. WritesOK(c)'
      <3>1. Atomic!NewRelations(k) = {r}
        BY <2>2 DEF Atomic!NewRelations
      <3> HIDE DEF r
      <3> QED BY <2>1, <2>2, <2>3, <3>1 DEF WritesOK, tables
    <2>6. OutcomeOK(c)'
      BY <2>1, <2>2 DEF OutcomeOK, AfterWrite
    <2>7. \A d \in Clients \ {c} : NamesApart(c, d)' /\ NamesApart(d, c)'
      <3>1. \A d \in Clients \ {c} : r \notin effect[d].rels
        BY <2>1 DEF CanLink
      <3> HIDE DEF r
      <3> QED BY <2>1, <2>2, <2>3, <3>1 DEF NamesApart, Others
    <2> QED BY <2>1, <2>4, <2>5, <2>6, <2>7, RefinementFrame
  <1> QED BY <1>1, <1>2

LEMMA RemoveRefinement ==
  ASSUME StoreInv, RefinementInv, NEW c \in Clients, Remove(c)
  PROVE  RefinementInv'
  <1> DEFINE k == cmd[c]
  <1>1. /\ UNCHANGED <<tables, cmd, seen, entry>> /\ Others(c)
        /\ pc[c] = "remove" /\ pc'[c] \in {"sources", AfterWrite(k)} /\ effect[c] = NoEffect
        /\ effect'[c].rels = {}
        /\ \/ effect'[c].kind = "delete"
           \/ effect'[c].kind = "none" /\ memories[k.id] = Null
    BY DEF Remove, Goto, Others, StoreInv, TypeOK, ControlOK, NoEffect
  <1>2. /\ k \in Command /\ WellFormed(k) /\ k # Null /\ k.op \in {"forget", "discard"}
        /\ k.key # Null => entry[c] # Null
        /\ entry[c] # Null => k.key # Null
        /\ SentOK(c) /\ EvolvesOK(c) /\ OutcomeOK(c)
        /\ \A d \in Clients \ {c} : NamesApart(c, d) /\ NamesApart(d, c)
    BY <1>1, StoreAssumption DEF RefinementInv, StoreInv, ControlOK
  <1>3. SentOK(c)' /\ EvolvesOK(c)'
    BY <1>1, <1>2 DEF SentOK, EvolvesOK, AfterWrite
  <1>4. WritesOK(c)'
    <2>1. Atomic!NewRelations(k) = {}
      BY <1>2, NoNewRelations
    <2> QED BY <1>1, <1>2, <2>1 DEF WritesOK, tables
  <1>5. OutcomeOK(c)'
    BY <1>1, <1>2 DEF OutcomeOK, AfterWrite
  <1>6. \A d \in Clients \ {c} : NamesApart(c, d)' /\ NamesApart(d, c)'
    BY <1>1, <1>2 DEF NamesApart, Others
  <1> QED BY <1>1, <1>3, <1>4, <1>5, <1>6, RefinementFrame

LEMMA CascadeRefinement ==
  ASSUME StoreInv, RefinementInv, NEW c \in Clients, Cascade(c)
  PROVE  RefinementInv'
  <1> DEFINE k == cmd[c]
  <1>1. /\ UNCHANGED <<tables, cmd, seen, effect, entry>> /\ Others(c)
        /\ pc[c] \in {"sources", "targets"} /\ pc'[c] \in {"targets", AfterWrite(k)}
    BY DEF Cascade, Goto, Others, StoreInv, TypeOK
  <1>2. /\ k \in Command /\ WellFormed(k) /\ k # Null /\ k.op \in {"forget", "discard"}
        /\ effect[c].kind = "delete" /\ effect[c].rels = {}
        /\ k.key # Null => entry[c] # Null
        /\ entry[c] # Null => k.key # Null
        /\ SentOK(c) /\ EvolvesOK(c) /\ OutcomeOK(c)
        /\ \A d \in Clients \ {c} : NamesApart(c, d) /\ NamesApart(d, c)
    BY <1>1, StoreAssumption DEF RefinementInv, StoreInv, ControlOK, PendingOK
  <1>3. SentOK(c)' /\ EvolvesOK(c)'
    BY <1>1, <1>2 DEF SentOK, EvolvesOK, AfterWrite
  <1>4. WritesOK(c)'
    <2>1. Atomic!NewRelations(k) = {}
      BY <1>2, NoNewRelations
    <2> QED BY <1>1, <1>2, <2>1 DEF WritesOK, tables
  <1>5. OutcomeOK(c)'
    BY <1>1, <1>2 DEF OutcomeOK, AfterWrite
  <1>6. \A d \in Clients \ {c} : NamesApart(c, d)' /\ NamesApart(d, c)'
    BY <1>1, <1>2 DEF NamesApart, Others
  <1> QED BY <1>1, <1>3, <1>4, <1>5, <1>6, RefinementFrame

\* A commit leaves the row another transaction evolved, the absence it saw under
\* its lock, and the relations it will add as they were.
LEMMA CommitRefinement ==
  ASSUME StoreInv, RefinementInv, NEW c \in Clients, Commit(c)
  PROVE  RefinementInv'
  <1> DEFINE e == effect[c]
  <1>1. /\ pc'[c] = "idle" /\ cmd'[c] = Null /\ seen'[c] = Null
        /\ effect'[c] = NoEffect /\ entry'[c] = Null /\ Others(c)
    BY DEF Commit, EndTransaction, Others, StoreInv, TypeOK
  <1>2. SentOK(c)' /\ EvolvesOK(c)' /\ WritesOK(c)' /\ OutcomeOK(c)'
    BY <1>1 DEF SentOK, EvolvesOK, WritesOK, OutcomeOK, NoEffect
  <1>3. ASSUME NEW d \in Clients, NEW f \in Clients, d # f PROVE NamesApart(d, f)'
    <2>1. NamesApart(d, f)
      BY <1>3 DEF RefinementInv
    <2> QED BY <1>1, <2>1 DEF NamesApart, Others, NoEffect
  <1>4. ASSUME NEW d \in Clients \ {c}
        PROVE  (SentOK(d) /\ EvolvesOK(d) /\ WritesOK(d) /\ OutcomeOK(d))'
    <2> DEFINE k == cmd[d]
    <2>1. /\ pc'[d] = pc[d] /\ cmd'[d] = cmd[d] /\ seen'[d] = seen[d]
          /\ effect'[d] = effect[d] /\ entry'[d] = entry[d]
      BY <1>1 DEF Others
    <2>2. /\ SentOK(d) /\ EvolvesOK(d) /\ WritesOK(d) /\ OutcomeOK(d) /\ NamesApart(c, d)
          /\ ControlOK(d) /\ PendingOK(c) /\ PendingOK(d) /\ Apart(c, d) /\ e \in Effect
      BY DEF RefinementInv, StoreInv, TypeOK
    <2>3. SentOK(d)' /\ OutcomeOK(d)'
      BY <2>1, <2>2 DEF SentOK, OutcomeOK, Outcome
    <2>4. EvolvesOK(d)'
      <3>1. effect[d].kind = "update" => /\ k.id \in Ids /\ ~Writes(c, k.id)
        BY <2>2 DEF PendingOK, Apart, Writes
      <3>2. effect[d].kind = "update" => memories'[k.id] = memories[k.id]
        BY <3>1, CommitTables
      <3> QED BY <2>1, <2>2, <3>2 DEF EvolvesOK
    <2>5. WritesOK(d)'
      <3>1. effect[d].rels \cap relations' = {}
        <4>1. relations' \subseteq relations \cup e.rels
          BY DEF Commit
        <4> QED BY <2>2, <4>1 DEF WritesOK, NamesApart
      <3>2. ASSUME pc[d] \in {"complete", "commit"}, memories[k.id] = Null, k.op # "write"
            PROVE  memories'[k.id] = Null
        <4>1. k.id \in Ids /\ k # Null
          BY <2>2, <3>2, StoreAssumption DEF ControlOK
        <4>2. ~Writes(c, k.id)
          <5>1. e.kind = "insert" => e.id # k.id
            BY <2>2, <4>1 DEF PendingOK, NamesApart
          <5>2. e.kind \in {"update", "delete"} => e.id # k.id
            BY <2>2, <3>2 DEF PendingOK
          <5> QED BY <2>2, <5>1, <5>2 DEF Writes, Effect
        <4> QED BY <3>2, <4>1, <4>2, CommitTables
      <3> QED BY <2>1, <2>2, <3>1, <3>2 DEF WritesOK
    <2> QED BY <2>3, <2>4, <2>5
  <1> QED BY <1>2, <1>3, <1>4 DEF RefinementInv

\* RefinementInv is inductive relative to StoreInv.
LEMMA NextRefinement == StoreInv /\ RefinementInv /\ [Next]_vars => RefinementInv'
  <1> SUFFICES ASSUME StoreInv, RefinementInv, [Next]_vars PROVE RefinementInv'
    OBVIOUS
  <1>1. CASE UNCHANGED vars
    <2>1. ASSUME NEW c \in Clients
          PROVE  (SentOK(c) /\ EvolvesOK(c) /\ WritesOK(c) /\ OutcomeOK(c))'
      <3>1. SentOK(c) /\ EvolvesOK(c) /\ WritesOK(c) /\ OutcomeOK(c)
        BY DEF RefinementInv
      <3> QED BY <1>1, <3>1 DEF vars, tables, local, SentOK, EvolvesOK, WritesOK,
                                OutcomeOK, Outcome
    <2>2. \A c, d \in Clients : c # d => NamesApart(c, d)'
      BY <1>1 DEF RefinementInv, NamesApart, vars, local
    <2> QED BY <2>1, <2>2 DEF RefinementInv
  <1>2. ASSUME NEW c \in Clients, Begin(c) \/ Step(c) \/ Abort(c) PROVE RefinementInv'
    <2>1. CASE Begin(c)    BY <2>1, BeginRefinement
    <2>2. CASE Abort(c) \/ Refind(c) \/ Replay(c)
      BY <2>2, RollbackRefinement DEF Abort, Refind, Replay
    <2>3. CASE Find(c)     BY <2>3, FindRefinement
    <2>4. CASE Insert(c)   BY <2>4, InsertRefinement
    <2>5. CASE Claim(c)    BY <2>5, ClaimRefinement
    <2>6. CASE Complete(c) BY <2>6, CompleteRefinement
    <2>7. CASE Read(c)     BY <2>7, ReadRefinement
    <2>8. CASE Write(c)    BY <2>8, WriteRefinement
    <2>9. CASE Link(c)     BY <2>9, LinkRefinement
    <2>10. CASE Remove(c)  BY <2>10, RemoveRefinement
    <2>11. CASE Cascade(c) BY <2>11, CascadeRefinement
    <2>12. CASE Commit(c)  BY <2>12, CommitRefinement
    <2> QED BY <1>2, <2>1, <2>2, <2>3, <2>4, <2>5, <2>6, <2>7, <2>8, <2>9, <2>10,
               <2>11, <2>12 DEF Step
  <1> QED BY <1>1, <1>2 DEF Next

\* Every open transaction is, at each of its statements, as far as an atomic
\* execution of its command would have to be.
THEOREM RefinementInvariant == Spec => []RefinementInv
  <1>1. Init => RefinementInv
    BY DEF Init, RefinementInv, SentOK, EvolvesOK, WritesOK, OutcomeOK, NamesApart, NoEffect
  <1> QED BY <1>1, NextRefinement, StoreInvariant, PTL DEF Spec

\* The memories and the relations a commit leaves, by the kind of its write.
LEMMA CommitRows ==
  ASSUME StoreInv, NEW c \in Clients, Commit(c)
  PROVE  LET e == effect[c] IN
         /\ e.kind = "none" => memories' = memories
         /\ e.kind # "none" => memories' = [memories EXCEPT ![e.id] = e.row]
         /\ e.kind # "delete" => relations' = relations \cup e.rels
         /\ e.kind # "delete" /\ e.rels = {} => relations' = relations
         /\ e.kind = "delete" =>
              relations' = {r \in relations : e.id \notin {r.source, r.target}}
  <1> DEFINE e == effect[c]
  <1>1. /\ memories \in [Ids -> Row \cup {Null}]
        /\ e.kind # "none" => e.id \in Ids
        /\ e.kind = "delete" => e.rels = {}
    BY DEF StoreInv, TypeOK, PendingOK
  <1>2. memories' = [i \in Ids |-> IF Writes(c, i) THEN e.row ELSE memories[i]]
    BY DEF Commit
  <1>3. e.kind = "none" => memories' = memories
    BY <1>1, <1>2 DEF Writes
  <1>4. e.kind # "none" => memories' = [memories EXCEPT ![e.id] = e.row]
    BY <1>1, <1>2 DEF Writes
  <1>5. relations' = {r \in relations : ~Deletes(c, r.source) /\ ~Deletes(c, r.target)} \cup e.rels
    BY DEF Commit
  <1>6. /\ e.kind # "delete" => relations' = relations \cup e.rels
        /\ e.kind = "delete" =>
             relations' = {r \in relations : e.id \notin {r.source, r.target}}
    BY <1>1, <1>5 DEF Deletes
  <1>7. e.kind # "delete" /\ e.rels = {} => relations' = relations
    BY <1>6
  <1> QED BY <1>3, <1>4, <1>6, <1>7

\* A commit records the outcome of its command if and only if the command has
\* an operation key, and that key was free.
LEMMA CommitRecord ==
  ASSUME StoreInv, LedgerInv, RefinementInv, NEW c \in Clients, Commit(c),
         cmd[c].op \in LedgerOps
  PROVE  /\ Atomic!Unclaimed(cmd[c])
         /\ ledger' = IF cmd[c].key = Null THEN ledger
                      ELSE [ledger EXCEPT ![LedgerKey(cmd[c])] = Outcome(c)]
  <1> DEFINE k == cmd[c]
  <1>1. /\ pc[c] = "commit" /\ ControlOK(c) /\ EntryOK(c) /\ OutcomeOK(c)
        /\ ledger \in [LedgerKeys -> Entry \cup {Null}]
    BY DEF Commit, StoreInv, TypeOK, LedgerInv, RefinementInv
  <1>2. k.key = Null \/ k.key \in Keys
    BY <1>1 DEF ControlOK, Command
  <1>3. ledger' = [o \in LedgerKeys |->
                     IF entry[c] # Null /\ LedgerKey(k) = o THEN entry[c] ELSE ledger[o]]
    BY DEF Commit
  <1>4. CASE k.key = Null
    <2>1. entry[c] = Null
      BY <1>1, <1>4, StoreAssumption DEF ControlOK
    <2>2. ledger' = ledger
      BY <1>1, <1>3, <2>1
    <2> QED BY <1>4, <2>2 DEF Atomic!Unclaimed
  <1>5. CASE k.key # Null
    <2>1. entry[c] # Null /\ entry[c] = Outcome(c) /\ ledger[LedgerKey(k)] = Null
      BY <1>1, <1>5 DEF OutcomeOK, EntryOK
    <2>2. LedgerKey(k) \in LedgerKeys
      BY <1>2, <1>5 DEF LedgerKey, LedgerKeys
    <2>3. Atomic!Unclaimed(k)
      BY <2>1, AtomicOperators DEF Atomic!Unclaimed
    <2>4. ledger' = [ledger EXCEPT ![LedgerKey(k)] = Outcome(c)]
      BY <1>1, <1>3, <2>1, <2>2
    <2> QED BY <1>5, <2>3, <2>4
  <1> QED BY <1>4, <1>5

\* The commit of a write is the abstract write: its key is free and its
\* identifier new when it commits.
LEMMA CommitsWrite ==
  ASSUME StoreInv, LedgerInv, RefinementInv, NEW c \in Clients, Commit(c),
         cmd[c].op = "write"
  PROVE  Atomic!AtomicNext
  <1> DEFINE k == cmd[c]
             e == effect[c]
  <1>1. /\ pc[c] = "commit" /\ ControlOK(c) /\ WriteIdOK(c) /\ PendingOK(c) /\ KeyFree(c)
        /\ SentOK(c) /\ EvolvesOK(c) /\ WritesOK(c)
    BY DEF Commit, StoreInv, LedgerInv, RefinementInv
  <1>2. k \in Command /\ WellFormed(k) /\ k.id \in Ids /\ k # Null /\ entry[c] = Null
    BY <1>1, StoreAssumption DEF ControlOK, LedgerOps
  <1>3. PICK s \in Commands : /\ s.op = "write" /\ s.content = k.content
                              /\ s.state = k.state /\ s.key = k.key
    BY <1>1, <1>2 DEF SentOK
  <1> DEFINE row == Create(s.content, s.state, s.key)
  <1>4. e.kind = "insert" /\ e.id = k.id /\ e.row = row /\ e.rels = {}
    <2>1. Atomic!NewRelations(k) = {}
      BY <1>2, NoNewRelations
    <2> QED BY <1>1, <1>3, <2>1 DEF WritesOK, EvolvesOK, PendingOK
  <1>5. row.key = s.key
    BY DEF Create
  <1> HIDE DEF row
  <1>6. /\ memories' = [memories EXCEPT ![k.id] = row]
        /\ versions' = versions \cup {SnapshotOf(k.id, row)}
        /\ relations' = relations /\ tombstones' = tombstones
    BY <1>4, CommitRows, CommitTables
  <1>7. ledger' = ledger
    BY <1>2 DEF Commit, StoreInv, TypeOK
  <1>8. memories[k.id] = Null /\ k.id \notin tombstones
    BY <1>1, <1>2 DEF WriteIdOK
  <1>9. s.key # Null => \A j \in Ids : memories[j] # Null => memories[j].key # s.key
    BY <1>1, <1>4, <1>5 DEF KeyFree, HolderOf
  <1>10. /\ Atomic!Create(s.content, s.state, s.key) = row
         /\ Atomic!SnapshotOf(k.id, row) = SnapshotOf(k.id, row)
    BY AtomicOperators DEF row
  <1>11. Atomic!AtomicWrite(s, k.id)
    BY <1>3, <1>6, <1>7, <1>8, <1>9, <1>10 DEF Atomic!AtomicWrite
  <1> QED BY <1>2, <1>3, <1>11 DEF Atomic!AtomicNext

\* The commit of an update, a confirmation or an effective pin evolves the row
\* that is there when it commits.
LEMMA CommitsChange ==
  ASSUME StoreInv, LedgerInv, RefinementInv, NEW c \in Clients, Commit(c),
         effect[c].kind = "update"
  PROVE  Atomic!AtomicNext
  <1> DEFINE k == cmd[c]
             e == effect[c]
             row == memories[k.id]
             new == Evolve(row, NewContent(k, row), Target(k, row))
  <1>1. /\ pc[c] = "commit" /\ ControlOK(c) /\ PendingOK(c)
        /\ SentOK(c) /\ EvolvesOK(c) /\ WritesOK(c)
    BY DEF Commit, StoreInv, LedgerInv, RefinementInv
  <1>2. k \in Command /\ WellFormed(k) /\ k # Null /\ k.op \in {"update", "confirm", "pin"}
    BY <1>1, StoreAssumption DEF ControlOK, EvolvesOK
  <1>3. k \in Commands
    BY <1>1, <1>2 DEF SentOK
  <1>4. /\ e.id = k.id /\ e.row = new /\ Permits(k, row) /\ row # Null
        /\ k.op = "pin" => row.state # k.state
        /\ e.rels = Atomic!NewRelations(k) /\ e.rels \cap relations = {}
    BY <1>1 DEF PendingOK, EvolvesOK, WritesOK
  <1>5. /\ Outcome(c) = Atomic!Completed(k, "updated", new.version, new)
        /\ Atomic!Unclaimed(k)
        /\ ledger' = IF k.key = Null THEN ledger
                     ELSE [ledger EXCEPT ![LedgerKey(k)] = Outcome(c)]
    <2>1. k.op \in LedgerOps
      BY <1>2 DEF LedgerOps
    <2>2. Outcome(c) = Atomic!Completed(k, "updated", e.row.version, e.row)
      BY <1>2 DEF Outcome
    <2> QED BY <1>4, <2>1, <2>2, CommitRecord
  <1>6. Atomic!Linkable(k)
    <2>1. ASSUME Atomic!NewRelations(k) # {} PROVE memories[k.other] # Null
      <3>1. Atomic!NewRelations(k) = {[source |-> k.id, target |-> k.other, type |-> k.rel]}
        BY <2>1 DEF Atomic!NewRelations
      <3>2. \A r \in e.rels : memories[r.target] # Null
        BY <1>1 DEF PendingOK
      <3> QED BY <1>4, <3>1, <3>2
    <2> QED BY <1>4, <2>1 DEF Atomic!Linkable
  <1>7. /\ Atomic!Evolve(row, Atomic!NewContent(k, row), Atomic!Target(k, row)) = new
        /\ Atomic!Permits(k, row) /\ Atomic!SnapshotOf(k.id, new) = SnapshotOf(k.id, new)
        /\ Atomic!LedgerKey(k) = LedgerKey(k)
    BY <1>4, AtomicOperators
  <1> HIDE DEF new
  <1>8. /\ memories' = [memories EXCEPT ![k.id] = new]
        /\ versions' = versions \cup {SnapshotOf(k.id, new)}
        /\ relations' = relations \cup Atomic!NewRelations(k) /\ tombstones' = tombstones
    BY <1>4, CommitRows, CommitTables
  <1>9. Atomic!Record(k, "updated", new.version, new)
    BY <1>5, <1>7 DEF Atomic!Record
  <1>10. Atomic!AtomicChange(k)
    BY <1>2, <1>4, <1>5, <1>6, <1>7, <1>8, <1>9 DEF Atomic!AtomicChange
  <1> QED BY <1>3, <1>10 DEF Atomic!AtomicNext

\* The commit of a pin that had nothing to change, when there still is nothing.
LEMMA CommitsKeep ==
  ASSUME StoreInv, LedgerInv, RefinementInv, NEW c \in Clients, Commit(c),
         cmd[c].op = "pin", effect[c].kind = "none", ~Outdated(c)
  PROVE  Atomic!AtomicNext
  <1> DEFINE k == cmd[c]
             row == memories[k.id]
  <1>1. /\ pc[c] = "commit" /\ ControlOK(c) /\ PendingOK(c) /\ SeenOK(c)
        /\ SentOK(c) /\ WritesOK(c)
    BY DEF Commit, StoreInv, LedgerInv, RefinementInv
  <1>2. k \in Command /\ WellFormed(k) /\ k # Null
    BY <1>1, StoreAssumption DEF ControlOK
  <1>3. k \in Commands
    BY <1>1, <1>2 DEF SentOK
  <1>4. /\ Permits(k, row) /\ seen[c] # Null /\ seen[c].state = k.state
    BY <1>1 DEF Outdated, WritesOK
  <1>5. row = seen[c]
    BY <1>1, <1>4 DEF SeenOK, Permits
  <1>6. Atomic!NewRelations(k) = {} /\ effect[c].rels = {}
    BY <1>1, <1>2, NoNewRelations DEF WritesOK
  <1>7. /\ memories' = memories /\ versions' = versions /\ relations' = relations
        /\ tombstones' = tombstones
    BY <1>6, CommitRows, CommitTables
  <1>8. /\ Outcome(c) = Atomic!Completed(k, "updated", row.version, row)
        /\ Atomic!Unclaimed(k)
        /\ ledger' = IF k.key = Null THEN ledger
                     ELSE [ledger EXCEPT ![LedgerKey(k)] = Outcome(c)]
    <2>1. k.op \in LedgerOps
      BY DEF LedgerOps
    <2>2. Outcome(c) = Atomic!Completed(k, "updated", seen[c].version, seen[c])
      BY DEF Outcome
    <2> QED BY <1>5, <2>1, <2>2, CommitRecord
  <1>9. Atomic!Permits(k, row) /\ Atomic!LedgerKey(k) = LedgerKey(k)
    BY <1>4, AtomicOperators
  <1>10. Atomic!Record(k, "updated", row.version, row)
    BY <1>8, <1>9 DEF Atomic!Record
  <1>11. Atomic!AtomicKeep(k)
    BY <1>4, <1>5, <1>7, <1>8, <1>9, <1>10 DEF Atomic!AtomicKeep
  <1> QED BY <1>3, <1>11 DEF Atomic!AtomicNext

\* The commit of a relate: the endpoints cannot go while it holds their locks.
LEMMA CommitsRelate ==
  ASSUME StoreInv, LedgerInv, RefinementInv, NEW c \in Clients, Commit(c),
         cmd[c].op = "relate"
  PROVE  Atomic!AtomicNext
  <1> DEFINE k == cmd[c]
             e == effect[c]
             r == [source |-> k.id, target |-> k.other, type |-> k.rel]
  <1>1. /\ pc[c] = "commit" /\ ControlOK(c) /\ PendingOK(c)
        /\ SentOK(c) /\ WritesOK(c)
    BY DEF Commit, StoreInv, LedgerInv, RefinementInv
  <1>2. k \in Command /\ WellFormed(k) /\ k # Null /\ entry[c] = Null
    BY <1>1, StoreAssumption DEF ControlOK, LedgerOps
  <1>3. k \in Commands
    BY <1>1, <1>2 DEF SentOK
  <1>4. Atomic!NewRelations(k) = {r}
    BY <1>2, StoreAssumption DEF WellFormed, Atomic!NewRelations
  <1>5. e.kind = "none" /\ e.rels = {r} /\ e.rels \cap relations = {}
    BY <1>1, <1>4 DEF WritesOK
  <1>6. memories[k.id] # Null /\ memories[k.other] # Null
    <2>1. \A x \in e.rels : memories[x.source] # Null /\ memories[x.target] # Null
      BY <1>1 DEF PendingOK
    <2> QED BY <1>5, <2>1
  <1>7. Atomic!Permits(k, memories[k.id])
    BY <1>6 DEF Atomic!Permits
  <1>8. Atomic!Linkable(k)
    BY <1>4, <1>5, <1>6 DEF Atomic!Linkable
  <1>9. /\ memories' = memories /\ versions' = versions
        /\ relations' = relations \cup Atomic!NewRelations(k) /\ tombstones' = tombstones
    BY <1>4, <1>5, CommitRows, CommitTables
  <1>10. ledger' = ledger
    BY <1>2 DEF Commit, StoreInv, TypeOK
  <1>11. Atomic!AtomicRelate(k)
    BY <1>7, <1>8, <1>9, <1>10 DEF Atomic!AtomicRelate
  <1> QED BY <1>3, <1>11 DEF Atomic!AtomicNext

\* The commit of a forget, or of a discard of what still is a candidate.
LEMMA CommitsRemove ==
  ASSUME StoreInv, LedgerInv, RefinementInv, NEW c \in Clients, Commit(c),
         cmd[c].op \in {"forget", "discard"}, ~Outdated(c)
  PROVE  Atomic!AtomicNext
  <1> DEFINE k == cmd[c]
             e == effect[c]
  <1>1. /\ pc[c] = "commit" /\ ControlOK(c) /\ PendingOK(c)
        /\ SentOK(c) /\ WritesOK(c)
    BY DEF Commit, StoreInv, LedgerInv, RefinementInv
  <1>2. k \in Command /\ WellFormed(k) /\ k # Null
    BY <1>1, StoreAssumption DEF ControlOK
  <1>3. k \in Commands
    BY <1>1, <1>2 DEF SentOK
  <1>4. k.op = "discard" => Permits(k, memories[k.id])
    BY DEF Outdated
  <1>5. /\ Atomic!Unclaimed(k)
        /\ ledger' = IF k.key = Null THEN ledger
                     ELSE [ledger EXCEPT ![LedgerKey(k)] = Outcome(c)]
        /\ Atomic!LedgerKey(k) = LedgerKey(k)
        /\ k.op = "discard" => Atomic!Permits(k, memories[k.id])
    <2>1. k.op \in LedgerOps
      BY DEF LedgerOps
    <2> QED BY <1>4, <2>1, CommitRecord, AtomicOperators
  <1>6. CASE e.kind = "delete"
    <2>1. e.id = k.id /\ e.row = Null /\ memories[k.id] # Null
      BY <1>1, <1>6 DEF PendingOK
    <2>2. /\ memories' = [memories EXCEPT ![k.id] = Null]
          /\ versions' = {s \in versions : s.id # k.id}
          /\ relations' = {r \in relations : k.id \notin {r.source, r.target}}
          /\ tombstones' = tombstones \cup {k.id}
      BY <1>6, <2>1, CommitRows, CommitTables
    <2>3. Outcome(c) = Atomic!Completed(k, "forgotten", 0, Null)
      BY <1>6 DEF Outcome
    <2>4. Atomic!Record(k, "forgotten", 0, Null)
      BY <1>5, <2>3 DEF Atomic!Record
    <2>5. Atomic!AtomicRemove(k)
      BY <1>5, <2>1, <2>2, <2>4 DEF Atomic!AtomicRemove
    <2> QED BY <1>3, <2>5 DEF Atomic!AtomicNext
  <1>7. CASE e.kind # "delete"
    <2>1. e.kind = "none" /\ memories[k.id] = Null /\ e.rels = {}
      <3>1. Atomic!NewRelations(k) = {}
        BY <1>2, NoNewRelations
      <3> QED BY <1>1, <1>7, <3>1 DEF WritesOK
    <2>2. k.op = "forget"
      BY <1>4, <2>1 DEF Permits
    <2>3. /\ memories' = memories /\ versions' = versions /\ relations' = relations
          /\ tombstones' = tombstones
      BY <2>1, CommitRows, CommitTables
    <2>4. Outcome(c) = Atomic!Completed(k, "already_absent", 0, Null)
      BY <1>7 DEF Outcome
    <2>5. Atomic!Record(k, "already_absent", 0, Null)
      BY <1>5, <2>4 DEF Atomic!Record
    <2>6. Atomic!AtomicAbsent(k)
      BY <1>5, <2>1, <2>2, <2>3, <2>5 DEF Atomic!AtomicAbsent
    <2> QED BY <1>3, <2>6 DEF Atomic!AtomicNext
  <1> QED BY <1>6, <1>7

\* Every commit that is not outdated is a step of the abstract store.
LEMMA CommitIsAtomic ==
  ASSUME StoreInv, LedgerInv, RefinementInv, NEW c \in Clients, Commit(c), ~Outdated(c)
  PROVE  Atomic!AtomicNext
  <1>1. /\ pc[c] = "commit" /\ ControlOK(c) /\ WritesOK(c)
    BY DEF Commit, StoreInv, RefinementInv
  <1>2. cmd[c].op \in Ops
    BY <1>1 DEF ControlOK, Command
  <1>3. CASE effect[c].kind = "update"
    BY <1>3, CommitsChange
  <1>4. CASE cmd[c].op = "write"
    BY <1>4, CommitsWrite
  <1>5. CASE cmd[c].op = "relate"
    BY <1>5, CommitsRelate
  <1>6. CASE cmd[c].op \in {"forget", "discard"}
    BY <1>6, CommitsRemove
  <1>7. CASE cmd[c].op = "pin" /\ effect[c].kind = "none"
    BY <1>7, CommitsKeep
  <1> QED BY <1>1, <1>2, <1>3, <1>4, <1>5, <1>6, <1>7 DEF Ops, LedgerOps, WritesOK

\* Both stores start empty.
LEMMA InitIsAtomic == Init => Atomic!AtomicInit
  BY AtomicOperators DEF Init, Atomic!AtomicInit

\* Every step of the detailed store is an abstract one, leaves the tables alone,
\* or is an outdated commit.
LEMMA NextIsAtomic ==
  ASSUME StoreInv, LedgerInv, RefinementInv, [Next]_vars
  PROVE  [Atomic!AtomicNext \/ \E c \in Clients : Commit(c) /\ Outdated(c)]_tables
  <1>1. CASE \E c \in Clients : Commit(c)
    BY <1>1, CommitIsAtomic
  <1>2. CASE ~(\E c \in Clients : Commit(c))
    BY <1>2, OnlyCommitsWrite
  <1> QED BY <1>1, <1>2

\* Requests that interleave over PostgreSQL change the tables one abstract
\* operation at a time, in the order of their commits.  The exceptions are
\* exactly the commits that Outdated describes: the discard whose memory was
\* changed after it was read and is deleted all the same, and the pin that
\* completes its key although its memory has moved on.
THEOREM CommitsAreAtomic == Spec => AtomicUnlessOutdated
  <1>1. StoreInv /\ LedgerInv /\ RefinementInv /\ [Next]_vars =>
          [Atomic!AtomicNext \/ \E c \in Clients : Commit(c) /\ Outdated(c)]_tables
    BY NextIsAtomic
  <1> QED BY <1>1, InitIsAtomic, StoreInvariant, LedgerInvariant, RefinementInvariant, PTL
          DEF Spec, AtomicUnlessOutdated

\* Writes, captures, updates, confirmations, relations and forgets, any number
\* of them side by side and with any keys, implement the store of the unit
\* tests: without discards and pins no commit is outdated.
THEOREM RefinesAtomicStore ==
  ASSUME \A k \in Commands : k.op \notin {"discard", "pin"}
  PROVE  Spec => ImplementsAtomic
  <1>1. StoreInv /\ LedgerInv /\ RefinementInv /\ [Next]_vars =>
          [Atomic!AtomicNext]_(Atomic!store)
    <2> SUFFICES ASSUME StoreInv, LedgerInv, RefinementInv, [Next]_vars
                 PROVE  Atomic!AtomicNext \/ UNCHANGED tables
      BY DEF tables, Atomic!store
    <2>1. ASSUME NEW c \in Clients, Commit(c) PROVE ~Outdated(c)
      <3>1. SentOK(c) /\ cmd[c] # Null
        BY <2>1, StoreAssumption DEF RefinementInv, Commit, StoreInv, ControlOK
      <3> QED BY <3>1 DEF SentOK, Outdated
    <2> QED BY <2>1, NextIsAtomic
  <1> QED BY <1>1, InitIsAtomic, StoreInvariant, LedgerInvariant, RefinementInvariant, PTL
          DEF Spec, ImplementsAtomic, Atomic!AtomicSpec
==============================================================================
