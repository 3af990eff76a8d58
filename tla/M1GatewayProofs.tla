--------------------------- MODULE M1GatewayProofs ---------------------------
(***************************************************************************)
(* The M1 gateway keeps GatewayInv for any tenants, connections, calls and *)
(* commands: the restore control never tells one tenant of another's       *)
(* erased memories, nor forgets an erasure; and a recall that names its    *)
(* spaces returns the best of what is eligible.                            *)
(***************************************************************************)
EXTENDS M1Gateway, FiniteSetTheorems, TLAPS

------------------------------------------------------------------------------
(* Rows, ledger entries and calls *)

\* A call in flight is a well-formed command under a key of its tenant.
LEMMA CallFacts ==
  ASSUME GatewayInv, NEW r \in Calls, call[r] # Idle
  PROVE  /\ call[r].conn \in Connections /\ Tenant(call[r].conn) \in Tenants
         /\ call[r].cmd \in Commands /\ call[r].cmd \in Command /\ WellFormed(call[r].cmd)
         /\ call[r].cmd.key \in Keys /\ SentBy[call[r].cmd.key] = Tenant(call[r].conn)
         /\ call[r].cmd.rel = Null
         /\ call[r].phase \in {"admitted", "forgotten"}
         /\ call[r].cmd.op \in LedgerOps =>
              LedgerKey(call[r].cmd) \in LedgerKeys /\ call[r].cmd.id \in Ids
  <1>1. call[r] \in [conn : Connections, cmd : Commands, phase : {"admitted", "forgotten"}]
    BY DEF GatewayInv, GatewayTypeOK
  <1>2. Principal[call[r].conn] \in PrincipalType
    BY <1>1, GatewayAssumption
  <1>3. Schema(call[r].cmd) /\ SentBy[call[r].cmd.key] = Tenant(call[r].conn)
    BY DEF GatewayInv, CallsOK
  <1>4. call[r].cmd \in Command /\ WellFormed(call[r].cmd)
    BY <1>1, StoreAssumption
  <1>5. call[r].cmd.key \in Keys /\ call[r].cmd.rel = Null
    BY <1>3, <1>4 DEF Schema, Command
  <1>6. call[r].cmd.op \in LedgerOps =>
          LedgerKey(call[r].cmd) \in LedgerKeys /\ call[r].cmd.id \in Ids
    BY <1>4, <1>5 DEF LedgerKey, LedgerKeys, LedgerOps, WellFormed
  <1> QED BY <1>1, <1>2, <1>3, <1>4, <1>5, <1>6 DEF Tenant, PrincipalType

LEMMA FingerprintFacts ==
  ASSUME NEW k \in Command
  PROVE  Fingerprint(k) \in Command /\ Fingerprint(k).id = k.id
  BY DEF Fingerprint, Command

\* The rows a capture and a change store
LEMMA CreatedRow ==
  ASSUME NEW k \in Command, WellFormed(k), k.op = "write"
  PROVE  /\ Create(k.content, k.state, k.key) \in Row
         /\ \A i \in Ids : LET s == SnapshotOf(i, Create(k.content, k.state, k.key))
                           IN s \in Snapshot /\ s.id = i
  BY DEF Command, WellFormed, Create, Row, States, WriteFingerprint, SnapshotOf, Snapshot

LEMMA EvolvedRow ==
  ASSUME NEW k \in Command, WellFormed(k), k.rel = Null, NEW row \in Row
  PROVE  LET new == Evolve(row, NewContent(k, row), Target(k, row)) IN
         /\ new \in Row
         /\ \A i \in Ids : SnapshotOf(i, new) \in Snapshot /\ SnapshotOf(i, new).id = i
  <1>1. NewContent(k, row) \in Contents
    BY DEF NewContent, Row, Command
  <1>2. k.rel \notin DOMAIN LinkedState
    BY StoreAssumption DEF LinkedState, RelationTypes
  <1>3. Target(k, row) \in States
    BY <1>2 DEF Target, Row, Command, States
  <1> HIDE DEF States
  <1> QED BY <1>1, <1>3 DEF Evolve, Row, SnapshotOf, Snapshot

\* The ledger row of a completed operation
LEMMA CompletedEntry ==
  ASSUME NEW k \in Command, k.id \in Ids,
         NEW result \in {"none", "updated", "forgotten", "already_absent"},
         NEW version \in Nat, NEW answer \in Row \cup {Null}
  PROVE  LET e == Completed(k, result, version, answer) IN
         /\ e \in Entry /\ e # Null /\ e.result = result /\ e.print.id = k.id
  <1> DEFINE e == Completed(k, result, version, answer)
  <1>1. Fingerprint(k) \in Command /\ Fingerprint(k).id = k.id
    BY FingerprintFacts
  <1>2. e \in Entry /\ e.result = result /\ e.print = Fingerprint(k)
    BY <1>1 DEF Completed, Entry
  <1>3. e # Null
    BY <1>2, StoreAssumption
  <1> QED BY <1>1, <1>2, <1>3

------------------------------------------------------------------------------
(* The invariant, step by step *)

\* The store is empty when the gateway starts.
LEMMA GatewayInitInv == GatewayInit => GatewayInv
  BY DEF GatewayInit, AtomicInit, GatewayInv, GatewayTypeOK, HolderOK, CapturedOnly,
         ErasureOK, CallsOK, Idle

\* Admission, answers, revocation and restart leave the store alone: the calls in
\* flight afterwards are old or schema-checked, and the control set grows only by
\* what a call has erased.
LEMMA ControlInv ==
  ASSUME GatewayInv, UNCHANGED <<store, holder>>,
         revoked' \subseteq Connections, gone' \subseteq Tenants \X Ids,
         \A p \in gone' : ErasedFor(p[1], p[2]),
         call' \in [Calls -> [conn : Connections, cmd : Commands,
                              phase : {"admitted", "forgotten"}] \cup {Idle}],
         \A r \in Calls : call'[r] # Idle =>
             /\ Schema(call'[r].cmd) /\ SentBy[call'[r].cmd.key] = Tenant(call'[r].conn)
             /\ call'[r].phase = "forgotten" =>
                  ErasedFor(Tenant(call'[r].conn), call'[r].cmd.id)
  PROVE  GatewayInv'
  <1>1. UNCHANGED <<memories, versions, relations, tombstones, ledger, holder>>
    BY DEF store
  <1>2. GatewayTypeOK'
    BY <1>1 DEF GatewayInv, GatewayTypeOK
  <1>3. HolderOK' /\ CapturedOnly'
    BY <1>1 DEF GatewayInv, HolderOK, CapturedOnly
  <1>4. \A r \in Calls : call'[r].phase = "forgotten" => call'[r] # Idle
    BY DEF Idle
  <1>5. ErasureOK'
    <2>1. \A p \in gone' : ErasedFor(p[1], p[2])'
      BY <1>1 DEF ErasedFor
    <2>2. \A r \in Calls : call'[r].phase = "forgotten" =>
            ErasedFor(Tenant(call[r].conn), call[r].cmd.id)'
      BY <1>1, <1>4 DEF ErasedFor, Tenant
    <2>3. \A o \in LedgerKeys : ledger'[o] # Null /\ ledger'[o].result = "forgotten" =>
            ErasedFor(SentBy[o[2]], ledger[o].print.id)'
      BY <1>1 DEF ErasedFor, GatewayInv, ErasureOK
    <2> QED BY <2>1, <2>2, <2>3 DEF ErasureOK
  <1>6. CallsOK'
    BY DEF CallsOK, Tenant
  <1> QED BY <1>2, <1>3, <1>5, <1>6 DEF GatewayInv

\* A call ends.
LEMMA Responded ==
  ASSUME GatewayInv, NEW r \in Calls, Respond(r)
  PROVE  /\ call' \in [Calls -> [conn : Connections, cmd : Commands,
                                 phase : {"admitted", "forgotten"}] \cup {Idle}]
         /\ \A s \in Calls : call'[s] = call[s] \/ call'[s] = Idle
  BY DEF Respond, GatewayInv, GatewayTypeOK

\* What was erased stays erased.
LEMMA CallsKept ==
  ASSUME GatewayInv, NEW s \in Calls, call[s] # Idle
  PROVE  /\ Schema(call[s].cmd) /\ SentBy[call[s].cmd.key] = Tenant(call[s].conn)
         /\ call[s].phase = "forgotten" => ErasedFor(Tenant(call[s].conn), call[s].cmd.id)
  BY DEF GatewayInv, CallsOK, ErasureOK

LEMMA InvokeInv ==
  ASSUME GatewayInv, NEW r \in Calls, NEW c \in Connections, NEW k \in Commands, Invoke(r, c, k)
  PROVE  GatewayInv'
  <1> DEFINE new == [conn |-> c, cmd |-> k, phase |-> "admitted"]
  <1>1. /\ call' = [call EXCEPT ![r] = new] /\ UNCHANGED <<store, holder, revoked, gone>>
        /\ Schema(k) /\ SentBy[k.key] = Tenant(c)
    BY DEF Invoke, control
  <1>2. /\ call'[r] = new /\ \A s \in Calls \ {r} : call'[s] = call[s]
        /\ call' \in [Calls -> [conn : Connections, cmd : Commands,
                                phase : {"admitted", "forgotten"}] \cup {Idle}]
    BY <1>1 DEF GatewayInv, GatewayTypeOK
  <1>3. /\ revoked' \subseteq Connections /\ gone' \subseteq Tenants \X Ids
        /\ \A p \in gone' : ErasedFor(p[1], p[2])
    BY <1>1 DEF GatewayInv, GatewayTypeOK, ErasureOK
  <1>4. ASSUME NEW s \in Calls, call'[s] # Idle
        PROVE  /\ Schema(call'[s].cmd) /\ SentBy[call'[s].cmd.key] = Tenant(call'[s].conn)
               /\ call'[s].phase = "forgotten" =>
                    ErasedFor(Tenant(call'[s].conn), call'[s].cmd.id)
    <2>1. CASE s = r
      BY <1>1, <1>2, <2>1
    <2>2. CASE s # r
      BY <1>2, <1>4, <2>2, CallsKept
    <2> QED BY <2>1, <2>2
  <1> QED BY <1>1, <1>2, <1>3, <1>4, ControlInv

\* Fail, Mark, revocation and restart
LEMMA EndInv ==
  ASSUME GatewayInv,
         \/ \E r \in Calls : Fail(r) \/ Mark(r)
         \/ \E a, c \in Connections : Revoke(a, c)
         \/ Restart
         \/ UNCHANGED gateway
  PROVE  GatewayInv'
  <1>1. UNCHANGED <<store, holder>>
    BY DEF Fail, Mark, Revoke, Restart, gateway
  <1>2. revoked' \subseteq Connections
    BY DEF Fail, Mark, Revoke, Restart, gateway, control, GatewayInv, GatewayTypeOK
  <1>3. /\ call' \in [Calls -> [conn : Connections, cmd : Commands,
                                phase : {"admitted", "forgotten"}] \cup {Idle}]
        /\ \A s \in Calls : call'[s] = call[s] \/ call'[s] = Idle
    <2>1. CASE \E r \in Calls : Fail(r) \/ Mark(r)
      BY <2>1, Responded DEF Fail, Mark
    <2>2. CASE (\E a, c \in Connections : Revoke(a, c)) \/ UNCHANGED gateway
      BY <2>2 DEF Revoke, gateway, GatewayInv, GatewayTypeOK
    <2>3. CASE Restart
      BY <2>3 DEF Restart
    <2> QED BY <2>1, <2>2, <2>3
  <1>4. gone' \subseteq Tenants \X Ids /\ \A p \in gone' : ErasedFor(p[1], p[2])
    <2>1. gone \subseteq Tenants \X Ids /\ \A p \in gone : ErasedFor(p[1], p[2])
      BY DEF GatewayInv, GatewayTypeOK, ErasureOK
    <2>2. ASSUME NEW r \in Calls, Mark(r)
          PROVE  gone' \subseteq Tenants \X Ids /\ \A p \in gone' : ErasedFor(p[1], p[2])
      <3>1. call[r] # Idle /\ call[r].phase = "forgotten"
            /\ gone' = gone \cup {<<Tenant(call[r].conn), call[r].cmd.id>>}
        BY <2>2 DEF Mark, Idle
      <3>2. ErasedFor(Tenant(call[r].conn), call[r].cmd.id) /\ Tenant(call[r].conn) \in Tenants
        BY <3>1, CallsKept, CallFacts
      <3>3. call[r].cmd.id \in Ids
        BY <3>2 DEF ErasedFor, GatewayInv, GatewayTypeOK
      <3> QED BY <2>1, <3>1, <3>2, <3>3
    <2>3. CASE ~\E r \in Calls : Mark(r)
      <3>1. gone' \subseteq gone
        BY <2>3 DEF Fail, Revoke, Restart, gateway, control
      <3> QED BY <2>1, <3>1
    <2> QED BY <2>2, <2>3
  <1>5. ASSUME NEW s \in Calls, call'[s] # Idle
        PROVE  /\ Schema(call'[s].cmd) /\ SentBy[call'[s].cmd.key] = Tenant(call'[s].conn)
               /\ call'[s].phase = "forgotten" =>
                    ErasedFor(Tenant(call'[s].conn), call'[s].cmd.id)
    BY <1>3, <1>5, CallsKept
  <1> QED BY <1>1, <1>2, <1>3, <1>4, <1>5, ControlInv

\* A replayed discard reports what the ledger records, of its own tenant.
LEMMA ReplayInv ==
  ASSUME GatewayInv, NEW r \in Calls, ReplayDiscard(r)
  PROVE  GatewayInv'
  <1> DEFINE k == call[r].cmd
             new == [call[r] EXCEPT !.phase = "forgotten"]
  <1>1. /\ call[r].phase = "admitted" /\ k.op = "discard" /\ call[r] # Idle
        /\ call' = [call EXCEPT ![r] = new] /\ UNCHANGED <<store, holder, revoked, gone>>
        /\ ledger[LedgerKey(k)] # Null /\ ledger[LedgerKey(k)].result = "forgotten"
        /\ ledger[LedgerKey(k)].print = Fingerprint(k)
    BY DEF ReplayDiscard, Admitted, Forgotten, control, Idle
  <1>2. /\ k \in Command /\ LedgerKey(k) \in LedgerKeys /\ LedgerKey(k)[2] = k.key
        /\ SentBy[k.key] = Tenant(call[r].conn)
    BY <1>1, CallFacts DEF LedgerOps, LedgerKey
  <1>3. ErasedFor(Tenant(call[r].conn), k.id)
    BY <1>1, <1>2, FingerprintFacts DEF GatewayInv, ErasureOK
  <1>4. /\ call[r] \in [conn : Connections, cmd : Commands, phase : {"admitted", "forgotten"}]
        /\ new \in [conn : Connections, cmd : Commands, phase : {"admitted", "forgotten"}]
        /\ new.conn = call[r].conn /\ new.cmd = k
    BY <1>1 DEF GatewayInv, GatewayTypeOK
  <1> HIDE DEF new
  <1>5. /\ call'[r] = new /\ \A s \in Calls \ {r} : call'[s] = call[s]
        /\ call' \in [Calls -> [conn : Connections, cmd : Commands,
                                phase : {"admitted", "forgotten"}] \cup {Idle}]
    BY <1>1, <1>4 DEF GatewayInv, GatewayTypeOK
  <1>6. /\ revoked' \subseteq Connections /\ gone' \subseteq Tenants \X Ids
        /\ \A p \in gone' : ErasedFor(p[1], p[2])
    BY <1>1 DEF GatewayInv, GatewayTypeOK, ErasureOK
  <1>7. ASSUME NEW s \in Calls, call'[s] # Idle
        PROVE  /\ Schema(call'[s].cmd) /\ SentBy[call'[s].cmd.key] = Tenant(call'[s].conn)
               /\ call'[s].phase = "forgotten" =>
                    ErasedFor(Tenant(call'[s].conn), call'[s].cmd.id)
    <2>1. CASE s = r
      BY <1>1, <1>3, <1>4, <1>5, <2>1, CallsKept
    <2>2. CASE s # r
      BY <1>5, <1>7, <2>2, CallsKept
    <2> QED BY <2>1, <2>2
  <1> QED BY <1>1, <1>5, <1>6, <1>7, ControlInv

\* A step of the service: identifiers and erasures stay with their tenants, and
\* what the call or the ledger newly reports as erased is so.
LEMMA ServiceInv ==
  ASSUME GatewayInv, UNCHANGED control,
         memories' \in [Ids -> Row \cup {Null}], versions' \subseteq Snapshot,
         tombstones' \subseteq Ids, ledger' \in [LedgerKeys -> Entry \cup {Null}],
         holder' \in [Ids -> Tenants \cup {Null}],
         call' \in [Calls -> [conn : Connections, cmd : Commands,
                              phase : {"admitted", "forgotten"}] \cup {Idle}],
         HolderOK', CapturedOnly',
         \A i \in Ids : holder[i] # Null => holder'[i] = holder[i],
         tombstones \subseteq tombstones',
         \A s \in Calls : call'[s] # Idle =>
             /\ call[s] # Idle /\ call'[s].conn = call[s].conn /\ call'[s].cmd = call[s].cmd
             /\ call'[s].phase = "forgotten" =>
                  \/ call[s].phase = "forgotten"
                  \/ call[s].cmd.id \in tombstones'
                     /\ holder'[call[s].cmd.id] = Tenant(call[s].conn),
         \A o \in LedgerKeys : ledger'[o] # Null /\ ledger'[o].result = "forgotten" =>
             \/ ledger'[o] = ledger[o]
             \/ ledger'[o].print.id \in tombstones'
                /\ holder'[ledger'[o].print.id] = SentBy[o[2]]
  PROVE  GatewayInv'
  <1>1. GatewayTypeOK'
    BY DEF GatewayInv, GatewayTypeOK, control
  <1>2. CallsOK'
    BY DEF GatewayInv, CallsOK, Tenant
  <1>3. \A t, i : t # Null /\ ErasedFor(t, i) => i \in tombstones' /\ holder'[i] = t
    BY DEF ErasedFor, GatewayInv, GatewayTypeOK
  <1>4. \A p \in gone' : ErasedFor(p[1], p[2])'
    <2> SUFFICES ASSUME NEW p \in gone PROVE p[2] \in tombstones' /\ holder'[p[2]] = p[1]
      BY DEF control, ErasedFor
    <2>1. p[1] # Null /\ ErasedFor(p[1], p[2])
      BY GatewayAssumption DEF GatewayInv, GatewayTypeOK, ErasureOK
    <2> QED BY <1>3, <2>1
  <1>5. \A s \in Calls : call'[s].phase = "forgotten" =>
          ErasedFor(Tenant(call[s].conn), call[s].cmd.id)'
    <2> SUFFICES ASSUME NEW s \in Calls, call'[s].phase = "forgotten"
                 PROVE  /\ call'[s].cmd.id \in tombstones'
                        /\ holder'[call'[s].cmd.id] = Tenant(call'[s].conn)
      BY DEF ErasedFor, Tenant
    <2>1. call'[s] # Idle
      BY DEF Idle
    <2>2. /\ call[s] # Idle /\ call'[s].conn = call[s].conn /\ call'[s].cmd = call[s].cmd
      BY <2>1
    <2>3. Tenant(call[s].conn) # Null
      BY <2>2, CallFacts, GatewayAssumption
    <2>4. CASE call[s].phase = "forgotten"
      BY <1>3, <2>2, <2>3, <2>4, CallsKept
    <2>5. CASE call[s].phase # "forgotten"
      BY <2>1, <2>2, <2>5
    <2> QED BY <2>4, <2>5
  <1>6. \A o \in LedgerKeys : ledger'[o] # Null /\ ledger'[o].result = "forgotten" =>
          ErasedFor(SentBy[o[2]], ledger[o].print.id)'
    <2> SUFFICES ASSUME NEW o \in LedgerKeys, ledger'[o] # Null,
                        ledger'[o].result = "forgotten"
                 PROVE  /\ ledger'[o].print.id \in tombstones'
                        /\ holder'[ledger'[o].print.id] = SentBy[o[2]]
      BY DEF ErasedFor
    <2>1. SentBy[o[2]] # Null
      BY GatewayAssumption DEF LedgerKeys
    <2>2. CASE ledger'[o] = ledger[o]
      <3>1. ErasedFor(SentBy[o[2]], ledger[o].print.id)
        BY <2>2 DEF GatewayInv, ErasureOK
      <3> QED BY <1>3, <2>1, <2>2, <3>1
    <2>3. CASE ledger'[o] # ledger[o]
      BY <2>3
    <2> QED BY <2>2, <2>3
  <1>7. ErasureOK'
    BY <1>4, <1>5, <1>6 DEF ErasureOK
  <1> QED BY <1>1, <1>2, <1>7 DEF GatewayInv

\* A capture takes an identifier nobody had.
LEMMA CaptureInv ==
  ASSUME GatewayInv, NEW r \in Calls, Capture(r)
  PROVE  GatewayInv'
  <1> DEFINE k == call[r].cmd
             t == Tenant(call[r].conn)
             row == Create(k.content, k.state, k.key)
  <1>1. PICK i \in Ids :
          /\ k.op = "write" /\ memories[i] = Null /\ i \notin tombstones
          /\ memories' = [memories EXCEPT ![i] = row]
          /\ versions' = versions \cup {SnapshotOf(i, row)}
          /\ UNCHANGED <<relations, tombstones, ledger>>
          /\ holder' = [holder EXCEPT ![i] = t]
    BY DEF Capture, AtomicWrite
  <1>2. call[r] # Idle /\ Respond(r) /\ UNCHANGED control
    BY DEF Capture, Admitted, Idle
  <1>3. /\ row \in Row /\ SnapshotOf(i, row) \in Snapshot /\ SnapshotOf(i, row).id = i
        /\ t \in Tenants
    BY <1>1, <1>2, CallFacts, CreatedRow
  <1>4. row # Null /\ t # Null
    BY <1>3, StoreAssumption, GatewayAssumption
  <1> HIDE DEF row, t
  <1>5. holder[i] = Null
    BY <1>1 DEF GatewayInv, HolderOK
  <1>6. /\ memories \in [Ids -> Row \cup {Null}] /\ versions \subseteq Snapshot
        /\ tombstones \subseteq Ids /\ ledger \in [LedgerKeys -> Entry \cup {Null}]
        /\ holder \in [Ids -> Tenants \cup {Null}]
    BY DEF GatewayInv, GatewayTypeOK
  <1>7. /\ memories'[i] = row /\ holder'[i] = t
        /\ \A j \in Ids \ {i} : memories'[j] = memories[j] /\ holder'[j] = holder[j]
    BY <1>1, <1>6
  <1>8. HolderOK'
    BY <1>1, <1>4, <1>7 DEF GatewayInv, HolderOK
  <1>9. CapturedOnly'
    <2>1. \A s \in versions : s.id \in Ids
      BY <1>6 DEF Snapshot
    <2> QED BY <1>1, <1>3, <1>4, <1>7, <2>1 DEF GatewayInv, CapturedOnly
  <1>10. /\ call' \in [Calls -> [conn : Connections, cmd : Commands,
                                  phase : {"admitted", "forgotten"}] \cup {Idle}]
         /\ \A s \in Calls : call'[s] = call[s] \/ call'[s] = Idle
    BY <1>2, Responded
  <1>11. /\ memories' \in [Ids -> Row \cup {Null}] /\ versions' \subseteq Snapshot
         /\ holder' \in [Ids -> Tenants \cup {Null}]
         /\ \A j \in Ids : holder[j] # Null => holder'[j] = holder[j]
    BY <1>1, <1>3, <1>5, <1>6, <1>7
  <1> QED BY <1>1, <1>2, <1>6, <1>8, <1>9, <1>10, <1>11, ServiceInv

\* confirm, pin and update of a memory of the tenant
LEMMA ChangeInv ==
  ASSUME GatewayInv, NEW r \in Calls, Confirm(r) \/ Pin(r) \/ Update(r)
  PROVE  GatewayInv'
  <1> DEFINE k == call[r].cmd
             row == memories[k.id]
             new == Evolve(row, NewContent(k, row), Target(k, row))
  <1>1. /\ call[r] # Idle /\ k.op \in {"confirm", "pin", "update"} /\ Respond(r)
        /\ UNCHANGED <<holder, control>>
        /\ AtomicChange(k) \/ AtomicKeep(k)
    BY DEF Confirm, Pin, Update, Admitted, Idle
  <1>2. /\ k \in Command /\ WellFormed(k) /\ k.key # Null /\ k.rel = Null
        /\ LedgerKey(k) \in LedgerKeys /\ k.id \in Ids
    BY <1>1, CallFacts, StoreAssumption DEF LedgerOps
  <1>3. row \in Row /\ row # Null
    BY <1>1, <1>2 DEF AtomicChange, AtomicKeep, Permits, GatewayInv, GatewayTypeOK
  <1>4. new \in Row /\ SnapshotOf(k.id, new) \in Snapshot /\ SnapshotOf(k.id, new).id = k.id
    BY <1>2, <1>3, EvolvedRow
  <1>5. new # Null
    BY <1>4, StoreAssumption
  <1>6. PICK answer \in Row :
          /\ ledger' = [ledger EXCEPT ![LedgerKey(k)] =
                          Completed(k, "updated", answer.version, answer)]
          /\ tombstones' = tombstones
          /\ \/ /\ answer = new
                /\ memories' = [memories EXCEPT ![k.id] = new]
                /\ versions' = versions \cup {SnapshotOf(k.id, new)}
                /\ relations' = relations \cup NewRelations(k)
             \/ answer = row /\ UNCHANGED <<memories, versions, relations>>
    <2>1. CASE AtomicChange(k)
      BY <1>2, <1>4, <2>1 DEF AtomicChange, Record
    <2>2. CASE AtomicKeep(k)
      BY <1>2, <1>3, <2>2 DEF AtomicKeep, Record
    <2> QED BY <1>1, <2>1, <2>2
  <1> HIDE DEF new
  <1>7. NewRelations(k) = {}
    BY <1>2 DEF NewRelations
  <1> DEFINE e == Completed(k, "updated", answer.version, answer)
  <1>8. e \in Entry /\ e.result = "updated"
    BY <1>2, CompletedEntry DEF Row
  <1>9. ledger'[LedgerKey(k)] = e /\ \A o \in LedgerKeys \ {LedgerKey(k)} : ledger'[o] = ledger[o]
    BY <1>2, <1>6 DEF GatewayInv, GatewayTypeOK
  <1>10. ledger' \in [LedgerKeys -> Entry \cup {Null}]
    BY <1>2, <1>6, <1>8 DEF GatewayInv, GatewayTypeOK
  <1> HIDE DEF e
  <1>11. /\ memories' \in [Ids -> Row \cup {Null}] /\ versions' \subseteq Snapshot
         /\ tombstones' \subseteq Ids /\ holder' \in [Ids -> Tenants \cup {Null}]
    BY <1>1, <1>2, <1>4, <1>6 DEF GatewayInv, GatewayTypeOK
  <1>12. \A i \in Ids : memories'[i] = Null <=> memories[i] = Null
    BY <1>2, <1>3, <1>5, <1>6 DEF GatewayInv, GatewayTypeOK
  <1>13. HolderOK'
    BY <1>1, <1>6, <1>12 DEF GatewayInv, HolderOK
  <1>14. CapturedOnly'
    <2>1. holder[k.id] # Null
      BY <1>2, <1>3 DEF GatewayInv, HolderOK
    <2> QED BY <1>1, <1>4, <1>6, <1>7, <2>1 DEF GatewayInv, CapturedOnly
  <1>15. \A o \in LedgerKeys : ledger'[o] # Null /\ ledger'[o].result = "forgotten" =>
           ledger'[o] = ledger[o]
    BY <1>8, <1>9
  <1>16. /\ call' \in [Calls -> [conn : Connections, cmd : Commands,
                                  phase : {"admitted", "forgotten"}] \cup {Idle}]
         /\ \A s \in Calls : call'[s] = call[s] \/ call'[s] = Idle
    BY <1>1, Responded
  <1> QED BY <1>1, <1>6, <1>10, <1>11, <1>13, <1>14, <1>15, <1>16, ServiceInv

\* forget and discard: of a memory of the tenant, or of none
LEMMA RemoveInv ==
  ASSUME GatewayInv, NEW r \in Calls, Discard(r) \/ Forget(r)
  PROVE  GatewayInv'
  <1> DEFINE k == call[r].cmd
             t == Tenant(call[r].conn)
  <1>1. /\ call[r] # Idle /\ k.op \in {"forget", "discard"}
        /\ UNCHANGED <<holder, control>>
    BY DEF Discard, Forget, Admitted, Idle
  <1>2. /\ k \in Command /\ k.key # Null /\ LedgerKey(k) \in LedgerKeys /\ k.id \in Ids
        /\ LedgerKey(k)[2] = k.key /\ SentBy[k.key] = t
    BY <1>1, CallFacts, StoreAssumption DEF LedgerOps, LedgerKey
  <1>3. /\ memories \in [Ids -> Row \cup {Null}] /\ versions \subseteq Snapshot
        /\ tombstones \subseteq Ids /\ ledger \in [LedgerKeys -> Entry \cup {Null}]
        /\ holder \in [Ids -> Tenants \cup {Null}]
        /\ call \in [Calls -> [conn : Connections, cmd : Commands,
                               phase : {"admitted", "forgotten"}] \cup {Idle}]
    BY DEF GatewayInv, GatewayTypeOK
  <1>4. CASE Mine(r) /\ AtomicRemove(k) /\ Forgotten(r)
    <2> DEFINE e == Completed(k, "forgotten", 0, Null)
               new == [call[r] EXCEPT !.phase = "forgotten"]
    <2>1. /\ memories' = [memories EXCEPT ![k.id] = Null]
          /\ versions' = {s \in versions : s.id # k.id}
          /\ relations' = {x \in relations : k.id \notin {x.source, x.target}}
          /\ tombstones' = tombstones \cup {k.id}
          /\ ledger' = [ledger EXCEPT ![LedgerKey(k)] = e]
          /\ holder[k.id] = t /\ memories[k.id] # Null
      BY <1>2, <1>4 DEF AtomicRemove, Record, Mine
    <2>2. e \in Entry /\ e.print.id = k.id
      BY <1>2, CompletedEntry
    <2>3. /\ call[r] \in [conn : Connections, cmd : Commands, phase : {"admitted", "forgotten"}]
          /\ new \in [conn : Connections, cmd : Commands, phase : {"admitted", "forgotten"}]
          /\ new.conn = call[r].conn /\ new.cmd = k
      BY <1>1, <1>3
    <2>4. call' = [call EXCEPT ![r] = new]
      BY <1>4 DEF Forgotten
    <2> HIDE DEF e, new
    <2>5. /\ call'[r] = new /\ \A s \in Calls \ {r} : call'[s] = call[s]
          /\ call' \in [Calls -> [conn : Connections, cmd : Commands,
                                  phase : {"admitted", "forgotten"}] \cup {Idle}]
      BY <1>3, <2>3, <2>4
    <2>6. /\ ledger'[LedgerKey(k)] = e
          /\ \A o \in LedgerKeys \ {LedgerKey(k)} : ledger'[o] = ledger[o]
          /\ ledger' \in [LedgerKeys -> Entry \cup {Null}]
      BY <1>2, <1>3, <2>1, <2>2
    <2>7. /\ memories' \in [Ids -> Row \cup {Null}] /\ versions' \subseteq Snapshot
          /\ tombstones' \subseteq Ids /\ holder' \in [Ids -> Tenants \cup {Null}]
      BY <1>1, <1>2, <1>3, <2>1
    <2>8. HolderOK'
      <3>1. t # Null
        BY <1>1, CallFacts, GatewayAssumption
      <3> QED BY <1>1, <1>2, <1>3, <2>1, <3>1 DEF GatewayInv, HolderOK
    <2>9. CapturedOnly'
      BY <1>1, <2>1 DEF GatewayInv, CapturedOnly
    <2>10. \A o \in LedgerKeys : ledger'[o] # Null /\ ledger'[o].result = "forgotten" =>
             \/ ledger'[o] = ledger[o]
             \/ ledger'[o].print.id \in tombstones'
                /\ holder'[ledger'[o].print.id] = SentBy[o[2]]
      BY <1>1, <1>2, <2>1, <2>2, <2>6
    <2>11. \A s \in Calls : call'[s] # Idle =>
             /\ call[s] # Idle /\ call'[s].conn = call[s].conn /\ call'[s].cmd = call[s].cmd
             /\ call'[s].phase = "forgotten" =>
                  \/ call[s].phase = "forgotten"
                  \/ call[s].cmd.id \in tombstones'
                     /\ holder'[call[s].cmd.id] = Tenant(call[s].conn)
      BY <1>1, <2>1, <2>3, <2>5
    <2> QED BY <1>1, <2>1, <2>5, <2>6, <2>7, <2>8, <2>9, <2>10, <2>11, ServiceInv
  <1>5. CASE /\ Record(k, "already_absent", 0, Null)
             /\ UNCHANGED <<memories, versions, relations, tombstones>>
             /\ Respond(r)
    <2> DEFINE e == Completed(k, "already_absent", 0, Null)
    <2>1. ledger' = [ledger EXCEPT ![LedgerKey(k)] = e]
      BY <1>2, <1>5 DEF Record
    <2>2. e \in Entry /\ e.result = "already_absent"
      BY <1>2, CompletedEntry
    <2> HIDE DEF e
    <2>3. /\ ledger' \in [LedgerKeys -> Entry \cup {Null}]
          /\ \A o \in LedgerKeys : ledger'[o] = ledger[o] \/ ledger'[o] = e
      BY <1>2, <1>3, <2>1, <2>2
    <2>4. /\ call' \in [Calls -> [conn : Connections, cmd : Commands,
                                  phase : {"admitted", "forgotten"}] \cup {Idle}]
          /\ \A s \in Calls : call'[s] = call[s] \/ call'[s] = Idle
      BY <1>5, Responded
    <2>5. HolderOK' /\ CapturedOnly'
      BY <1>1, <1>5 DEF GatewayInv, HolderOK, CapturedOnly
    <2>6. \A o \in LedgerKeys : ledger'[o] # Null /\ ledger'[o].result = "forgotten" =>
            ledger'[o] = ledger[o]
      BY <2>2, <2>3
    <2> QED BY <1>1, <1>3, <1>5, <2>3, <2>4, <2>5, <2>6, ServiceInv
  <1> QED BY <1>4, <1>5 DEF Discard, Forget

\* GatewayInv is inductive.
LEMMA GatewayNextInv == GatewayInv /\ [GatewayNext]_gateway => GatewayInv'
  <1> SUFFICES ASSUME GatewayInv, [GatewayNext]_gateway PROVE GatewayInv'
    OBVIOUS
  <1>1. ASSUME NEW r \in Calls, CallStep(r) PROVE GatewayInv'
    BY <1>1, CaptureInv, ChangeInv, RemoveInv, ReplayInv, EndInv DEF CallStep
  <1>2. ASSUME NEW r \in Calls, NEW c \in Connections, NEW k \in Commands, Invoke(r, c, k)
        PROVE  GatewayInv'
    BY <1>2, InvokeInv
  <1>3. CASE (\E a, c \in Connections : Revoke(a, c)) \/ Restart \/ UNCHANGED gateway
    BY <1>3, EndInv
  <1> QED BY <1>1, <1>2, <1>3 DEF GatewayNext

\* The invariant holds in every reachable state of the gateway.
THEOREM GatewayInvariant == GatewaySpec => []GatewayInv
  BY GatewayInitInv, GatewayNextInv, PTL DEF GatewaySpec

\* The restore control says that a memory is erased exactly when it was the
\* caller's and is erased, whatever was cut off or restarted; while the database is
\* down it says so of no other.
THEOREM RestoreIsRight == GatewaySpec => []RestoreAnswersRight
  <1>1. GatewayInv => RestoreAnswersRight
    <2> SUFFICES ASSUME GatewayInv, NEW c \in Connections, NEW i \in Ids
                 PROVE  LET blocked(up) ==
                              RestoreAnswer(c, i, up) = "restore_blocked_by_tombstone"
                            erased == holder[i] = Tenant(c) /\ memories[i] = Null
                        IN (blocked(TRUE) <=> erased) /\ (blocked(FALSE) => erased)
      BY DEF GatewayInv, RestoreAnswersRight
    <2>1. Tenant(c) \in Tenants /\ Tenant(c) # Null
      BY GatewayAssumption DEF Tenant, PrincipalType
    <2>2. <<Tenant(c), i>> \in gone => i \in tombstones /\ holder[i] = Tenant(c)
      BY DEF GatewayInv, ErasureOK, ErasedFor
    <2>3. /\ IsTombstoned(c, i, TRUE) <=> holder[i] = Tenant(c) /\ memories[i] = Null
          /\ IsTombstoned(c, i, FALSE) => holder[i] = Tenant(c) /\ memories[i] = Null
      BY <2>1, <2>2 DEF IsTombstoned, GatewayInv, HolderOK
    <2> QED BY <2>3 DEF RestoreAnswer
  <1> QED BY <1>1, GatewayInvariant, PTL

------------------------------------------------------------------------------
(* Recall *)

\* In a strict order, a member of a set has fewer than all of them before it.
LEMMA FewerBefore ==
  ASSUME NEW S, IsFiniteSet(S), NEW i \in S, NEW B \in SUBSET S, i \notin B
  PROVE  Cardinality(B) < Cardinality(S)
  <1>1. IsFiniteSet(B) /\ Cardinality(B) <= Cardinality(S) /\ Cardinality(B) \in Nat
        /\ Cardinality(S) \in Nat
    BY FS_Subset, FS_CardinalityType
  <1>2. Cardinality(B) # Cardinality(S)
    BY FS_Subset
  <1> QED BY <1>1, <1>2

\* The rows a search may return are finitely many and of the type of rows, so that
\* no row comes before itself.
LEMMA MatchingFacts ==
  ASSUME GatewayInv, NEW c \in Connections, NEW q \in Queries, NEW s
  PROVE  /\ IsFiniteSet(Matching(c, q, s))
         /\ \A i \in Matching(c, q, s) : i \in Ids /\ ~Nearer(i, i)
  <1>1. Matching(c, q, s) \in SUBSET Ids
    BY DEF Matching
  <1>2. IsFiniteSet(Matching(c, q, s))
    BY <1>1, FS_Subset, GatewayAssumption
  <1>3. ASSUME NEW i \in Matching(c, q, s) PROVE ~Nearer(i, i)
    <2>1. i \in Ids /\ memories[i] \in Row
      BY <1>3 DEF Matching, GatewayInv, GatewayTypeOK
    <2>2. memories[i].content \in Contents
      BY <2>1 DEF Row
    <2>3. Closeness(i) \in Nat /\ Rank[i] \in Nat
      BY <2>1, <2>2, GatewayAssumption DEF Closeness
    <2> QED BY <2>3 DEF Nearer
  <1> QED BY <1>1, <1>2, <1>3

\* A search that has room for every match returns every match.
LEMMA SearchComplete ==
  ASSUME GatewayInv, NEW c \in Connections, NEW q \in Queries, NEW s,
         Cardinality(Matching(c, q, s)) <= q.candidates
  PROVE  First(q.candidates, Matching(c, q, s), Nearer) = Matching(c, q, s)
  <1> DEFINE S == Matching(c, q, s)
  <1>1. IsFiniteSet(S) /\ \A i \in S : ~Nearer(i, i)
    BY MatchingFacts
  <1>2. Cardinality(S) \in Nat /\ q.candidates \in Nat
    BY <1>1, FS_CardinalityType, GatewayAssumption DEF Query
  <1>3. ASSUME NEW i \in S PROVE Cardinality({j \in S : Nearer(j, i)}) < q.candidates
    <2> DEFINE B == {j \in S : Nearer(j, i)}
    <2>1. B \in SUBSET S /\ i \notin B
      BY <1>1
    <2>2. Cardinality(B) < Cardinality(S) /\ Cardinality(B) \in Nat
      <3>1. IsFiniteSet(B)
        BY <1>1, <2>1, FS_Subset
      <3> HIDE DEF S, B
      <3> QED BY <1>1, <1>3, <2>1, <3>1, FewerBefore, FS_CardinalityType
    <2> QED BY <1>2, <2>2
  <1> QED BY <1>3 DEF First

\* The matches of the spaces that were asked for, cut down, are what is eligible.
LEMMA MatchesAreEligible ==
  ASSUME NEW c \in Connections, NEW q \in Queries, Null \notin RequestedSpaces(q)
  PROVE  {i \in UNION {Matching(c, q, s) : s \in RequestedSpaces(q)} : Kept(q, i)}
           = Eligible(c, q)
  <1> HIDE DEF RequestedSpaces, RequestedStates
  <1>1. ASSUME NEW s \in RequestedSpaces(q), NEW i \in Matching(c, q, s), Kept(q, i)
        PROVE  i \in Eligible(c, q)
    BY <1>1 DEF Matching, Kept, Eligible
  <1>2. ASSUME NEW i \in Eligible(c, q)
        PROVE  /\ Kept(q, i) /\ SpaceOf[memories[i].content] \in RequestedSpaces(q)
               /\ i \in Matching(c, q, SpaceOf[memories[i].content])
    BY <1>2 DEF Matching, Kept, Eligible
  <1> HIDE DEF Matching, Kept, Eligible
  <1> QED BY <1>1, <1>2

\* A recall that names its spaces is faithful for any number of memories, spaces,
\* limits and scores (RecallFaithful: MemoryApplicationService.recall over
\* search_candidates).
THEOREM RecallIsFaithful == GatewaySpec => []RecallFaithful
  <1>1. GatewayInv => RecallFaithful
    <2> SUFFICES ASSUME GatewayInv, NEW c \in Connections, NEW q \in Queries,
                        Null \notin RequestedSpaces(q)
                 PROVE  /\ Recall(c, q) \subseteq Eligible(c, q)
                        /\ (\A s \in RequestedSpaces(q) :
                              Allows(c, q, s) /\ Cardinality(Matching(c, q, s)) <= q.candidates)
                           => Recall(c, q) = First(q.limit, Eligible(c, q), Ranked)
      BY DEF RecallFaithful
    <2> DEFINE all == UNION {Matching(c, q, s) : s \in RequestedSpaces(q)}
               found == UNION {First(q.candidates, Matching(c, q, s), Nearer) :
                                 s \in RequestedSpaces(q)}
    <2>1. {i \in all : Kept(q, i)} = Eligible(c, q)
      BY MatchesAreEligible
    <2>2. found \subseteq all
      BY DEF First
    <2>3. Recall(c, q) \subseteq {i \in found : Kept(q, i)}
      BY DEF Recall, First
    <2>4. Recall(c, q) \subseteq Eligible(c, q)
      <3> HIDE DEF found, all
      <3> QED BY <2>1, <2>2, <2>3
    <2>5. ASSUME \A s \in RequestedSpaces(q) :
                   Allows(c, q, s) /\ Cardinality(Matching(c, q, s)) <= q.candidates
          PROVE  Recall(c, q) = First(q.limit, Eligible(c, q), Ranked)
      <3>1. \A s \in RequestedSpaces(q) :
               First(q.candidates, Matching(c, q, s), Nearer) = Matching(c, q, s)
        BY <2>5, SearchComplete
      <3>2. found = all
        BY <3>1
      <3>3. Recall(c, q) = First(q.limit, {i \in found : Kept(q, i)}, Ranked)
        BY <2>5 DEF Recall
      <3>4. {i \in found : Kept(q, i)} = Eligible(c, q)
        BY <2>1, <3>2
      <3> HIDE DEF found
      <3> QED BY <3>3, <3>4
    <2> QED BY <2>4, <2>5
  <1> QED BY <1>1, GatewayInvariant, PTL

------------------------------------------------------------------------------
(* Tenants *)

\* The operators the view takes over do not depend on whose view it is.
LEMMA ViewOperators ==
  ASSUME NEW t
  PROVE  /\ View(t)!LedgerKeys = LedgerKeys
         /\ \A k : View(t)!LedgerKey(k) = LedgerKey(k)
         /\ \A k : View(t)!NewRelations(k) = NewRelations(k)
         /\ \A k, row : View(t)!Target(k, row) = Target(k, row)
         /\ \A k, row : View(t)!NewContent(k, row) = NewContent(k, row)
         /\ \A row, c, s : View(t)!Evolve(row, c, s) = Evolve(row, c, s)
         /\ \A c, s, k : View(t)!Create(c, s, k) = Create(c, s, k)
         /\ \A i, row : View(t)!SnapshotOf(i, row) = SnapshotOf(i, row)
         /\ \A k, row : View(t)!Permits(k, row) <=> Permits(k, row)
         /\ \A k, res, v, a : View(t)!Completed(k, res, v, a) = Completed(k, res, v, a)
  <1>1. /\ View(t)!LedgerKeys = LedgerKeys
        /\ \A k : View(t)!LedgerKey(k) = LedgerKey(k)
        /\ \A k : View(t)!NewRelations(k) = NewRelations(k)
    BY DEF LedgerKeys, View!LedgerKeys, LedgerOps, View!LedgerOps, LedgerKey,
           View!LedgerKey, NewRelations, View!NewRelations
  <1>2. \A k, row : View(t)!Target(k, row) = Target(k, row)
    BY DEF Target, View!Target, LinkedState, View!LinkedState
  <1>3. \A k, row : View(t)!NewContent(k, row) = NewContent(k, row)
    BY DEF NewContent, View!NewContent
  <1>4. \A row, c, s : View(t)!Evolve(row, c, s) = Evolve(row, c, s)
    BY DEF Evolve, View!Evolve
  <1>5. \A c, s, k : View(t)!Create(c, s, k) = Create(c, s, k)
    BY DEF Create, View!Create
  <1>6. \A i, row : View(t)!SnapshotOf(i, row) = SnapshotOf(i, row)
    BY DEF SnapshotOf, View!SnapshotOf
  <1>7. \A k, row : View(t)!Permits(k, row) <=> Permits(k, row)
    <2>1. \A f, g, x : View(t)!AssertTransition(f, g, x) <=> AssertTransition(f, g, x)
      BY DEF AssertTransition, View!AssertTransition, Allowed, View!Allowed
    <2> QED BY <1>2, <2>1 DEF Permits, View!Permits
  <1>8. \A k, res, v, a : View(t)!Completed(k, res, v, a) = Completed(k, res, v, a)
    BY DEF Completed, View!Completed, Fingerprint, View!Fingerprint
  <1> QED BY <1>1, <1>2, <1>3, <1>4, <1>5, <1>6, <1>7, <1>8

\* A gateway starts with an empty store for every tenant.
LEMMA ViewInit ==
  ASSUME GatewayInit, NEW t \in Tenants
  PROVE  View(t)!AtomicInit
  <1>1. View(t)!LedgerKeys = LedgerKeys
    BY ViewOperators
  <1> QED BY <1>1, GatewayAssumption
          DEF GatewayInit, AtomicInit, View!AtomicInit, MemoriesOf, VersionsOf,
              RelationsOf, TombstonesOf, LedgerOf

\* A step leaves a view alone that touches no memory, history, tombstone or key of
\* its tenant.
LEMMA ViewKept ==
  ASSUME NEW t, relations = {}, relations' = {},
         \A i \in Ids : /\ holder'[i] = t <=> holder[i] = t
                        /\ holder[i] = t => memories'[i] = memories[i],
         {s \in versions' : holder'[s.id] = t} = {s \in versions : holder[s.id] = t},
         {i \in tombstones' : holder'[i] = t} = {i \in tombstones : holder[i] = t},
         \A o \in LedgerKeys : SentBy[o[2]] = t => ledger'[o] = ledger[o]
  PROVE  UNCHANGED View(t)!store
  <1>1. UNCHANGED MemoriesOf(t)
    BY DEF MemoriesOf
  <1>2. UNCHANGED <<VersionsOf(t), RelationsOf(t), TombstonesOf(t)>>
    BY DEF VersionsOf, RelationsOf, TombstonesOf
  <1>3. UNCHANGED LedgerOf(t)
    BY DEF LedgerOf
  <1> QED BY <1>1, <1>2, <1>3 DEF View!store

\* The tenant that captures sees a write; the others see nothing, for the identifier
\* was nobody's.
LEMMA CaptureSeen ==
  ASSUME GatewayInv, NEW r \in Calls, Capture(r), NEW t \in Tenants
  PROVE  UNCHANGED View(t)!store \/ View(t)!AtomicNext
  <1> DEFINE k == call[r].cmd
             row == Create(k.content, k.state, k.key)
  <1>1. PICK i \in Ids :
          /\ k.op = "write" /\ memories[i] = Null /\ i \notin tombstones
          /\ k.key # Null => \A j \in Ids : memories[j] # Null => memories[j].key # k.key
          /\ memories' = [memories EXCEPT ![i] = row]
          /\ versions' = versions \cup {SnapshotOf(i, row)}
          /\ UNCHANGED <<relations, tombstones, ledger>>
          /\ holder' = [holder EXCEPT ![i] = Tenant(call[r].conn)]
    BY DEF Capture, AtomicWrite
  <1>2. k \in Commands /\ SnapshotOf(i, row).id = i
    <2>1. call[r] # Idle
      BY DEF Capture, Admitted, Idle
    <2> QED BY <1>1, <2>1, CallFacts, CreatedRow
  <1> HIDE DEF row
  <1>3. /\ memories \in [Ids -> Row \cup {Null}] /\ tombstones \subseteq Ids
        /\ holder \in [Ids -> Tenants \cup {Null}] /\ relations = {}
        /\ \A s \in versions : s.id \in Ids /\ holder[s.id] # Null
        /\ holder[i] = Null /\ t # Null
    BY <1>1, GatewayAssumption
       DEF GatewayInv, GatewayTypeOK, CapturedOnly, HolderOK, Snapshot
  <1>4. /\ memories'[i] = row /\ holder'[i] = Tenant(call[r].conn)
        /\ \A j \in Ids \ {i} : memories'[j] = memories[j] /\ holder'[j] = holder[j]
    BY <1>1, <1>3
  <1>5. {j \in tombstones' : holder'[j] = t} = {j \in tombstones : holder[j] = t}
    BY <1>1, <1>3, <1>4
  <1>6. CASE Tenant(call[r].conn) # t
    <2>1. {s \in versions' : holder'[s.id] = t} = {s \in versions : holder[s.id] = t}
      BY <1>1, <1>2, <1>3, <1>4, <1>6
    <2>2. \A j \in Ids : /\ holder'[j] = t <=> holder[j] = t
                         /\ holder[j] = t => memories'[j] = memories[j]
      BY <1>3, <1>4, <1>6
    <2> QED BY <1>1, <1>3, <1>5, <2>1, <2>2, ViewKept
  <1>7. CASE Tenant(call[r].conn) = t
    <2>1. MemoriesOf(t)' = [MemoriesOf(t) EXCEPT ![i] = row]
      BY <1>3, <1>4, <1>7 DEF MemoriesOf
    <2>2. VersionsOf(t)' = VersionsOf(t) \cup {SnapshotOf(i, row)}
      BY <1>1, <1>2, <1>3, <1>4, <1>7 DEF VersionsOf
    <2>3. UNCHANGED <<RelationsOf(t), TombstonesOf(t), LedgerOf(t)>>
      BY <1>1, <1>3, <1>5 DEF RelationsOf, TombstonesOf, LedgerOf
    <2>4. /\ MemoriesOf(t)[i] = Null /\ i \notin TombstonesOf(t)
          /\ k.key # Null =>
               \A j \in Ids : MemoriesOf(t)[j] # Null => MemoriesOf(t)[j].key # k.key
      BY <1>1, <1>3 DEF MemoriesOf, TombstonesOf
    <2>5. View(t)!AtomicWrite(k, i)
      <3>1. /\ View(t)!Create(k.content, k.state, k.key) = row
            /\ View(t)!SnapshotOf(i, row) = SnapshotOf(i, row)
        BY ViewOperators DEF row
      <3> QED BY <1>1, <2>1, <2>2, <2>3, <2>4, <3>1 DEF View!AtomicWrite
    <2> QED BY <1>2, <2>5 DEF View!AtomicNext
  <1> QED BY <1>6, <1>7

\* A key is completed in the view of the tenant that sent it and in no other.
LEMMA RecordSeen ==
  ASSUME GatewayInv, NEW k \in Command, LedgerKey(k) \in LedgerKeys, k.key # Null,
         NEW res, NEW v, NEW a, Record(k, res, v, a), Unclaimed(k), NEW t
  PROVE  /\ SentBy[k.key] = t =>
              /\ View(t)!Unclaimed(k)
              /\ View(t)!Record(k, res, v, a)
         /\ SentBy[k.key] # t =>
              \A o \in LedgerKeys : SentBy[o[2]] = t => ledger'[o] = ledger[o]
  <1> DEFINE e == Completed(k, res, v, a)
  <1>1. ledger' = [ledger EXCEPT ![LedgerKey(k)] = e] /\ ledger[LedgerKey(k)] = Null
    BY DEF Record, Unclaimed
  <1>2. ledger \in [LedgerKeys -> Entry \cup {Null}] /\ LedgerKey(k)[2] = k.key
    BY DEF GatewayInv, GatewayTypeOK, LedgerKey
  <1>3. SentBy[k.key] # t => \A o \in LedgerKeys : SentBy[o[2]] = t => ledger'[o] = ledger[o]
    <2> HIDE DEF e
    <2> QED BY <1>1, <1>2
  <1>4. ASSUME SentBy[k.key] = t PROVE View(t)!Unclaimed(k) /\ View(t)!Record(k, res, v, a)
    <2>1. LedgerOf(t)[LedgerKey(k)] = Null
      BY <1>1 DEF LedgerOf
    <2>2. LedgerOf(t)' = [LedgerOf(t) EXCEPT ![LedgerKey(k)] = e]
      <3> HIDE DEF e
      <3> QED BY <1>1, <1>2, <1>4 DEF LedgerOf
    <2>3. View(t)!LedgerKey(k) = LedgerKey(k) /\ View(t)!Completed(k, res, v, a) = e
      BY ViewOperators
    <2> HIDE DEF e
    <2> QED BY <2>1, <2>2, <2>3 DEF View!Unclaimed, View!Record
  <1> QED BY <1>3, <1>4

\* confirm, pin and update reach a memory of the caller only.
LEMMA ChangeSeen ==
  ASSUME GatewayInv, NEW r \in Calls, Confirm(r) \/ Pin(r) \/ Update(r), NEW t \in Tenants
  PROVE  UNCHANGED View(t)!store \/ View(t)!AtomicNext
  <1> DEFINE k == call[r].cmd
             row == memories[k.id]
             new == Evolve(row, NewContent(k, row), Target(k, row))
  <1>1. /\ call[r] # Idle /\ k.op \in {"confirm", "pin", "update"}
        /\ UNCHANGED holder /\ holder[k.id] = Tenant(call[r].conn)
        /\ AtomicChange(k) \/ AtomicKeep(k)
    BY DEF Confirm, Pin, Update, Admitted, Idle, Mine
  <1>2. /\ k \in Command /\ WellFormed(k) /\ k.key # Null /\ k.rel = Null /\ k \in Commands
        /\ LedgerKey(k) \in LedgerKeys /\ k.id \in Ids
        /\ SentBy[k.key] = Tenant(call[r].conn)
    BY <1>1, CallFacts, StoreAssumption DEF LedgerOps
  <1>3. /\ memories \in [Ids -> Row \cup {Null}] /\ relations = {}
        /\ \A s \in versions : s.id \in Ids
    BY DEF GatewayInv, GatewayTypeOK, CapturedOnly, Snapshot
  <1>4. NewRelations(k) = {}
    BY <1>2 DEF NewRelations
  <1>5. SnapshotOf(k.id, new).id = k.id
    BY DEF SnapshotOf
  <1>6. CASE AtomicChange(k)
    <2>1. /\ Unclaimed(k) /\ Permits(k, row) /\ (k.op = "pin" => row.state # k.state)
          /\ memories' = [memories EXCEPT ![k.id] = new]
          /\ versions' = versions \cup {SnapshotOf(k.id, new)}
          /\ relations' = {} /\ tombstones' = tombstones
          /\ Record(k, "updated", new.version, new)
      BY <1>3, <1>4, <1>6 DEF AtomicChange
    <2> HIDE DEF new
    <2>2. CASE Tenant(call[r].conn) # t
      <3>1. \A o \in LedgerKeys : SentBy[o[2]] = t => ledger'[o] = ledger[o]
        BY <1>2, <2>1, <2>2, RecordSeen
      <3>2. \A i \in Ids : holder[i] = t => memories'[i] = memories[i]
        BY <1>1, <1>2, <1>3, <2>1, <2>2
      <3>3. {s \in versions' : holder'[s.id] = t} = {s \in versions : holder[s.id] = t}
        BY <1>1, <1>5, <2>1, <2>2
      <3> QED BY <1>1, <1>3, <2>1, <3>1, <3>2, <3>3, ViewKept
    <2>3. CASE Tenant(call[r].conn) = t
      <3>1. View(t)!Unclaimed(k) /\ View(t)!Record(k, "updated", new.version, new)
        BY <1>2, <2>1, <2>3, RecordSeen
      <3>2. MemoriesOf(t)[k.id] = row
        BY <1>1, <1>2, <2>3 DEF MemoriesOf
      <3>3. MemoriesOf(t)' = [MemoriesOf(t) EXCEPT ![k.id] = new]
        BY <1>1, <1>2, <1>3, <2>1, <2>3 DEF MemoriesOf
      <3>4. VersionsOf(t)' = VersionsOf(t) \cup {SnapshotOf(k.id, new)}
        BY <1>1, <1>5, <2>1, <2>3 DEF VersionsOf
      <3>5. /\ RelationsOf(t)' = RelationsOf(t) \cup NewRelations(k)
            /\ UNCHANGED TombstonesOf(t)
        BY <1>1, <1>3, <1>4, <2>1 DEF RelationsOf, TombstonesOf
      <3>6. View(t)!Linkable(k)
        BY <1>4, ViewOperators DEF View!Linkable
      <3>7. View(t)!AtomicChange(k)
        <4>1. View(t)!Evolve(row, View(t)!NewContent(k, row), View(t)!Target(k, row)) = new
          BY ViewOperators DEF new
        <4> HIDE DEF row
        <4> QED BY <1>1, <2>1, <3>1, <3>2, <3>3, <3>4, <3>5, <3>6, <4>1, ViewOperators
                DEF View!AtomicChange
      <3> QED BY <1>2, <3>7 DEF View!AtomicNext
    <2> QED BY <2>2, <2>3
  <1>7. CASE AtomicKeep(k)
    <2>1. /\ k.op = "pin" /\ Unclaimed(k) /\ Permits(k, row) /\ row.state = k.state
          /\ Record(k, "updated", row.version, row)
          /\ UNCHANGED <<memories, versions, relations, tombstones>>
      BY <1>7 DEF AtomicKeep
    <2>2. CASE Tenant(call[r].conn) # t
      <3>1. \A o \in LedgerKeys : SentBy[o[2]] = t => ledger'[o] = ledger[o]
        BY <1>2, <2>1, <2>2, RecordSeen
      <3> QED BY <1>1, <1>3, <2>1, <3>1, ViewKept
    <2>3. CASE Tenant(call[r].conn) = t
      <3>1. View(t)!Unclaimed(k) /\ View(t)!Record(k, "updated", row.version, row)
        BY <1>2, <2>1, <2>3, RecordSeen
      <3>2. MemoriesOf(t)[k.id] = row
        BY <1>1, <1>2, <2>3 DEF MemoriesOf
      <3>3. UNCHANGED <<MemoriesOf(t), VersionsOf(t), RelationsOf(t), TombstonesOf(t)>>
        BY <1>1, <2>1 DEF MemoriesOf, VersionsOf, RelationsOf, TombstonesOf
      <3>4. View(t)!AtomicKeep(k)
        BY <2>1, <3>1, <3>2, <3>3, ViewOperators DEF View!AtomicKeep
      <3> QED BY <1>2, <3>4 DEF View!AtomicNext
    <2> QED BY <2>2, <2>3
  <1> QED BY <1>1, <1>6, <1>7

\* So do forget and discard; a forget of a memory of another tenant is, to the
\* caller, one of a memory there is not.
LEMMA RemoveSeen ==
  ASSUME GatewayInv, NEW r \in Calls, Discard(r) \/ Forget(r), NEW t \in Tenants
  PROVE  UNCHANGED View(t)!store \/ View(t)!AtomicNext
  <1> DEFINE k == call[r].cmd
             u == Tenant(call[r].conn)
  <1>1. /\ call[r] # Idle /\ k.op \in {"forget", "discard"} /\ UNCHANGED holder
        /\ \/ holder[k.id] = u /\ AtomicRemove(k)
           \/ /\ k.op = "forget" /\ ~(holder[k.id] = u /\ memories[k.id] # Null) /\ Unclaimed(k)
              /\ Record(k, "already_absent", 0, Null)
              /\ UNCHANGED <<memories, versions, relations, tombstones>>
    BY DEF Discard, Forget, Admitted, Idle, Mine
  <1>2. /\ k \in Command /\ k.key # Null /\ k \in Commands
        /\ LedgerKey(k) \in LedgerKeys /\ k.id \in Ids /\ SentBy[k.key] = u
    BY <1>1, CallFacts, StoreAssumption DEF LedgerOps
  <1>3. /\ memories \in [Ids -> Row \cup {Null}] /\ relations = {} /\ tombstones \subseteq Ids
        /\ \A s \in versions : s.id \in Ids
    BY DEF GatewayInv, GatewayTypeOK, CapturedOnly, Snapshot
  <1>4. CASE holder[k.id] = u /\ AtomicRemove(k)
    <2>1. /\ Unclaimed(k) /\ memories[k.id] # Null
          /\ (k.op = "discard" => Permits(k, memories[k.id]))
          /\ memories' = [memories EXCEPT ![k.id] = Null]
          /\ versions' = {s \in versions : s.id # k.id}
          /\ relations' = {}
          /\ tombstones' = tombstones \cup {k.id}
          /\ Record(k, "forgotten", 0, Null)
      BY <1>3, <1>4 DEF AtomicRemove
    <2>2. CASE u # t
      <3>1. \A o \in LedgerKeys : SentBy[o[2]] = t => ledger'[o] = ledger[o]
        BY <1>2, <2>1, <2>2, RecordSeen
      <3>2. \A i \in Ids : holder[i] = t => memories'[i] = memories[i]
        BY <1>2, <1>3, <1>4, <2>1, <2>2
      <3>3. /\ {s \in versions' : holder'[s.id] = t} = {s \in versions : holder[s.id] = t}
            /\ {i \in tombstones' : holder'[i] = t} = {i \in tombstones : holder[i] = t}
        BY <1>1, <1>4, <2>1, <2>2
      <3> QED BY <1>1, <1>3, <2>1, <3>1, <3>2, <3>3, ViewKept
    <2>3. CASE u = t
      <3>1. View(t)!Unclaimed(k) /\ View(t)!Record(k, "forgotten", 0, Null)
        BY <1>2, <2>1, <2>3, RecordSeen
      <3>2. MemoriesOf(t)[k.id] = memories[k.id]
        BY <1>2, <1>4, <2>3 DEF MemoriesOf
      <3>3. MemoriesOf(t)' = [MemoriesOf(t) EXCEPT ![k.id] = Null]
        BY <1>1, <1>2, <1>3, <1>4, <2>1, <2>3 DEF MemoriesOf
      <3>4. /\ VersionsOf(t)' = {s \in VersionsOf(t) : s.id # k.id}
            /\ TombstonesOf(t)' = TombstonesOf(t) \cup {k.id}
            /\ RelationsOf(t)' = {x \in RelationsOf(t) : k.id \notin {x.source, x.target}}
        BY <1>1, <1>3, <1>4, <2>1, <2>3 DEF VersionsOf, TombstonesOf, RelationsOf
      <3>5. View(t)!AtomicRemove(k)
        BY <1>1, <2>1, <3>1, <3>2, <3>3, <3>4, ViewOperators DEF View!AtomicRemove
      <3> QED BY <1>2, <3>5 DEF View!AtomicNext
    <2> QED BY <2>2, <2>3
  <1>5. CASE /\ k.op = "forget" /\ ~(holder[k.id] = u /\ memories[k.id] # Null) /\ Unclaimed(k)
             /\ Record(k, "already_absent", 0, Null)
             /\ UNCHANGED <<memories, versions, relations, tombstones>>
    <2>1. CASE u # t
      <3>1. \A o \in LedgerKeys : SentBy[o[2]] = t => ledger'[o] = ledger[o]
        BY <1>2, <1>5, <2>1, RecordSeen
      <3> QED BY <1>1, <1>3, <1>5, <3>1, ViewKept
    <2>2. CASE u = t
      <3>1. View(t)!Unclaimed(k) /\ View(t)!Record(k, "already_absent", 0, Null)
        BY <1>2, <1>5, <2>2, RecordSeen
      <3>2. MemoriesOf(t)[k.id] = Null
        BY <1>2, <1>5, <2>2 DEF MemoriesOf
      <3>3. UNCHANGED <<MemoriesOf(t), VersionsOf(t), RelationsOf(t), TombstonesOf(t)>>
        BY <1>1, <1>5 DEF MemoriesOf, VersionsOf, RelationsOf, TombstonesOf
      <3>4. View(t)!AtomicAbsent(k)
        BY <1>5, <3>1, <3>2, <3>3 DEF View!AtomicAbsent
      <3> QED BY <1>2, <3>4 DEF View!AtomicNext
    <2> QED BY <2>1, <2>2
  <1> QED BY <1>1, <1>4, <1>5

\* Each tenant sees a store of its own, for any number of tenants and calls: the
\* gateway implements AtomicStore once per tenant (EachTenantAlone).
THEOREM TenantsAlone == GatewaySpec => EachTenantAlone
  <1>1. GatewayInit => \A t \in Tenants : View(t)!AtomicInit
    BY ViewInit
  <1>2. GatewayInv /\ [GatewayNext]_gateway =>
          [UNCHANGED <<store, holder>> \/
             \A t \in Tenants : UNCHANGED View(t)!store \/ View(t)!AtomicNext]_gateway
    <2> SUFFICES ASSUME GatewayInv, GatewayNext, ~UNCHANGED <<store, holder>>, NEW t \in Tenants
                 PROVE  UNCHANGED View(t)!store \/ View(t)!AtomicNext
      BY DEF gateway
    <2>1. ASSUME NEW r \in Calls, CallStep(r)
          PROVE  UNCHANGED View(t)!store \/ View(t)!AtomicNext
      <3>1. ~(ReplayDiscard(r) \/ Fail(r) \/ Mark(r))
        BY DEF ReplayDiscard, Fail, Mark
      <3> QED BY <2>1, <3>1, CaptureSeen, ChangeSeen, RemoveSeen DEF CallStep
    <2>2. /\ \A r \in Calls, c \in Connections, k \in Commands : ~Invoke(r, c, k)
          /\ \A a, c \in Connections : ~Revoke(a, c)
          /\ ~Restart
      BY DEF Invoke, Revoke, Restart
    <2> QED BY <2>1, <2>2 DEF GatewayNext
  <1> QED BY <1>1, <1>2, GatewayInvariant, PTL DEF GatewaySpec, EachTenantAlone
==============================================================================
