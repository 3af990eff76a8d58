------------------------ MODULE TenantRequestsProofs -------------------------
(***************************************************************************)
(* Tenancy of the PostgreSQL store, for any tenants, owners, commands and  *)
(* keys, and any number of requests and rewraps in flight: TenantInv is    *)
(* kept, and no step crosses the tenant boundary.                          *)
(***************************************************************************)
EXTENDS TenantRequests, TLAPS

LEMMA BoundType ==
  ASSUME NEW c \in Commands
  PROVE  /\ Bound(c) \in Tenants \cup {None}
         /\ c.id \in Ids /\ c.owner \in Owners /\ c.expected \in Nat \ {0}
         /\ c.content \in Contents \cup {None}
  BY TenantAssumption DEF Bound, Command

\* A row that the policy admits is on the side of the request ...
LEMMA VisibleSide ==
  ASSUME NEW c \in Commands, NEW t \in Tenants \cup {None}, Visible(c, t)
  PROVE  t = Side(c)
  BY TenantAssumption DEF Visible, Side

\* ... and one that its predicates select is its tenant's.
LEMMA SelectedSide ==
  ASSUME NEW c \in Commands, NEW row \in Row, Begins(c), Selected(c, row),
         Visible(c, row.tenant)
  PROVE  row.tenant = Bound(c)
  <1>1. row.tenant \in Tenants \cup {None}
    BY DEF Row
  <1> QED BY <1>1, TenantAssumption DEF Begins, Selected, Visible

\* What encrypt() returns can be decrypted by the same tenant for the same memory.
LEMMA EncryptOpens ==
  ASSUME NEW t \in Tenants, NEW i \in Ids, NEW content \in Contents, NEW key \in Nat
  PROVE  /\ Encrypt(t, i, content, key) \in Text
         /\ Encrypt(t, i, content, key).content = content
         /\ Decrypts(t, i, Encrypt(t, i, content, key))
  BY DEF Encrypt, Wrap, Decrypts, Text

LEMMA FieldsSealed ==
  ASSUME NEW c \in Commands, NEW i \in Ids, NEW content \in Contents
  PROVE  /\ CloudFields(c, i, content) \in Text
         /\ CloudFields(c, i, content).content = content
         /\ Sealed(Bound(c), i, CloudFields(c, i, content))
  <1>1. CASE Bound(c) = None
    BY <1>1 DEF CloudFields, Sealed, Text
  <1>2. CASE Bound(c) # None
    <2>1. Bound(c) \in Tenants
      BY <1>2, BoundType
    <2> QED BY <1>2, <2>1, EncryptOpens DEF CloudFields, Sealed
  <1> QED BY <1>1, <1>2

\* A counter of a table of counters goes up by one.
LEMMA CountOne ==
  ASSUME NEW D, NEW f \in [D -> Nat], NEW d \in D
  PROVE  /\ [f EXCEPT ![d] = @ + 1] \in [D -> Nat]
         /\ \A e \in D : [f EXCEPT ![d] = @ + 1][e] = IF e = d THEN f[e] + 1 ELSE f[e]
  OBVIOUS

\* The trail of tenant b, and no other, gains one event.
OneEvent(b, action, i) ==
  /\ audit' \in [Tenants \X Actions \X Ids -> Nat]
  /\ \A t \in Tenants, a \in Actions, j \in Ids :
       audit'[<<t, a, j>>] = IF t = b /\ a = action /\ j = i
                             THEN audit[<<t, a, j>>] + 1 ELSE audit[<<t, a, j>>]

\* _audit records an event for the bound tenant; without one it records nothing.
LEMMA AuditStep ==
  ASSUME TenantTypeOK, NEW c \in Commands, NEW action \in Actions, NEW i \in Ids,
         Audited(c, action, i)
  PROVE  OneEvent(Bound(c), action, i)
  <1>1. CASE Bound(c) = None
    BY <1>1, TenantAssumption DEF Audited, TenantTypeOK, OneEvent
  <1>2. CASE Bound(c) # None
    <2>1. Bound(c) \in Tenants
      BY <1>2, BoundType
    <2>2. audit' = [audit EXCEPT ![<<Bound(c), action, i>>] = @ + 1]
      BY <1>2 DEF Audited
    <2>4. ASSUME NEW t \in Tenants, NEW a \in Actions, NEW j \in Ids
          PROVE  /\ <<t, a, j>> \in Tenants \X Actions \X Ids
                 /\ <<t, a, j>> = <<Bound(c), action, i>> <=>
                      t = Bound(c) /\ a = action /\ j = i
      OBVIOUS
    <2>5. <<Bound(c), action, i>> \in Tenants \X Actions \X Ids
      BY <2>1
    <2>6. audit \in [Tenants \X Actions \X Ids -> Nat]
      BY DEF TenantTypeOK
    <2>7. /\ audit' \in [Tenants \X Actions \X Ids -> Nat]
          /\ \A e \in Tenants \X Actions \X Ids :
               audit'[e] = IF e = <<Bound(c), action, i>> THEN audit[e] + 1 ELSE audit[e]
      BY <2>2, <2>5, <2>6, CountOne
    <2> QED BY <2>4, <2>7 DEF OneEvent
  <1> QED BY <1>1, <1>2

LEMMA TenantInitInv == TenantInit => TenantInv
  <1> SUFFICES ASSUME TenantInit PROVE TenantInv
    OBVIOUS
  <1>1. TenantTypeOK
    <2>1. versions \in [Ids -> Seq(Text)]
      BY DEF TenantInit
    <2> QED BY <2>1 DEF TenantInit, TenantTypeOK
  <1>2. IssuedFirst
    BY DEF TenantInit, IssuedFirst, Actions
  <1>3. AuditAccounts
    BY DEF TenantInit, AuditAccounts, Actions
  <1>4. SealedForItsTenant /\ CallsApart /\ SelectedOK /\ StagedOK /\ OnlyLateRewrapsRevert
    BY <1>1 DEF TenantInit, SealedForItsTenant, CallsApart, SelectedOK, StagedOK,
                OnlyLateRewrapsRevert
  <1> QED BY <1>2, <1>3, <1>4 DEF TenantInv

------------------------------------------------------------------------------
(* Steps that leave the tables alone *)

LEMMA CallStep ==
  ASSUME TenantInv, UNCHANGED <<tables, rewraps, raced>>,
         calls' \in [Requests -> Call \cup {None}], CallsApart'
  PROVE  TenantInv'
  <1>1. TenantTypeOK'
    BY DEF TenantInv, SealedForItsTenant, TenantTypeOK, tables
  <1>2. SealedForItsTenant'
    BY <1>1 DEF TenantInv, SealedForItsTenant, tables
  <1>3. IssuedFirst' /\ OnlyLateRewrapsRevert'
    BY DEF TenantInv, IssuedFirst, OnlyLateRewrapsRevert, tables
  <1>4. SelectedOK' /\ StagedOK'
    BY DEF TenantInv, SelectedOK, StagedOK, tables
  <1>5. AuditAccounts'
    BY DEF TenantInv, AuditAccounts, tables
  <1> QED BY <1>2, <1>3, <1>4, <1>5 DEF TenantInv

LEMMA RewrapStep ==
  ASSUME TenantInv, UNCHANGED <<tables, calls, raced>>,
         rewraps' \in [Rewraps -> Rewrap \cup {None}], SelectedOK', StagedOK'
  PROVE  TenantInv'
  <1>1. TenantTypeOK'
    BY DEF TenantInv, SealedForItsTenant, TenantTypeOK, tables
  <1>2. SealedForItsTenant'
    BY <1>1 DEF TenantInv, SealedForItsTenant, tables
  <1>3. IssuedFirst' /\ OnlyLateRewrapsRevert'
    BY DEF TenantInv, IssuedFirst, OnlyLateRewrapsRevert, tables
  <1>4. CallsApart'
    BY DEF TenantInv, CallsApart
  <1>5. AuditAccounts'
    BY DEF TenantInv, AuditAccounts, tables
  <1> QED BY <1>2, <1>3, <1>4, <1>5 DEF TenantInv

\* The call that changes has read on its own side.
LEMMA OneCall ==
  ASSUME TenantInv, NEW r \in Requests, NEW k \in Call \cup {None},
         calls' = [calls EXCEPT ![r] = k],
         k # None => /\ \A row \in k.rows : row.tenant = Side(k.cmd)
                     /\ k.stage = "loaded" => k.rows # {}
  PROVE  calls' \in [Requests -> Call \cup {None}] /\ CallsApart'
  <1>1. /\ calls' \in [Requests -> Call \cup {None}]
        /\ calls'[r] = k /\ \A s \in Requests \ {r} : calls'[s] = calls[s]
    BY DEF TenantInv, SealedForItsTenant, TenantTypeOK
  <1> QED BY <1>1 DEF TenantInv, CallsApart, Side, Bound

LEMMA ServedCall ==
  ASSUME TenantInv, NEW r \in Requests, NEW tool, NEW stage, Serves(r, tool, stage)
  PROVE  /\ calls[r] # None /\ calls[r] \in Call /\ calls[r].cmd \in Commands
         /\ Begins(calls[r].cmd) /\ calls[r].stage = stage /\ calls[r].cmd.tool = tool
  BY DEF TenantInv, SealedForItsTenant, TenantTypeOK, Serves, Call

\* A call that has ended has read rows of its own side.
LEMMA DoneCall ==
  ASSUME TenantInv, NEW r \in Requests, NEW tool, NEW stage, Serves(r, tool, stage),
         NEW read \in SUBSET Row,
         \A row \in read : row.tenant = Side(calls[r].cmd),
         Done(r, read)
  PROVE  calls' \in [Requests -> Call \cup {None}] /\ CallsApart'
  <1> DEFINE k == [cmd |-> calls[r].cmd, stage |-> "done", rows |-> read]
  <1>1. calls[r] \in Call /\ calls[r].cmd \in Commands
    BY ServedCall
  <1>2. k \in Call
    BY <1>1 DEF Call
  <1>3. calls' = [calls EXCEPT ![r] = k]
    BY DEF Done, TenantInv, SealedForItsTenant, TenantTypeOK
  <1> QED BY <1>2, <1>3, OneCall

LEMMA ReceiveInv ==
  ASSUME TenantInv, NEW r \in Requests, NEW c \in Commands, Receive(r, c)
  PROVE  TenantInv'
  <1> DEFINE k == [cmd |-> c, stage |-> "received", rows |-> {}]
  <1>1. k \in Call
    BY DEF Call
  <1>2. calls' = [calls EXCEPT ![r] = k] /\ UNCHANGED <<tables, rewraps, raced>>
    BY DEF Receive
  <1> QED BY <1>1, <1>2, OneCall, CallStep

LEMMA AnswerInv ==
  ASSUME TenantInv, NEW r \in Requests, Answer(r)
  PROVE  TenantInv'
  BY OneCall, CallStep DEF Answer

LEMMA SearchInv ==
  ASSUME TenantInv, NEW r \in Requests, Search(r)
  PROVE  TenantInv'
  <1> DEFINE c == calls[r].cmd
             read == {rows[i] : i \in Found(c)}
  <1>1. c \in Commands /\ Serves(r, "search", "received")
    BY ServedCall DEF Search
  <1>2. \A i \in Found(c) : rows[i] \in Row /\ rows[i].tenant = Side(c)
    <2> SUFFICES ASSUME NEW i \in Found(c) PROVE rows[i] \in Row /\ rows[i].tenant = Side(c)
      OBVIOUS
    <2>1. rows[i] \in Row /\ Visible(c, rows[i].tenant)
      BY DEF Found, Selected, TenantInv, SealedForItsTenant, TenantTypeOK
    <2>2. rows[i].tenant \in Tenants \cup {None}
      BY <2>1 DEF Row
    <2> QED BY <1>1, <2>1, <2>2, VisibleSide
  <1>3. read \in SUBSET Row /\ \A row \in read : row.tenant = Side(c)
    BY <1>2
  <1>4. Done(r, read) /\ UNCHANGED <<tables, rewraps, raced>>
    BY DEF Search
  <1>5. calls' \in [Requests -> Call \cup {None}] /\ CallsApart'
    BY <1>1, <1>3, <1>4, DoneCall
  <1> QED BY <1>4, <1>5, CallStep

LEMMA LoadInv ==
  ASSUME TenantInv, NEW r \in Requests, Load(r)
  PROVE  TenantInv'
  <1> DEFINE c == calls[r].cmd
             row == rows[c.id]
             k == [cmd |-> c, stage |-> "loaded", rows |-> {row}]
  <1>1. c \in Commands /\ c.id \in Ids /\ calls[r] \in Call
    BY ServedCall, BoundType DEF Load
  <1>2. row \in Row /\ Visible(c, row.tenant)
    BY <1>1 DEF Load, Selected, TenantInv, SealedForItsTenant, TenantTypeOK
  <1>3. row.tenant = Side(c)
    <2>1. row.tenant \in Tenants \cup {None}
      BY <1>2 DEF Row
    <2> QED BY <1>1, <1>2, <2>1, VisibleSide
  <1>4. k \in Call
    BY <1>1, <1>2 DEF Call
  <1>5. calls' = [calls EXCEPT ![r] = k] /\ UNCHANGED <<tables, rewraps, raced>>
    BY DEF Load
  <1>6. k.rows = {row} /\ k.cmd = c
    OBVIOUS
  <1> HIDE DEF k, row, c
  <1>7. calls' \in [Requests -> Call \cup {None}] /\ CallsApart'
    BY <1>3, <1>4, <1>5, <1>6, OneCall
  <1> QED BY <1>5, <1>7, CallStep

------------------------------------------------------------------------------
(* Steps of requests that change a row *)

\* A row that no rewrap has locked is created under a new identifier, replaced
\* by a newer version of the same tenant, or removed.  What the rewraps have
\* selected and staged stays as it was to them.
LEMMA RowStep ==
  ASSUME TenantInv, NEW i \in Ids, NEW x \in Row \cup {None}, NEW vs \in Seq(Text),
         rows' = [rows EXCEPT ![i] = x], versions' = [versions EXCEPT ![i] = vs],
         UNCHANGED rewraps, ~Locked(i),
         raced' = raced \/ raced' = raced \ {i},
         issued \subseteq issued', issued' \subseteq Ids,
         tombstones' \subseteq Tenants \X Ids, audit' \in [Tenants \X Actions \X Ids -> Nat],
         calls' \in [Requests -> Call \cup {None}], CallsApart',
         x # None =>
           /\ Sealed(x.tenant, i, x.text)
           /\ \A v \in DOMAIN vs : Sealed(x.tenant, i, vs[v])
           /\ Len(vs) = x.version /\ x.text.content = vs[x.version].content
           /\ \/ i \notin issued
              \/ rows[i] # None /\ x.tenant = rows[i].tenant /\ rows[i].version < x.version,
         IssuedFirst', AuditAccounts'
  PROVE  TenantInv'
  <1>1. /\ rows'[i] = x /\ versions'[i] = vs
        /\ \A j \in Ids \ {i} : rows'[j] = rows[j] /\ versions'[j] = versions[j]
        /\ \A j \in Ids \ {i} : j \in raced' <=> j \in raced
    BY DEF TenantInv, SealedForItsTenant, TenantTypeOK
  <1>2. TenantTypeOK'
    BY DEF TenantInv, SealedForItsTenant, TenantTypeOK
  <1>3. SealedForItsTenant'
    <2> SUFFICES ASSUME NEW j \in Ids, rows'[j] # None
                 PROVE  /\ Sealed(rows'[j].tenant, j, rows'[j].text)
                        /\ \A v \in DOMAIN versions'[j] :
                             Sealed(rows'[j].tenant, j, versions'[j][v])
      BY <1>2 DEF SealedForItsTenant, Sealed, Decrypts
    <2>1. CASE j = i
      BY <1>1, <2>1
    <2>2. CASE j # i
      BY <1>1, <2>2 DEF TenantInv, SealedForItsTenant
    <2> QED BY <2>1, <2>2
  <1>4. OnlyLateRewrapsRevert'
    BY <1>1 DEF TenantInv, OnlyLateRewrapsRevert
  <1>5. SelectedOK'
    <2> SUFFICES ASSUME NEW w \in Rewraps, NEW j \in Ids,
                        rewraps[w] # None, rewraps[w].selected[j] # None
                 PROVE  LET old == rewraps[w].selected[j] IN
                        /\ j \in issued'
                        /\ old.tenant = rewraps[w].tenant
                        /\ rows'[j] # None =>
                             /\ rows'[j].tenant = old.tenant
                             /\ old.version <= rows'[j].version
                             /\ old.version = rows'[j].version =>
                                  old.text.content = versions'[j][old.version].content
                                  \/ j \in raced'
      BY DEF SelectedOK
    <2> DEFINE old == rewraps[w].selected[j]
    <2>1. CASE j # i
      BY <1>1, <2>1 DEF TenantInv, SelectedOK
    <2>2. CASE j = i
      <3>1. /\ i \in issued /\ old.tenant = rewraps[w].tenant
            /\ rows[i] # None => rows[i].tenant = old.tenant /\ old.version <= rows[i].version
        BY <2>2 DEF TenantInv, SelectedOK
      <3>2. x # None => rows[i] \in Row /\ rows[i].version < x.version
                        /\ x.tenant = rows[i].tenant
        BY <3>1 DEF TenantInv, SealedForItsTenant, TenantTypeOK
      <3>3. old \in Row
        BY DEF TenantInv, SealedForItsTenant, TenantTypeOK, Rewrap
      <3>4. x # None => old.version < x.version
        BY <3>1, <3>2, <3>3, TenantAssumption DEF Row
      <3>5. x # None => x.version \in Nat /\ old.version \in Nat
        BY <3>3 DEF Row
      <3> QED BY <1>1, <2>2, <3>1, <3>2, <3>4, <3>5, TenantAssumption
    <2> QED BY <2>1, <2>2
  <1>6. StagedOK'
    <2>1. \A w \in Rewraps : rewraps[w] # None => rewraps[w].staged[i] = None
      BY DEF Locked
    <2> QED BY <1>1, <2>1 DEF TenantInv, StagedOK, Decrypts
  <1> QED BY <1>3, <1>4, <1>5, <1>6 DEF TenantInv

\* A new row is on the side of the request that wrote it.
LEMMA WriteInv ==
  ASSUME TenantInv, NEW r \in Requests, Write(r)
  PROVE  TenantInv'
  <1> DEFINE c == calls[r].cmd
  <1>1. /\ c \in Commands /\ Serves(r, "write", "received") /\ c.tool = "write"
    BY ServedCall DEF Write
  <1>2. c.content \in Contents /\ c.owner \in Owners /\ Bound(c) \in Tenants \cup {None}
    BY <1>1, BoundType, TenantAssumption
  <1>3. PICK i \in Ids \ issued :
          /\ issued' = issued \cup {i}
          /\ rows' = [rows EXCEPT ![i] = [owner |-> c.owner, tenant |-> Bound(c), version |-> 1,
                                          text |-> CloudFields(c, i, c.content)]]
          /\ versions' = [versions EXCEPT ![i] = <<VersionValues(c, i, c.content)>>]
          /\ Audited(c, "memory.write", i)
    BY DEF Write
  <1>4. Done(r, {}) /\ UNCHANGED <<tombstones, rewraps, raced>>
    BY DEF Write
  <1> DEFINE text == CloudFields(c, i, c.content)
             x == [owner |-> c.owner, tenant |-> Bound(c), version |-> 1, text |-> text]
  <1>5. text \in Text /\ text.content = c.content /\ Sealed(Bound(c), i, text)
    BY <1>1, <1>2, FieldsSealed
  <1>6. calls' \in [Requests -> Call \cup {None}] /\ CallsApart'
    BY <1>1, <1>4, DoneCall
  <1>7. /\ audit' \in [Tenants \X Actions \X Ids -> Nat]
        /\ \A t \in Tenants, a \in Actions, j \in Ids :
             audit'[<<t, a, j>>] = IF t = Bound(c) /\ a = "memory.write" /\ j = i
                                   THEN audit[<<t, a, j>>] + 1 ELSE audit[<<t, a, j>>]
    <2>1. PICK action \in Actions : action = "memory.write" /\ Audited(c, action, i)
      BY <1>3 DEF Actions, Audited
    <2>2. TenantTypeOK
      BY DEF TenantInv, SealedForItsTenant
    <2> HIDE DEF c
    <2>3. OneEvent(Bound(c), action, i)
      BY <1>1, <2>1, <2>2, AuditStep
    <2> QED BY <2>1, <2>3 DEF OneEvent
  <1>8. /\ rows[i] = None /\ ~Locked(i)
        /\ \A t \in Tenants : <<t, i>> \notin tombstones /\ audit[<<t, "memory.update", i>>] = 0
    <2>1. rows[i] = None
      BY <1>3 DEF TenantInv, IssuedFirst
    <2>2. ~Locked(i)
      BY <2>1 DEF TenantInv, StagedOK, Locked
    <2> QED BY <1>3, <2>1, <2>2 DEF TenantInv, IssuedFirst
  <1>9. x \in Row /\ x # None /\ x.tenant = Bound(c) /\ x.version = 1 /\ x.text = text
    BY <1>2, <1>5, TenantAssumption DEF Row
  <1>10. rows' = [rows EXCEPT ![i] = x] /\ versions' = [versions EXCEPT ![i] = <<text>>]
    BY <1>3 DEF VersionValues
  <1> HIDE DEF x, text
  <1>11. rows'[i] = x /\ \A j \in Ids \ {i} : rows'[j] = rows[j]
    BY <1>10 DEF TenantInv, SealedForItsTenant, TenantTypeOK
  <1>12. IssuedFirst'
    BY <1>3, <1>4, <1>7, <1>11 DEF TenantInv, IssuedFirst, Actions
  <1>13. AuditAccounts'
    <2> SUFFICES ASSUME NEW t \in Tenants, NEW j \in Ids
                 PROVE  LET n(action) == audit'[<<t, action, j>>]
                            here == rows'[j] # None /\ rows'[j].tenant = t
                        IN /\ n("memory.write") = IF here \/ <<t, j>> \in tombstones THEN 1 ELSE 0
                           /\ n("memory.forget") = IF <<t, j>> \in tombstones THEN 1 ELSE 0
                           /\ here => <<t, j>> \notin tombstones
                                      /\ n("memory.update") = rows'[j].version - 1
      BY <1>4 DEF AuditAccounts
    <2>1. CASE j # i
      BY <1>7, <1>11, <2>1 DEF TenantInv, AuditAccounts, Actions
    <2>2. CASE j = i
      <3>1. audit[<<t, "memory.write", i>>] = 0 /\ audit[<<t, "memory.forget", i>>] = 0
        BY <1>8 DEF TenantInv, AuditAccounts
      <3> QED BY <1>7, <1>8, <1>9, <1>11, <2>2, <3>1 DEF Actions
    <2> QED BY <2>1, <2>2
  <1>14. <<text>> \in Seq(Text) /\ DOMAIN <<text>> = {1} /\ Len(<<text>>) = 1 /\ <<text>>[1] = text
    BY <1>5
  <1>15. issued \subseteq issued' /\ issued' \subseteq Ids /\ tombstones' \subseteq Tenants \X Ids
    BY <1>3, <1>4 DEF TenantInv, SealedForItsTenant, TenantTypeOK
  <1>16. /\ Sealed(x.tenant, i, x.text)
         /\ \A v \in DOMAIN <<text>> : Sealed(x.tenant, i, <<text>>[v])
         /\ Len(<<text>>) = x.version /\ x.text.content = <<text>>[x.version].content
    BY <1>5, <1>9, <1>14
  <1> HIDE DEF c
  <1> QED BY <1>3, <1>4, <1>6, <1>7, <1>8, <1>9, <1>10, <1>12, <1>13, <1>14, <1>15, <1>16, RowStep

\* The swapped row is on the side of the request, so the new version is too.
LEMMA UpdateInv ==
  ASSUME TenantInv, NEW r \in Requests, Update(r)
  PROVE  TenantInv'
  <1>1. PICK c \in Commands : c = calls[r].cmd /\ Serves(r, "update", "loaded")
    BY ServedCall DEF Update
  <1>2. PICK i \in Ids : i = c.id
    BY BoundType
  <1> DEFINE content == Merged(CHOOSE y \in calls[r].rows : TRUE, c)
             text == CloudFields(c, i, content)
             x == [owner |-> c.owner, tenant |-> Bound(c), version |-> c.expected + 1,
                   text |-> text]
             vs == Append(versions[i], text)
  <1>3. /\ rows[i] # None /\ rows[i].version = c.expected
        /\ Visible(c, rows[i].tenant) /\ Visible(c, Bound(c))
        /\ ~Locked(i)
        /\ rows' = [rows EXCEPT ![i] = x] /\ versions' = [versions EXCEPT ![i] = vs]
        /\ Audited(c, "memory.update", i)
        /\ raced' = raced \ {i} /\ Done(r, {})
        /\ UNCHANGED <<tombstones, issued, rewraps>>
    BY <1>1, <1>2 DEF Update, Swappable, Snapshot, VersionValues, TenantInv,
                      SealedForItsTenant, TenantTypeOK
  <1>4. /\ rows[i] \in Row /\ versions[i] \in Seq(Text) /\ Len(versions[i]) = c.expected
        /\ c.expected \in Nat \ {0} /\ c.owner \in Owners
        /\ Bound(c) \in Tenants \cup {None}
    BY <1>3, BoundType DEF TenantInv, SealedForItsTenant, TenantTypeOK, OnlyLateRewrapsRevert
  <1>5. rows[i].tenant = Bound(c)
    <2>1. rows[i].tenant \in Tenants \cup {None}
      BY <1>4 DEF Row
    <2> QED BY <1>3, <1>4, <2>1, VisibleSide
  <1>6. content \in Contents
    <2>1. calls[r].rows \subseteq Row /\ calls[r].rows # {}
      <3>1. calls[r] \in Call /\ calls[r] # None /\ calls[r].stage = "loaded"
        BY <1>1, ServedCall
      <3> QED BY <3>1 DEF Call, TenantInv, CallsApart
    <2>2. (CHOOSE y \in calls[r].rows : TRUE) \in Row
      BY <2>1
    <2>3. \A y \in Row : y.text.content \in Contents
      BY DEF Row, Text
    <2> QED BY <2>2, <2>3, BoundType DEF Merged
  <1>7. text \in Text /\ text.content = content /\ Sealed(Bound(c), i, text)
    BY <1>6, FieldsSealed
  <1> HIDE DEF content, text
  <1>8. x \in Row /\ x # None /\ x.tenant = Bound(c) /\ x.version = c.expected + 1 /\ x.text = text
    BY <1>4, <1>7, TenantAssumption DEF Row
  <1>9. /\ vs \in Seq(Text) /\ Len(vs) = c.expected + 1 /\ DOMAIN vs = 1..(c.expected + 1)
        /\ vs[c.expected + 1] = text
        /\ \A v \in 1..c.expected : vs[v] = versions[i][v]
        /\ DOMAIN versions[i] = 1..c.expected
    BY <1>4, <1>7
  <1>10. \A v \in DOMAIN vs : Sealed(Bound(c), i, vs[v])
    <2>1. \A v \in 1..c.expected : Sealed(Bound(c), i, versions[i][v])
      BY <1>3, <1>5, <1>9 DEF TenantInv, SealedForItsTenant
    <2>2. \A v \in DOMAIN vs : v \in 1..c.expected \/ v = c.expected + 1
      BY <1>4, <1>9
    <2> QED BY <1>7, <1>9, <2>1, <2>2
  <1>11. calls' \in [Requests -> Call \cup {None}] /\ CallsApart'
    BY <1>1, <1>3, DoneCall
  <1>12. /\ audit' \in [Tenants \X Actions \X Ids -> Nat]
         /\ \A t \in Tenants, a \in Actions, j \in Ids :
              audit'[<<t, a, j>>] = IF t = Bound(c) /\ a = "memory.update" /\ j = i
                                    THEN audit[<<t, a, j>>] + 1 ELSE audit[<<t, a, j>>]
    <2>1. PICK action \in Actions : action = "memory.update" /\ Audited(c, action, i)
      BY <1>3 DEF Actions, Audited
    <2>2. TenantTypeOK
      BY DEF TenantInv, SealedForItsTenant
    <2>3. OneEvent(Bound(c), action, i)
      BY <2>1, <2>2, AuditStep
    <2> QED BY <2>1, <2>3 DEF OneEvent
  <1> HIDE DEF x, vs
  <1>13. rows'[i] = x /\ \A j \in Ids \ {i} : rows'[j] = rows[j]
    BY <1>3 DEF TenantInv, SealedForItsTenant, TenantTypeOK
  <1>14. i \in issued
    BY <1>3 DEF TenantInv, IssuedFirst
  <1>15. IssuedFirst'
    BY <1>3, <1>12, <1>13, <1>14 DEF TenantInv, IssuedFirst, Actions
  <1>16. AuditAccounts'
    <2> SUFFICES ASSUME NEW t \in Tenants, NEW j \in Ids
                 PROVE  LET n(action) == audit'[<<t, action, j>>]
                            here == rows'[j] # None /\ rows'[j].tenant = t
                        IN /\ n("memory.write") = IF here \/ <<t, j>> \in tombstones THEN 1 ELSE 0
                           /\ n("memory.forget") = IF <<t, j>> \in tombstones THEN 1 ELSE 0
                           /\ here => <<t, j>> \notin tombstones
                                      /\ n("memory.update") = rows'[j].version - 1
      BY <1>3 DEF AuditAccounts
    <2>1. CASE j # i
      BY <1>12, <1>13, <2>1 DEF TenantInv, AuditAccounts, Actions
    <2>2. CASE j = i
      <3>1. CASE t = Bound(c)
        <4>1. /\ audit[<<t, "memory.write", i>>] = 1 /\ audit[<<t, "memory.forget", i>>] = 0
              /\ audit[<<t, "memory.update", i>>] = c.expected - 1 /\ <<t, i>> \notin tombstones
          BY <1>3, <1>5, <3>1 DEF TenantInv, AuditAccounts
        <4>2. /\ audit'[<<t, "memory.write", i>>] = 1 /\ audit'[<<t, "memory.forget", i>>] = 0
              /\ audit'[<<t, "memory.update", i>>] = (c.expected - 1) + 1
          BY <1>12, <3>1, <4>1 DEF Actions
        <4>3. rows'[i] # None /\ rows'[i].tenant = t /\ rows'[i].version = c.expected + 1
          BY <1>8, <1>13, <3>1
        <4> QED BY <1>4, <2>2, <4>1, <4>2, <4>3
      <3>2. CASE t # Bound(c)
        BY <1>3, <1>5, <1>8, <1>12, <1>13, <2>2, <3>2 DEF TenantInv, AuditAccounts, Actions
      <3> QED BY <3>1, <3>2
    <2> QED BY <2>1, <2>2
  <1>17. /\ Sealed(x.tenant, i, x.text) /\ \A v \in DOMAIN vs : Sealed(x.tenant, i, vs[v])
         /\ Len(vs) = x.version /\ x.text.content = vs[x.version].content
         /\ x.tenant = rows[i].tenant /\ rows[i].version < x.version
    BY <1>3, <1>4, <1>5, <1>7, <1>8, <1>9, <1>10
  <1>18. issued \subseteq issued' /\ issued' \subseteq Ids /\ tombstones' \subseteq Tenants \X Ids
    BY <1>3 DEF TenantInv, SealedForItsTenant, TenantTypeOK
  <1> QED BY <1>3, <1>8, <1>9, <1>11, <1>12, <1>15, <1>16, <1>17, <1>18, RowStep

\* The memory that goes is of the bound tenant, whose trail says so.
LEMMA ForgetInv ==
  ASSUME TenantInv, NEW r \in Requests, Forget(r)
  PROVE  TenantInv'
  <1>1. PICK c \in Commands : /\ c = calls[r].cmd /\ Serves(r, "forget", "received")
                              /\ Begins(c)
    BY ServedCall DEF Forget
  <1>2. PICK i \in Ids : i = c.id
    BY BoundType
  <1>3. /\ Selected(c, rows[i]) /\ Visible(c, rows[i].tenant) /\ ~Locked(i)
        /\ rows' = [rows EXCEPT ![i] = None] /\ versions' = [versions EXCEPT ![i] = <<>>]
        /\ tombstones' = IF Bound(c) = None THEN tombstones ELSE tombstones \cup {<<Bound(c), i>>}
        /\ Audited(c, "memory.forget", i)
        /\ raced' = raced \ {i} /\ Done(r, {})
        /\ UNCHANGED <<issued, rewraps>>
    BY <1>1, <1>2 DEF Forget
  <1>4. /\ rows[i] # None /\ rows[i] \in Row /\ i \in issued
        /\ Bound(c) \in Tenants \cup {None}
    BY <1>3, BoundType DEF Selected, TenantInv, SealedForItsTenant, TenantTypeOK, IssuedFirst
  <1>5. rows[i].tenant = Bound(c)
    BY <1>1, <1>3, <1>4, SelectedSide
  <1>6. calls' \in [Requests -> Call \cup {None}] /\ CallsApart'
    BY <1>1, <1>3, DoneCall
  <1>7. /\ audit' \in [Tenants \X Actions \X Ids -> Nat]
        /\ \A t \in Tenants, a \in Actions, j \in Ids :
             audit'[<<t, a, j>>] = IF t = Bound(c) /\ a = "memory.forget" /\ j = i
                                   THEN audit[<<t, a, j>>] + 1 ELSE audit[<<t, a, j>>]
    <2>1. PICK action \in Actions : action = "memory.forget" /\ Audited(c, action, i)
      BY <1>3 DEF Actions, Audited
    <2>2. TenantTypeOK
      BY DEF TenantInv, SealedForItsTenant
    <2>3. OneEvent(Bound(c), action, i)
      BY <2>1, <2>2, AuditStep
    <2> QED BY <2>1, <2>3 DEF OneEvent
  <1>8. rows'[i] = None /\ \A j \in Ids \ {i} : rows'[j] = rows[j]
    BY <1>3 DEF TenantInv, SealedForItsTenant, TenantTypeOK
  <1>9. \A t \in Tenants, j \in Ids :
          <<t, j>> \in tombstones' <=> <<t, j>> \in tombstones \/ (t = Bound(c) /\ j = i)
    <2>1. CASE Bound(c) = None
      BY <1>3, <2>1, TenantAssumption
    <2>2. CASE Bound(c) # None
      BY <1>3, <2>2
    <2> QED BY <2>1, <2>2
  <1>10. IssuedFirst'
    BY <1>3, <1>4, <1>7, <1>8, <1>9 DEF TenantInv, IssuedFirst, Actions
  <1>11. AuditAccounts'
    <2> SUFFICES ASSUME NEW t \in Tenants, NEW j \in Ids
                 PROVE  LET n(action) == audit'[<<t, action, j>>]
                            here == rows'[j] # None /\ rows'[j].tenant = t
                        IN /\ n("memory.write") = IF here \/ <<t, j>> \in tombstones' THEN 1 ELSE 0
                           /\ n("memory.forget") = IF <<t, j>> \in tombstones' THEN 1 ELSE 0
                           /\ here => <<t, j>> \notin tombstones'
                                      /\ n("memory.update") = rows'[j].version - 1
      BY DEF AuditAccounts
    <2>1. CASE j # i
      BY <1>7, <1>8, <1>9, <2>1 DEF TenantInv, AuditAccounts, Actions
    <2>2. CASE j = i
      BY <1>4, <1>5, <1>7, <1>8, <1>9, <2>2 DEF TenantInv, AuditAccounts, Actions
    <2> QED BY <2>1, <2>2
  <1>12. /\ issued \subseteq issued' /\ issued' \subseteq Ids
         /\ tombstones' \subseteq Tenants \X Ids /\ <<>> \in Seq(Text)
    BY <1>3, <1>4 DEF TenantInv, SealedForItsTenant, TenantTypeOK
  <1> QED BY <1>3, <1>6, <1>7, <1>10, <1>11, <1>12, RowStep

------------------------------------------------------------------------------
(* Steps of a rewrap *)

LEMMA OneRewrap ==
  ASSUME TenantInv, NEW w \in Rewraps, NEW x \in Rewrap \cup {None},
         rewraps' = [rewraps EXCEPT ![w] = x]
  PROVE  /\ rewraps' \in [Rewraps -> Rewrap \cup {None}]
         /\ rewraps'[w] = x /\ \A u \in Rewraps \ {w} : rewraps'[u] = rewraps[u]
  BY DEF TenantInv, SealedForItsTenant, TenantTypeOK

LEMMA RewrapSelectInv ==
  ASSUME TenantInv, NEW w \in Rewraps, NEW t \in Tenants, NEW key \in Keys,
         RewrapSelect(w, t, key)
  PROVE  TenantInv'
  <1> DEFINE mine(i) == rows[i] # None /\ rows[i].tenant = t
             sel == [i \in Ids |-> IF mine(i) THEN rows[i] ELSE None]
             todo == {i \in Ids : mine(i) /\ rows[i].text.key # 0}
             none == [i \in Ids |-> None]
             x == [tenant |-> t, key |-> key, selected |-> sel, todo |-> todo,
                   staged |-> none, late |-> {}]
  <1>1. rewraps' = [rewraps EXCEPT ![w] = x] /\ UNCHANGED <<tables, calls, raced>>
    BY DEF RewrapSelect
  <1>2. sel \in [Ids -> Row \cup {None}] /\ todo \subseteq Ids /\ none \in [Ids -> Text \cup {None}]
    BY DEF TenantInv, SealedForItsTenant, TenantTypeOK
  <1>3. \A i \in Ids : sel[i] # None => sel[i] = rows[i] /\ rows[i] # None /\ rows[i].tenant = t
    OBVIOUS
  <1>4. \A i \in todo : sel[i] # None
    OBVIOUS
  <1>5. \A i \in Ids : none[i] = None
    OBVIOUS
  <1> HIDE DEF sel, todo, none
  <1>6. /\ x \in Rewrap /\ x.tenant = t /\ x.selected = sel /\ x.todo = todo
        /\ x.staged = none /\ x.late = {}
    BY <1>2 DEF Rewrap
  <1> HIDE DEF x
  <1>7. /\ rewraps' \in [Rewraps -> Rewrap \cup {None}]
        /\ rewraps'[w] = x /\ \A u \in Rewraps \ {w} : rewraps'[u] = rewraps[u]
    BY <1>1, <1>6, OneRewrap
  <1>8. SelectedOK'
    <2> SUFFICES ASSUME NEW u \in Rewraps, NEW i \in Ids,
                        rewraps'[u] # None, rewraps'[u].selected[i] # None
                 PROVE  LET old == rewraps'[u].selected[i] IN
                        /\ i \in issued
                        /\ old.tenant = rewraps'[u].tenant
                        /\ rows[i] # None =>
                             /\ rows[i].tenant = old.tenant
                             /\ old.version <= rows[i].version
                             /\ old.version = rows[i].version =>
                                  old.text.content = versions[i][old.version].content
                                  \/ i \in raced
      BY <1>1 DEF SelectedOK, tables
    <2>1. CASE u = w
      <3>1. /\ rewraps'[u].selected[i] = rows[i] /\ rows[i] # None /\ rows[i].tenant = t
            /\ rewraps'[u].tenant = t
        BY <1>3, <1>6, <1>7, <2>1
      <3>2. rows[i].version \in Nat
        BY <3>1 DEF TenantInv, SealedForItsTenant, TenantTypeOK, Row
      <3>3. i \in issued /\ (rows[i].text.content = versions[i][rows[i].version].content \/ i \in raced)
        BY <3>1 DEF TenantInv, IssuedFirst, OnlyLateRewrapsRevert
      <3> QED BY <3>1, <3>2, <3>3
    <2>2. CASE u # w
      BY <1>7, <2>2 DEF TenantInv, SelectedOK
    <2> QED BY <2>1, <2>2
  <1>9. StagedOK'
    BY <1>1, <1>4, <1>5, <1>6, <1>7 DEF TenantInv, StagedOK, Decrypts, tables
  <1> QED BY <1>1, <1>7, <1>8, <1>9, RewrapStep

\* A text that is staged is its tenant's; when the row has moved on, it is late.
LEMMA RewrapRowInv ==
  ASSUME TenantInv, NEW w \in Rewraps, NEW i \in Ids, RewrapRow(w, i)
  PROVE  TenantInv'
  <1> DEFINE rw == rewraps[w]
             old == rw.selected[i]
             text == IF rows[i] = None THEN None ELSE Rewrapped(rw.tenant, i, old.text, rw.key)
             staged == [rw.staged EXCEPT ![i] = text]
             late == IF rows[i] # None /\ rows[i].version # old.version
                     THEN rw.late \cup {i} ELSE rw.late
             x == [tenant |-> rw.tenant, key |-> rw.key, selected |-> rw.selected,
                   todo |-> rw.todo \ {i}, staged |-> staged, late |-> late]
  <1>1. /\ rw # None /\ i \in rw.todo
        /\ rewraps' = [rewraps EXCEPT ![w] = x] /\ UNCHANGED <<tables, calls, raced>>
    BY DEF RewrapRow
  <1>2. /\ rw \in Rewrap /\ rw.tenant \in Tenants /\ rw.key \in Keys /\ rw.key \in Nat
        /\ rw.selected \in [Ids -> Row \cup {None}] /\ rw.todo \subseteq Ids
        /\ rw.staged \in [Ids -> Text \cup {None}] /\ rw.late \subseteq Ids
    BY <1>1, TenantAssumption DEF TenantInv, SealedForItsTenant, TenantTypeOK, Rewrap
  <1>3. old # None /\ old \in Row /\ old.text \in Text /\ old.text.content \in Contents
    BY <1>1, <1>2 DEF TenantInv, StagedOK, Row, Text
  <1>4. /\ rows[i] # None =>
             /\ rows[i].tenant = rw.tenant
             /\ old.version = rows[i].version =>
                  old.text.content = versions[i][old.version].content \/ i \in raced
    BY <1>1, <1>3 DEF TenantInv, SelectedOK
  <1>5. /\ text \in Text \cup {None}
        /\ text # None => /\ rows[i] # None /\ text.content = old.text.content
                          /\ Decrypts(rw.tenant, i, text)
    BY <1>2, <1>3, EncryptOpens DEF Rewrapped
  <1>6. late \subseteq Ids /\ rw.late \subseteq late
        /\ (rows[i] # None /\ rows[i].version # old.version => i \in late)
    BY <1>2
  <1> HIDE DEF text, late
  <1>7. /\ staged \in [Ids -> Text \cup {None}] /\ staged[i] = text
        /\ \A j \in Ids \ {i} : staged[j] = rw.staged[j]
    BY <1>2, <1>5
  <1> HIDE DEF staged
  <1>8. /\ x \in Rewrap /\ x # None /\ x.tenant = rw.tenant /\ x.selected = rw.selected
        /\ x.todo = rw.todo \ {i} /\ x.staged = staged /\ x.late = late
    BY <1>2, <1>6, <1>7, TenantAssumption DEF Rewrap
  <1> HIDE DEF x
  <1>9. /\ rewraps' \in [Rewraps -> Rewrap \cup {None}]
        /\ rewraps'[w] = x /\ \A u \in Rewraps \ {w} : rewraps'[u] = rewraps[u]
    BY <1>1, <1>8, OneRewrap
  <1>10. SelectedOK'
    BY <1>1, <1>8, <1>9 DEF TenantInv, SelectedOK, tables
  <1>11. StagedOK'
    <2> SUFFICES ASSUME NEW u \in Rewraps, rewraps'[u] # None
                 PROVE  /\ \A j \in rewraps'[u].todo : rewraps'[u].selected[j] # None
                        /\ \A j \in Ids : rewraps'[u].staged[j] # None =>
                             LET tx == rewraps'[u].staged[j] IN
                             /\ rows[j] # None
                             /\ rows[j].tenant = rewraps'[u].tenant
                             /\ Decrypts(rewraps'[u].tenant, j, tx)
                             /\ \/ tx.content = versions[j][rows[j].version].content
                                \/ j \in raced \cup rewraps'[u].late
      BY <1>1 DEF StagedOK, Decrypts, tables
    <2>1. CASE u # w
      BY <1>9, <2>1 DEF TenantInv, StagedOK
    <2>2. CASE u = w
      <3>1. \A j \in rewraps'[u].todo : rewraps'[u].selected[j] # None
        BY <1>1, <1>8, <1>9, <2>2 DEF TenantInv, StagedOK
      <3>2. ASSUME NEW j \in Ids, rewraps'[u].staged[j] # None
            PROVE  LET tx == rewraps'[u].staged[j] IN
                   /\ rows[j] # None
                   /\ rows[j].tenant = rewraps'[u].tenant
                   /\ Decrypts(rewraps'[u].tenant, j, tx)
                   /\ \/ tx.content = versions[j][rows[j].version].content
                      \/ j \in raced \cup rewraps'[u].late
        <4>1. rewraps'[u].staged[j] = staged[j] /\ rewraps'[u].tenant = rw.tenant
              /\ rewraps'[u].late = late
          BY <1>8, <1>9, <2>2
        <4>2. CASE j = i
          BY <1>4, <1>5, <1>6, <1>7, <3>2, <4>1, <4>2
        <4>3. CASE j # i
          <5>1. staged[j] = rw.staged[j] /\ rw.staged[j] # None
            BY <1>7, <3>2, <4>1, <4>3
          <5> QED BY <1>1, <1>6, <4>1, <5>1 DEF TenantInv, StagedOK
        <4> QED BY <4>2, <4>3
      <3> QED BY <3>1, <3>2
    <2> QED BY <2>1, <2>2
  <1> QED BY <1>1, <1>9, <1>10, <1>11, RewrapStep

LEMMA RewrapAbortInv ==
  ASSUME TenantInv, NEW w \in Rewraps, RewrapAbort(w)
  PROVE  TenantInv'
  <1>1. rewraps' = [rewraps EXCEPT ![w] = None] /\ UNCHANGED <<tables, calls, raced>>
    BY DEF RewrapAbort
  <1>2. /\ rewraps' \in [Rewraps -> Rewrap \cup {None}]
        /\ rewraps'[w] = None /\ \A u \in Rewraps \ {w} : rewraps'[u] = rewraps[u]
    BY <1>1, OneRewrap
  <1>3. SelectedOK'
    BY <1>1, <1>2 DEF TenantInv, SelectedOK, tables
  <1>4. StagedOK'
    BY <1>1, <1>2 DEF TenantInv, StagedOK, Decrypts, tables
  <1> QED BY <1>1, <1>2, <1>3, <1>4, RewrapStep

\* A sequence of texts that is sealed again, text by text.
LEMMA ResealedSeq ==
  ASSUME NEW t \in Tenants, NEW i \in Ids, NEW key \in Nat, NEW s \in Seq(Text)
  PROVE  LET new == [v \in DOMAIN s |-> Rewrapped(t, i, s[v], key)] IN
         /\ new \in Seq(Text) /\ Len(new) = Len(s) /\ DOMAIN new = DOMAIN s
         /\ \A v \in DOMAIN s : new[v].content = s[v].content /\ Decrypts(t, i, new[v])
  <1> DEFINE new == [v \in DOMAIN s |-> Rewrapped(t, i, s[v], key)]
  <1>1. ASSUME NEW v \in DOMAIN s
        PROVE  /\ Rewrapped(t, i, s[v], key) \in Text
               /\ Rewrapped(t, i, s[v], key).content = s[v].content
               /\ Decrypts(t, i, Rewrapped(t, i, s[v], key))
    <2>1. s[v] \in Text
      OBVIOUS
    <2>2. s[v].content \in Contents
      BY <2>1 DEF Text
    <2> QED BY <2>2, EncryptOpens DEF Rewrapped
  <1>2. new \in [1..Len(s) -> Text] /\ Len(s) \in Nat /\ DOMAIN s = 1..Len(s)
    BY <1>1
  <1>3. new \in Seq(Text) /\ Len(new) = Len(s)
    BY <1>2
  <1> QED BY <1>1, <1>3

\* What a commit leaves of a row and its snapshots: everything but the seals,
\* and the content a staged text brings.
LEMMA CommitRows ==
  ASSUME TenantInv, NEW w \in Rewraps, RewrapCommit(w), NEW i \in Ids
  PROVE  /\ rows[i] = None => rows'[i] = None
         /\ rows[i] # None =>
              /\ rows'[i] \in Row /\ rows'[i] # None
              /\ rows'[i].tenant = rows[i].tenant /\ rows'[i].version = rows[i].version
              /\ Sealed(rows'[i].tenant, i, rows'[i].text)
              /\ \/ rows'[i].text = rows[i].text
                 \/ rows'[i].text.content = versions[i][rows[i].version].content
                 \/ i \in raced'
              /\ \A v \in DOMAIN versions[i] :
                   /\ versions'[i][v].content = versions[i][v].content
                   /\ Sealed(rows'[i].tenant, i, versions'[i][v])
         /\ versions'[i] \in Seq(Text) /\ Len(versions'[i]) = Len(versions[i])
         /\ DOMAIN versions'[i] = DOMAIN versions[i]
  <1> DEFINE rw == rewraps[w]
             mine == rows[i] # None /\ rows[i].tenant = rw.tenant
             new == [v \in DOMAIN versions[i] |-> Rewrapped(rw.tenant, i, versions[i][v], rw.key)]
  <1>1. /\ rw # None
        /\ rows'[i] = IF rw.staged[i] = None THEN rows[i]
                      ELSE [rows[i] EXCEPT !.text = rw.staged[i]]
        /\ versions'[i] = IF mine THEN new ELSE versions[i]
        /\ raced' = raced \cup rw.late
    BY DEF RewrapCommit
  <1>2. /\ rw.tenant \in Tenants /\ rw.key \in Nat
        /\ rw.staged \in [Ids -> Text \cup {None}] /\ rw.tenant # None
    BY <1>1, TenantAssumption DEF TenantInv, SealedForItsTenant, TenantTypeOK, Rewrap
  <1>3. versions[i] \in Seq(Text) /\ (rows[i] # None => rows[i] \in Row)
    BY DEF TenantInv, SealedForItsTenant, TenantTypeOK
  <1>4. /\ new \in Seq(Text) /\ Len(new) = Len(versions[i]) /\ DOMAIN new = DOMAIN versions[i]
        /\ \A v \in DOMAIN versions[i] :
             new[v].content = versions[i][v].content /\ Decrypts(rw.tenant, i, new[v])
    BY <1>2, <1>3, ResealedSeq
  <1> HIDE DEF new
  <1>5. /\ versions'[i] \in Seq(Text) /\ Len(versions'[i]) = Len(versions[i])
        /\ DOMAIN versions'[i] = DOMAIN versions[i]
    BY <1>1, <1>3, <1>4
  <1>6. rw.staged[i] # None =>
          /\ rows[i] # None /\ rows[i].tenant = rw.tenant /\ rw.staged[i] \in Text
          /\ Decrypts(rw.tenant, i, rw.staged[i])
          /\ \/ rw.staged[i].content = versions[i][rows[i].version].content
             \/ i \in raced'
    BY <1>1, <1>2 DEF TenantInv, StagedOK
  <1>7. rows[i] = None => rows'[i] = None
    BY <1>1, <1>6
  <1>8. ASSUME rows[i] # None
        PROVE  /\ rows'[i] \in Row /\ rows'[i] # None
               /\ rows'[i].tenant = rows[i].tenant /\ rows'[i].version = rows[i].version
               /\ Sealed(rows'[i].tenant, i, rows'[i].text)
               /\ \/ rows'[i].text = rows[i].text
                  \/ rows'[i].text.content = versions[i][rows[i].version].content
                  \/ i \in raced'
    <2>1. CASE rw.staged[i] = None
      BY <1>1, <1>3, <1>8, <2>1 DEF TenantInv, SealedForItsTenant
    <2>2. CASE rw.staged[i] # None
      <3>1. /\ rows'[i] \in Row /\ rows'[i].tenant = rows[i].tenant
            /\ rows'[i].version = rows[i].version /\ rows'[i].text = rw.staged[i]
        BY <1>1, <1>3, <1>6, <2>2 DEF Row
      <3> QED BY <1>2, <1>6, <2>2, <3>1, TenantAssumption DEF Sealed
    <2> QED BY <2>1, <2>2
  <1>9. ASSUME rows[i] # None, NEW v \in DOMAIN versions[i]
        PROVE  /\ versions'[i][v].content = versions[i][v].content
               /\ Sealed(rows'[i].tenant, i, versions'[i][v])
    <2>1. CASE mine
      BY <1>1, <1>2, <1>4, <1>8, <1>9, <2>1 DEF Sealed
    <2>2. CASE ~mine
      BY <1>1, <1>8, <1>9, <2>2 DEF TenantInv, SealedForItsTenant
    <2> QED BY <2>1, <2>2
  <1> QED BY <1>5, <1>7, <1>8, <1>9

LEMMA RewrapCommitInv ==
  ASSUME TenantInv, NEW w \in Rewraps, RewrapCommit(w)
  PROVE  TenantInv'
  <1>1. /\ rewraps' = [rewraps EXCEPT ![w] = None] /\ raced' = raced \cup rewraps[w].late
        /\ UNCHANGED <<tombstones, audit, issued, calls>> /\ rewraps[w] # None
    BY DEF RewrapCommit
  <1>2. /\ rewraps' \in [Rewraps -> Rewrap \cup {None}]
        /\ rewraps'[w] = None /\ \A u \in Rewraps \ {w} : rewraps'[u] = rewraps[u]
    BY <1>1, OneRewrap
  <1>3. TenantTypeOK'
    <2>1. /\ rows' \in [Ids -> Row \cup {None}]
      <3>1. rows' = [i \in Ids |-> rows'[i]]
        BY DEF RewrapCommit
      <3> QED BY <3>1, CommitRows
    <2>2. versions' \in [Ids -> Seq(Text)]
      <3>1. versions' = [i \in Ids |-> versions'[i]]
        BY DEF RewrapCommit
      <3> QED BY <3>1, CommitRows
    <2>3. raced' \subseteq Ids
      BY <1>1 DEF TenantInv, SealedForItsTenant, TenantTypeOK, Rewrap
    <2> QED BY <1>1, <1>2, <2>1, <2>2, <2>3 DEF TenantInv, SealedForItsTenant, TenantTypeOK
  <1>4. SealedForItsTenant'
    BY <1>3, CommitRows DEF SealedForItsTenant, Sealed, Decrypts
  <1>5. IssuedFirst'
    BY <1>1, CommitRows DEF TenantInv, IssuedFirst
  <1>6. CallsApart'
    BY <1>1 DEF TenantInv, CallsApart
  <1>7. \A i \in Ids : rows[i] # None =>
          /\ rows[i].version \in DOMAIN versions[i] /\ Len(versions[i]) = rows[i].version
          /\ rows[i].text.content = versions[i][rows[i].version].content \/ i \in raced
    <2> SUFFICES ASSUME NEW i \in Ids, rows[i] # None
                 PROVE  /\ rows[i].version \in DOMAIN versions[i]
                        /\ Len(versions[i]) = rows[i].version
                        /\ rows[i].text.content = versions[i][rows[i].version].content
                           \/ i \in raced
      OBVIOUS
    <2>1. rows[i].version \in Nat \ {0} /\ versions[i] \in Seq(Text)
      BY DEF TenantInv, SealedForItsTenant, TenantTypeOK, Row
    <2>2. Len(versions[i]) = rows[i].version
          /\ (rows[i].text.content = versions[i][rows[i].version].content \/ i \in raced)
      BY DEF TenantInv, OnlyLateRewrapsRevert
    <2> QED BY <2>1, <2>2
  <1>8. OnlyLateRewrapsRevert'
    BY <1>1, <1>7, CommitRows DEF OnlyLateRewrapsRevert
  <1>9. AuditAccounts'
    <2> SUFFICES ASSUME NEW t \in Tenants, NEW j \in Ids
                 PROVE  LET n(action) == audit[<<t, action, j>>]
                            here == rows'[j] # None /\ rows'[j].tenant = t
                        IN /\ n("memory.write") = IF here \/ <<t, j>> \in tombstones THEN 1 ELSE 0
                           /\ n("memory.forget") = IF <<t, j>> \in tombstones THEN 1 ELSE 0
                           /\ here => <<t, j>> \notin tombstones
                                      /\ n("memory.update") = rows'[j].version - 1
      BY <1>1 DEF AuditAccounts
    <2>1. CASE rows[j] = None
      BY <2>1, CommitRows DEF TenantInv, AuditAccounts
    <2>2. CASE rows[j] # None
      <3>1. rows'[j] # None /\ rows'[j].tenant = rows[j].tenant /\ rows'[j].version = rows[j].version
        BY <2>2, CommitRows
      <3> QED BY <2>2, <3>1 DEF TenantInv, AuditAccounts
    <2> QED BY <2>1, <2>2
  <1>10. SelectedOK'
    <2> SUFFICES ASSUME NEW u \in Rewraps, NEW i \in Ids,
                        rewraps'[u] # None, rewraps'[u].selected[i] # None
                 PROVE  LET old == rewraps'[u].selected[i] IN
                        /\ i \in issued
                        /\ old.tenant = rewraps'[u].tenant
                        /\ rows'[i] # None =>
                             /\ rows'[i].tenant = old.tenant
                             /\ old.version <= rows'[i].version
                             /\ old.version = rows'[i].version =>
                                  old.text.content = versions'[i][old.version].content
                                  \/ i \in raced'
      BY <1>1 DEF SelectedOK
    <2>1. u # w /\ rewraps'[u] = rewraps[u]
      BY <1>2
    <2> QED BY <1>1, <1>7, <2>1, CommitRows DEF TenantInv, SelectedOK
  <1>11. StagedOK'
    <2> SUFFICES ASSUME NEW u \in Rewraps, rewraps'[u] # None
                 PROVE  /\ \A j \in rewraps'[u].todo : rewraps'[u].selected[j] # None
                        /\ \A j \in Ids : rewraps'[u].staged[j] # None =>
                             LET tx == rewraps'[u].staged[j] IN
                             /\ rows'[j] # None
                             /\ rows'[j].tenant = rewraps'[u].tenant
                             /\ Decrypts(rewraps'[u].tenant, j, tx)
                             /\ \/ tx.content = versions'[j][rows'[j].version].content
                                \/ j \in raced' \cup rewraps'[u].late
      BY DEF StagedOK, Decrypts
    <2>1. u # w /\ rewraps'[u] = rewraps[u]
      BY <1>2
    <2> QED BY <1>1, <1>7, <2>1, CommitRows DEF TenantInv, StagedOK
  <1> QED BY <1>4, <1>5, <1>6, <1>8, <1>9, <1>10, <1>11 DEF TenantInv

LEMMA TenantNextInv == TenantInv /\ [TenantNext]_all => TenantInv'
  <1> SUFFICES ASSUME TenantInv, [TenantNext]_all PROVE TenantInv'
    OBVIOUS
  <1>1. CASE UNCHANGED all
    <2>1. calls' \in [Requests -> Call \cup {None}] /\ CallsApart'
      BY <1>1 DEF all, TenantInv, SealedForItsTenant, TenantTypeOK, CallsApart
    <2> QED BY <1>1, <2>1, CallStep DEF all
  <1>2. ASSUME NEW r \in Requests, NEW c \in Commands, Receive(r, c) PROVE TenantInv'
    BY <1>2, ReceiveInv
  <1>3. ASSUME NEW r \in Requests,
               Write(r) \/ Search(r) \/ Load(r) \/ Update(r) \/ Forget(r) \/ Answer(r)
        PROVE  TenantInv'
    BY <1>3, WriteInv, SearchInv, LoadInv, UpdateInv, ForgetInv, AnswerInv
  <1>4. ASSUME NEW w \in Rewraps, NEW t \in Tenants, NEW key \in Keys, RewrapSelect(w, t, key)
        PROVE  TenantInv'
    BY <1>4, RewrapSelectInv
  <1>5. ASSUME NEW w \in Rewraps, NEW i \in Ids, RewrapRow(w, i) PROVE TenantInv'
    BY <1>5, RewrapRowInv
  <1>6. ASSUME NEW w \in Rewraps, RewrapCommit(w) \/ RewrapAbort(w) PROVE TenantInv'
    BY <1>6, RewrapCommitInv, RewrapAbortInv
  <1> QED BY <1>1, <1>2, <1>3, <1>4, <1>5, <1>6 DEF TenantNext

------------------------------------------------------------------------------
\* TenantInv holds in every reachable state (TenantRequests).
THEOREM TenantInvariant == TenantSpec => []TenantInv
  BY TenantInitInv, TenantNextInv, PTL DEF TenantSpec

\* Whatever a tenant has stored, rows and snapshots alike, is sealed for it and
\* can be opened by it, at every point of any number of rewraps (_cloud_fields,
\* encrypt, decrypt, rewrap_envelopes).
THEOREM AlwaysSealed == TenantSpec => []SealedForItsTenant
  <1>1. TenantInv => SealedForItsTenant
    BY DEF TenantInv
  <1> QED BY <1>1, TenantInvariant, PTL

\* Only a rewrap whose UPDATE came after another version had been committed puts
\* an older content back (rewrap_envelopes, update).
THEOREM OnlyRacesRevert == TenantSpec => []OnlyLateRewrapsRevert
  <1>1. TenantInv => OnlyLateRewrapsRevert
    BY DEF TenantInv
  <1> QED BY <1>1, TenantInvariant, PTL

\* The audit trail of a tenant accounts for every memory it ever wrote (_audit,
\* create, update, forget).
THEOREM TrailComplete == TenantSpec => []AuditAccounts
  <1>1. TenantInv => AuditAccounts
    BY DEF TenantInv
  <1> QED BY <1>1, TenantInvariant, PTL

------------------------------------------------------------------------------
(* The tenant boundary *)

\* What a step may change, as TenantsApart has it
StaysApart(i) ==
  /\ rows[i] # None /\ rows'[i] # None => rows'[i].tenant = rows[i].tenant
  /\ \/ \E r \in Requests : calls[r] # calls'[r] /\ Side(calls[r].cmd) = SideOf(i)
     \/ \E w \in Rewraps : rewraps[w] # rewraps'[w] /\ rewraps[w].tenant = SideOf(i)

\* A step that has served a request shows in its call.
LEMMA DoneShows ==
  ASSUME TenantInv, NEW r \in Requests, NEW tool, NEW stage \in {"received", "loaded"},
         Serves(r, tool, stage), NEW read, Done(r, read)
  PROVE  calls[r] # calls'[r]
  <1>1. calls[r].stage = stage
    BY DEF Serves
  <1>2. calls'[r].stage = "done"
    BY DEF Done, TenantInv, SealedForItsTenant, TenantTypeOK
  <1> QED BY <1>1, <1>2

LEMMA WriteApart ==
  ASSUME TenantInv, NEW r \in Requests, Write(r), NEW i \in Ids, Changed(i)
  PROVE  StaysApart(i)
  <1>1. PICK c \in Commands : c = calls[r].cmd /\ Serves(r, "write", "received")
    BY ServedCall DEF Write
  <1>2. /\ Done(r, {}) /\ Visible(c, Bound(c))
        /\ \E j \in Ids \ issued :
             /\ rows' = [rows EXCEPT ![j] = [owner |-> c.owner, tenant |-> Bound(c), version |-> 1,
                                            text |-> CloudFields(c, j, c.content)]]
             /\ versions' = [versions EXCEPT ![j] = <<VersionValues(c, j, c.content)>>]
    BY <1>1 DEF Write
  <1>3. i \notin issued /\ rows'[i].tenant = Bound(c)
    BY <1>2 DEF Changed, TenantInv, SealedForItsTenant, TenantTypeOK
  <1>4. rows[i] = None
    BY <1>3 DEF TenantInv, IssuedFirst
  <1>5. Side(c) = Bound(c)
    BY <1>2, BoundType, VisibleSide
  <1>6. calls[r] # calls'[r]
    BY <1>1, <1>2, DoneShows
  <1> QED BY <1>1, <1>3, <1>4, <1>5, <1>6 DEF StaysApart, SideOf

LEMMA UpdateApart ==
  ASSUME TenantInv, NEW r \in Requests, Update(r), NEW i \in Ids, Changed(i)
  PROVE  StaysApart(i)
  <1>1. PICK c \in Commands : c = calls[r].cmd /\ Serves(r, "update", "loaded")
    BY ServedCall DEF Update
  <1> DEFINE content == Merged(CHOOSE y \in calls[r].rows : TRUE, c)
             x == [owner |-> c.owner, tenant |-> Bound(c), version |-> c.expected + 1,
                   text |-> CloudFields(c, c.id, content)]
             vs == Append(versions[c.id], VersionValues(c, c.id, content))
  <1>2. /\ rows' = [rows EXCEPT ![c.id] = x] /\ x.tenant = Bound(c)
        /\ versions' = [versions EXCEPT ![c.id] = vs]
        /\ Done(r, {}) /\ rows[c.id] # None
        /\ Visible(c, rows[c.id].tenant) /\ Visible(c, Bound(c))
    BY <1>1 DEF Update, Swappable, Snapshot, TenantInv, SealedForItsTenant, TenantTypeOK
  <1> HIDE DEF x, vs
  <1>3. i = c.id /\ rows'[i] = x /\ rows[i] \in Row
    BY <1>2 DEF Changed, TenantInv, SealedForItsTenant, TenantTypeOK
  <1>4. rows[i].tenant = Side(c) /\ Bound(c) = Side(c)
    <2>1. rows[i].tenant \in Tenants \cup {None}
      BY <1>3 DEF Row
    <2> QED BY <1>2, <1>3, <2>1, BoundType, VisibleSide
  <1>5. calls[r] # calls'[r]
    BY <1>1, <1>2, DoneShows
  <1> QED BY <1>1, <1>2, <1>3, <1>4, <1>5 DEF StaysApart, SideOf

LEMMA ForgetApart ==
  ASSUME TenantInv, NEW r \in Requests, Forget(r), NEW i \in Ids, Changed(i)
  PROVE  StaysApart(i)
  <1>1. PICK c \in Commands : c = calls[r].cmd /\ Serves(r, "forget", "received")
    BY ServedCall DEF Forget
  <1>2. /\ rows' = [rows EXCEPT ![c.id] = None] /\ versions' = [versions EXCEPT ![c.id] = <<>>]
        /\ Done(r, {}) /\ rows[c.id] # None /\ Visible(c, rows[c.id].tenant)
    BY <1>1 DEF Forget, Selected
  <1>3. i = c.id /\ rows'[i] = None /\ rows[i] \in Row
    BY <1>2 DEF Changed, TenantInv, SealedForItsTenant, TenantTypeOK
  <1>4. rows[i].tenant = Side(c)
    <2>1. rows[i].tenant \in Tenants \cup {None}
      BY <1>3 DEF Row
    <2> QED BY <1>2, <1>3, <2>1, VisibleSide
  <1>5. calls[r] # calls'[r]
    BY <1>1, <1>2, DoneShows
  <1> QED BY <1>1, <1>2, <1>3, <1>4, <1>5 DEF StaysApart, SideOf

LEMMA CommitApart ==
  ASSUME TenantInv, NEW w \in Rewraps, RewrapCommit(w), NEW i \in Ids, Changed(i)
  PROVE  StaysApart(i)
  <1>1. /\ rewraps[w] # None /\ rewraps'[w] = None
        /\ rows'[i] # rows[i] => rewraps[w].staged[i] # None
        /\ versions'[i] # versions[i] => rows[i] # None /\ rows[i].tenant = rewraps[w].tenant
    BY DEF RewrapCommit, TenantInv, SealedForItsTenant, TenantTypeOK
  <1>2. rows[i] # None /\ rows[i].tenant = rewraps[w].tenant
    BY <1>1 DEF Changed, TenantInv, StagedOK
  <1>3. rows'[i].tenant = rows[i].tenant
    BY <1>2, CommitRows
  <1> QED BY <1>1, <1>2, <1>3 DEF StaysApart, SideOf

\* No step reads, writes or removes a memory across the tenant boundary, also
\* when a Community caller names a tenant's owner (the RLS policy, __aenter__,
\* _memory_from_row, rewrap_envelopes).
THEOREM NothingCrosses == TenantSpec => TenantsApart
  <1>1. ASSUME TenantInv, TenantInv', [TenantNext]_all
        PROVE  [/\ \A i \in Ids : Changed(i) => StaysApart(i)
                /\ \A r \in Requests : calls'[r] # None =>
                     \A row \in calls'[r].rows : row.tenant = Side(calls'[r].cmd)]_all
    <2>1. \A r \in Requests : calls'[r] # None =>
            \A row \in calls'[r].rows : row.tenant = Side(calls'[r].cmd)
      BY <1>1 DEF TenantInv, CallsApart, Side, Bound
    <2> SUFFICES ASSUME TenantNext, NEW i \in Ids, Changed(i) PROVE StaysApart(i)
      BY <1>1, <2>1
    <2>2. ASSUME NEW r \in Requests, Write(r) \/ Update(r) \/ Forget(r) PROVE StaysApart(i)
      BY <1>1, <2>2, WriteApart, UpdateApart, ForgetApart
    <2>3. ASSUME NEW w \in Rewraps, RewrapCommit(w) PROVE StaysApart(i)
      BY <1>1, <2>3, CommitApart
    <2>4. ~ UNCHANGED tables
      BY DEF Changed, tables
    <2> QED BY <2>2, <2>3, <2>4 DEF TenantNext, Receive, Search, Load, Answer, RewrapSelect,
                                    RewrapRow, RewrapAbort
  <1> QED BY <1>1, TenantInvariant, PTL DEF TenantSpec, TenantsApart, StaysApart
==============================================================================
