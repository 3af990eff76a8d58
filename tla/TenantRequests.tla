--------------------------- MODULE TenantRequests ----------------------------
(***************************************************************************)
(* Tenancy of the PostgreSQL store: requests of several tenants, and of    *)
(* Community callers without one, over one database with row-level         *)
(* security and envelope encryption, while an operator rewraps a tenant's  *)
(* envelopes under another key version.                                    *)
(*                                                                         *)
(* A request carries an owner and reaches one of two runtimes: a Cloud one *)
(* (environment "cloud", with an encryptor) or a Community one.  Over HTTP *)
(* the verified principal supplies owner and tenant; over stdio the caller *)
(* names any owner and no tenant is bound.  Every statement sees the rows  *)
(* that the policy of migration 0005 admits under the settings local to    *)
(* its transaction, and what its own predicates select of them.            *)
(*                                                                         *)
(* Transactions are READ COMMITTED.  A write, an update's compare-and-swap *)
(* and a delete are each one step with their commit: locks on them only    *)
(* delay others.  A rewrap keeps the rows it has written locked until it   *)
(* commits.  Idempotency keys, relations and vectors are in MemoryStore    *)
(* and EmbeddingProfiles.  Content and provenance are sealed alike and     *)
(* written together, so one text stands for both.                          *)
(***************************************************************************)
EXTENDS Naturals, FiniteSets, Sequences

CONSTANTS
    Tenants, Owners, Ids, Contents,
    OwnerTenant,      \* _owner_tenant: the tenant an owner_id names, or None
    Grants,           \* the scopes of each owner's principal
    Requests,         \* bound: requests in flight
    Commands,         \* the requests that are made
    Rewraps,          \* bound: rewraps in flight
    Keys,             \* the key versions a rewrap is given
    MaxVersion,       \* bound: versions of a memory
    None

Tools == {"write", "search", "update", "forget"}

\* The scope the /mcp handler requires for a tool
ScopeOf(tool) ==
    CASE tool = "search" -> "memory:read"
      [] tool = "forget" -> "memory:delete"
      [] OTHER -> "memory:write"

\* "content" of an update is None when its patch leaves the content alone.
Command == [owner : Owners, http : BOOLEAN, cloud : BOOLEAN, tool : Tools,
            id : Ids, expected : Nat \ {0}, content : Contents \cup {None}]

\* A stored text.  Plain text has key version 0; an envelope carries the key
\* version it declares, the data it was authenticated with and the binding of
\* its wrapped data key.
Text == [content : Contents, key : Nat,
         aad : (Tenants \X Ids \X Nat) \cup {None}, dek : (Tenants \X Nat) \cup {None}]

Row == [owner : Owners, tenant : Tenants \cup {None}, version : Nat \ {0}, text : Text]

\* A request in flight: "received", "loaded" the row it will change, or "done".
\* "rows" are those it has read.
Call == [cmd : Commands, stage : {"received", "loaded", "done"}, rows : SUBSET Row]

\* A rewrap in flight: what its SELECT returned, the rows still to be written
\* and the texts written but not committed.  "late" are those whose row had
\* moved to another version since the SELECT.
Rewrap == [tenant : Tenants, key : Keys, selected : [Ids -> Row \cup {None}],
           todo : SUBSET Ids, staged : [Ids -> Text \cup {None}], late : SUBSET Ids]

ASSUME TenantAssumption ==
    /\ OwnerTenant \in [Owners -> Tenants \cup {None}]
    /\ Commands \subseteq Command
    /\ \A c \in Commands : c.http => OwnerTenant[c.owner] # None
    /\ \A c \in Commands : c.tool = "write" => c.content # None
    /\ Keys \subseteq Nat \ {0} /\ MaxVersion \in Nat
    /\ None \notin Tenants \cup Contents \cup Text \cup Row \cup Call \cup Rewrap

Actions == {"memory.write", "memory.update", "memory.forget"}

VARIABLES
    rows,         \* memories
    versions,     \* memory_versions: the texts of a memory's snapshots
    tombstones,   \* deletion_tombstones, by tenant
    audit,        \* audit_events: how often each was recorded
    issued,       \* identifiers uuid4() has returned
    calls, rewraps,
    raced         \* history: rows whose present content a late rewrap wrote

tables == <<rows, versions, tombstones, audit, issued>>
all    == <<tables, calls, rewraps, raced>>

TenantTypeOK ==
    /\ rows \in [Ids -> Row \cup {None}]
    /\ versions \in [Ids -> Seq(Text)]
    /\ tombstones \subseteq Tenants \X Ids
    /\ audit \in [Tenants \X Actions \X Ids -> Nat]
    /\ issued \subseteq Ids
    /\ calls \in [Requests -> Call \cup {None}]
    /\ rewraps \in [Rewraps -> Rewrap \cup {None}]
    /\ raced \subseteq Ids

TenantInit ==
    /\ rows = [i \in Ids |-> None]
    /\ versions = [i \in Ids |-> <<>>]
    /\ tombstones = {}
    /\ audit = [e \in Tenants \X Actions \X Ids |-> 0]
    /\ issued = {}
    /\ calls = [r \in Requests |-> None]
    /\ rewraps = [w \in Rewraps |-> None]
    /\ raced = {}

------------------------------------------------------------------------------
(* Envelopes: TenantEnvelopeEncryptor over the key service *)

\* The key service wraps a data key for a tenant and a key version, and unwraps it
\* for the same two only.
Wrap(t, key) == <<t, key>>

\* encrypt(): the content is authenticated with tenant, record and key version.
Encrypt(t, i, content, key) ==
    [content |-> content, key |-> key, aad |-> <<t, i, key>>, dek |-> Wrap(t, key)]

\* decrypt() succeeds: the data key unwraps and the content authenticates.
Decrypts(t, i, text) == text.dek = Wrap(t, text.key) /\ text.aad = <<t, i, text.key>>

\* Mutant: a rewrap that only wraps the data key again.
Rewrapped_DekOnly(t, i, text, key) == [text EXCEPT !.key = key, !.dek = Wrap(t, key)]

\* What rewrap_envelopes stores for a text it has decrypted
Rewrapped(t, i, text, key) == Encrypt(t, i, text.content, key)

------------------------------------------------------------------------------
(* The tenant a transaction runs for, and what it sees *)

\* tenant_scope of the HTTP handler; stdio binds none.
Bound(c) == IF c.http THEN OwnerTenant[c.owner] ELSE None

\* PostgresUnitOfWork.__aenter__: a Cloud transaction needs a bound tenant.
Begins(c) == c.cloud => Bound(c) # None

\* Mutant: the Community exception of the policy forgets "tenant_id IS NULL".
Visible_Community(c, t) == ~c.cloud \/ (t # None /\ t = Bound(c))

\* The row-level security policy, reading and writing.  Only a Community
\* transaction sets app.community_mode, only a Cloud one app.tenant_id.
Visible(c, t) == IF t = None THEN ~c.cloud ELSE c.cloud /\ t = Bound(c)

\* The predicates of get, forget and search_candidates on owner and tenant
Selected(c, row) ==
    /\ row # None
    /\ row.owner = c.owner
    /\ Bound(c) # None => row.tenant = Bound(c)

\* _memory_from_row returns instead of raising.
Readable(c, i, row) ==
    /\ Bound(c) # None => row.tenant = Bound(c)
    /\ row.text.key # 0 => c.cloud /\ row.tenant # None /\ Decrypts(row.tenant, i, row.text)

\* _cloud_fields has an encryptor when it needs one ...
Sealable(c) == Bound(c) # None => c.cloud

\* ... and seals what a tenant stores, under its default key version.
CloudFields(c, i, content) ==
    IF Bound(c) = None THEN [content |-> content, key |-> 0, aad |-> None, dek |-> None]
    ELSE Encrypt(Bound(c), i, content, 1)

\* _version_values: a snapshot is sealed on its own, under its memory's identifier.
VersionValues(c, i, content) == CloudFields(c, i, content)

\* _version_from_row returns for all snapshots of a memory of tenant t.
VersionsReadable(t, i) == \A v \in DOMAIN versions[i] : Decrypts(t, i, versions[i][v])

\* Mutant: the event goes to the tenant the owner names.
Audited_ByOwner(c, action, i) ==
    audit' = IF OwnerTenant[c.owner] = None THEN audit
             ELSE [audit EXCEPT ![<<OwnerTenant[c.owner], action, i>>] = @ + 1]

\* _audit: Community transactions record nothing.
Audited(c, action, i) ==
    audit' = IF Bound(c) = None THEN audit
             ELSE [audit EXCEPT ![<<Bound(c), action, i>>] = @ + 1]

\* PostgreSQL makes a writer wait for the row locks of an open rewrap.
Locked(i) == \E w \in Rewraps : rewraps[w] # None /\ rewraps[w].staged[i] # None

------------------------------------------------------------------------------
(* Requests *)

\* The /mcp handler and call_tool up to the dispatch: over HTTP the principal
\* needs the tool's scope.  A refused request changes nothing.
Receive(r, c) ==
    /\ calls[r] = None
    /\ c.http => ScopeOf(c.tool) \in Grants[c.owner]
    /\ calls' = [calls EXCEPT ![r] = [cmd |-> c, stage |-> "received", rows |-> {}]]
    /\ UNCHANGED <<tables, rewraps, raced>>

\* The gateway's method for "tool" has built the service's command from the
\* payload, and the unit of work the service opened does its next statement.
Serves(r, tool, stage) ==
    /\ calls[r] # None
    /\ calls[r].stage = stage
    /\ calls[r].cmd.tool = tool
    /\ Begins(calls[r].cmd)

Done(r, read) == calls' = [calls EXCEPT ![r] = [cmd |-> @.cmd, stage |-> "done", rows |-> read]]

\* create(): the row and its first snapshot.  WITH CHECK admits what the
\* transaction would see.
Write(r) ==
    LET c == calls[r].cmd IN
    /\ Serves(r, "write", "received")
    /\ Sealable(c) /\ Visible(c, Bound(c))
    /\ \E i \in Ids \ issued :
         /\ issued' = issued \cup {i}
         /\ rows' = [rows EXCEPT ![i] = [owner |-> c.owner, tenant |-> Bound(c), version |-> 1,
                                         text |-> CloudFields(c, i, c.content)]]
         /\ versions' = [versions EXCEPT ![i] = <<VersionValues(c, i, c.content)>>]
         /\ Audited(c, "memory.write", i)
    /\ Done(r, {})
    /\ UNCHANGED <<tombstones, rewraps, raced>>

\* The rows search_candidates decrypts
Found(c) == {i \in Ids : Selected(c, rows[i]) /\ Visible(c, rows[i].tenant)}

\* search(): one unreadable row fails it.  Filters, threshold and ranking make
\* the answer a part of what was read.
Search(r) ==
    LET c == calls[r].cmd IN
    /\ Serves(r, "search", "received")
    /\ \A i \in Found(c) : Readable(c, i, rows[i])
    /\ Done(r, {rows[i] : i \in Found(c)})
    /\ UNCHANGED <<tables, rewraps, raced>>

\* get() of an update, and the version check of the service
Load(r) ==
    LET c == calls[r].cmd
        row == rows[c.id]
    IN /\ Serves(r, "update", "received")
       /\ Selected(c, row) /\ Visible(c, row.tenant) /\ Readable(c, c.id, row)
       /\ row.version = c.expected
       /\ calls' = [calls EXCEPT ![r] = [cmd |-> c, stage |-> "loaded", rows |-> {row}]]
       /\ UNCHANGED <<tables, rewraps, raced>>

\* evolve(): what the patch leaves out comes from the memory that was loaded.
Merged(loaded, c) == IF c.content = None THEN loaded.text.content ELSE c.content

\* The predicates of update(): owner and expected version, but no tenant
Swappable(row, c) == row # None /\ row.owner = c.owner /\ row.version = c.expected

\* Mutant: the snapshot keeps the memory as it was loaded.
Snapshot_Before(loaded, c) == VersionValues(c, c.id, loaded.text.content)

\* The snapshot of the memory that evolve() returned
Snapshot(loaded, c) == VersionValues(c, c.id, Merged(loaded, c))

\* uq_memory_versions_memory_version admits the new snapshot.
FreshVersion(c) == c.expected + 1 \notin DOMAIN versions[c.id]

\* update(): the compare-and-swap of the row, and its snapshot.  When the row
\* has moved on, or the snapshot's version is taken, the request fails.
Update(r) ==
    LET c == calls[r].cmd
        row == rows[c.id]
        loaded == CHOOSE x \in calls[r].rows : TRUE
    IN /\ Serves(r, "update", "loaded")
       /\ Swappable(row, c) /\ FreshVersion(c) /\ c.expected < MaxVersion
       /\ Visible(c, row.tenant) /\ Visible(c, Bound(c))
       /\ ~Locked(c.id)
       /\ rows' = [rows EXCEPT ![c.id] = [owner |-> c.owner, tenant |-> Bound(c),
                                          version |-> c.expected + 1,
                                          text |-> CloudFields(c, c.id, Merged(loaded, c))]]
       /\ versions' = [versions EXCEPT ![c.id] = Append(@, Snapshot(loaded, c))]
       /\ Audited(c, "memory.update", c.id)
       /\ raced' = raced \ {c.id}
       /\ Done(r, {})
       /\ UNCHANGED <<tombstones, issued, rewraps>>

\* forget(): snapshots go with the row; tenant tombstone and audit event are
\* kept for a bound tenant.
Forget(r) ==
    LET c == calls[r].cmd
        i == c.id
    IN /\ Serves(r, "forget", "received")
       /\ Selected(c, rows[i]) /\ Visible(c, rows[i].tenant)
       /\ ~Locked(i)
       /\ rows' = [rows EXCEPT ![i] = None]
       /\ versions' = [versions EXCEPT ![i] = <<>>]
       /\ tombstones' = IF Bound(c) = None THEN tombstones
                        ELSE tombstones \cup {<<Bound(c), i>>}
       /\ Audited(c, "memory.forget", i)
       /\ raced' = raced \ {i}
       /\ Done(r, {})
       /\ UNCHANGED <<issued, rewraps>>

\* call_tool answers: the result, or the error of whatever was refused or took
\* too long.  The transaction that has not committed is rolled back; one that
\* has may still be reported as unavailable.
Answer(r) ==
    /\ calls[r] # None
    /\ calls' = [calls EXCEPT ![r] = None]
    /\ UNCHANGED <<tables, rewraps, raced>>

------------------------------------------------------------------------------
(* rewrap_envelopes, run for a tenant in the Cloud runtime *)

\* The SELECT of the tenant's rows
RewrapSelect(w, t, key) ==
    LET mine(i) == rows[i] # None /\ rows[i].tenant = t IN
    /\ rewraps[w] = None
    /\ rewraps' = [rewraps EXCEPT ![w] =
         [tenant |-> t, key |-> key,
          selected |-> [i \in Ids |-> IF mine(i) THEN rows[i] ELSE None],
          todo |-> {i \in Ids : mine(i) /\ rows[i].text.key # 0},
          staged |-> [i \in Ids |-> None], late |-> {}]]
    /\ UNCHANGED <<tables, calls, raced>>

\* One UPDATE, by identifier: of the row as it is now, with the content as it
\* was selected.  A row that is gone is not written.
RewrapRow(w, i) ==
    LET rw == rewraps[w]
        old == rw.selected[i]
    IN /\ rw # None /\ i \in rw.todo
       /\ Decrypts(rw.tenant, i, old.text)
       /\ ~Locked(i)
       /\ rewraps' = [rewraps EXCEPT ![w] =
            [tenant |-> rw.tenant, key |-> rw.key, selected |-> rw.selected,
             todo |-> rw.todo \ {i},
             staged |-> [rw.staged EXCEPT ![i] = IF rows[i] = None THEN None
                           ELSE Rewrapped(rw.tenant, i, old.text, rw.key)],
             late |-> IF rows[i] # None /\ rows[i].version # old.version
                      THEN rw.late \cup {i} ELSE rw.late]]
       /\ UNCHANGED <<tables, calls, raced>>

\* The second loop, over the snapshots there are by then, and the commit
RewrapCommit(w) ==
    LET rw == rewraps[w]
        mine(i) == rows[i] # None /\ rows[i].tenant = rw.tenant
    IN /\ rw # None /\ rw.todo = {}
       /\ \A i \in Ids : mine(i) => VersionsReadable(rw.tenant, i)
       /\ rows' = [i \in Ids |-> IF rw.staged[i] = None THEN rows[i]
                                 ELSE [rows[i] EXCEPT !.text = rw.staged[i]]]
       /\ versions' = [i \in Ids |-> IF mine(i)
            THEN [v \in DOMAIN versions[i] |->
                    Rewrapped(rw.tenant, i, versions[i][v], rw.key)]
            ELSE versions[i]]
       /\ raced' = raced \cup rw.late
       /\ rewraps' = [rewraps EXCEPT ![w] = None]
       /\ UNCHANGED <<tombstones, audit, issued, calls>>

\* The key service failed, or the operator's task was cancelled.
RewrapAbort(w) ==
    /\ rewraps[w] # None
    /\ rewraps' = [rewraps EXCEPT ![w] = None]
    /\ UNCHANGED <<tables, calls, raced>>

TenantNext ==
    \/ \E r \in Requests :
         \/ \E c \in Commands : Receive(r, c)
         \/ Write(r) \/ Search(r) \/ Load(r) \/ Update(r) \/ Forget(r)
         \/ Answer(r)
    \/ \E w \in Rewraps :
         \/ \E t \in Tenants, key \in Keys : RewrapSelect(w, t, key)
         \/ \E i \in Ids : RewrapRow(w, i)
         \/ RewrapCommit(w) \/ RewrapAbort(w)

TenantSpec == TenantInit /\ [][TenantNext]_all

------------------------------------------------------------------------------
(* Properties *)

\* The side a memory is on: a tenant's, or that of the Community
Side(c) == IF c.cloud THEN Bound(c) ELSE None

Changed(i) == rows'[i] # rows[i] \/ versions'[i] # versions[i]

SideOf(i) == IF rows[i] = None THEN rows'[i].tenant ELSE rows[i].tenant

\* No step reads, writes or removes a memory across the tenant boundary: a row
\* or snapshot changes only in a step of a request, or of a rewrap, on its own
\* side, it never changes sides, and a request reads only rows of its own side,
\* also when a Community caller names a tenant's owner (the RLS policy,
\* __aenter__, _memory_from_row, rewrap_envelopes).
TenantsApart ==
    [][/\ \A i \in Ids : Changed(i) =>
            /\ rows[i] # None /\ rows'[i] # None => rows'[i].tenant = rows[i].tenant
            /\ \/ \E r \in Requests : calls[r] # calls'[r] /\ Side(calls[r].cmd) = SideOf(i)
               \/ \E w \in Rewraps : rewraps[w] # rewraps'[w] /\ rewraps[w].tenant = SideOf(i)
       /\ \A r \in Requests : calls'[r] # None =>
            \A row \in calls'[r].rows : row.tenant = Side(calls'[r].cmd)]_all

\* A text as the tenant of a row, or a Community row, has it
Sealed(t, i, text) == IF t = None THEN text.key = 0 ELSE Decrypts(t, i, text)

\* Everything a tenant has stored is sealed and can be opened by that tenant,
\* rows and snapshots alike, at every point of any rewrap; the Community's is
\* in the clear (_cloud_fields, encrypt, decrypt, rewrap_envelopes).
SealedForItsTenant ==
    /\ TenantTypeOK
    /\ \A i \in Ids : rows[i] # None =>
         /\ Sealed(rows[i].tenant, i, rows[i].text)
         /\ \A v \in DOMAIN versions[i] : Sealed(rows[i].tenant, i, versions[i][v])

\* A row has the content of its newest snapshot.  The one exception is a rewrap
\* whose UPDATE reached the row after another version had been committed since
\* its SELECT: it puts the older content back (rewrap_envelopes, update).
OnlyLateRewrapsRevert ==
    \A i \in Ids : rows[i] # None =>
        /\ Len(versions[i]) = rows[i].version
        /\ rows[i].text.content = versions[i][rows[i].version].content \/ i \in raced

\* The audit trail of a tenant accounts for every memory it ever wrote: it is
\* there with one recorded update per further version, or one recorded forget
\* and a tombstone say that it is gone, whatever was rolled back or reported
\* late on the way (_audit, create, update, forget).
AuditAccounts ==
    \A t \in Tenants, i \in Ids :
        LET n(action) == audit[<<t, action, i>>]
            here == rows[i] # None /\ rows[i].tenant = t
        IN /\ n("memory.write") = IF here \/ <<t, i>> \in tombstones THEN 1 ELSE 0
           /\ n("memory.forget") = IF <<t, i>> \in tombstones THEN 1 ELSE 0
           /\ here => <<t, i>> \notin tombstones /\ n("memory.update") = rows[i].version - 1

------------------------------------------------------------------------------
(* The inductive invariant behind the properties *)

\* An identifier is issued before anything is stored or recorded under it.
IssuedFirst ==
    \A i \in Ids :
        /\ rows[i] # None => i \in issued
        /\ \A t \in Tenants :
             /\ <<t, i>> \in tombstones => i \in issued
             /\ i \notin issued => audit[<<t, "memory.update", i>>] = 0

\* A request has read only on its own side, and an update goes on with one row.
CallsApart ==
    \A r \in Requests : calls[r] # None =>
        /\ \A row \in calls[r].rows : row.tenant = Side(calls[r].cmd)
        /\ calls[r].stage = "loaded" => calls[r].rows # {}

\* What a rewrap selected is its tenant's, and no older row has come in its
\* place.  At the same version it has the content of that version, unless a late
\* rewrap replaced it.
SelectedOK ==
    \A w \in Rewraps, i \in Ids : rewraps[w] # None /\ rewraps[w].selected[i] # None =>
        LET old == rewraps[w].selected[i] IN
        /\ i \in issued
        /\ old.tenant = rewraps[w].tenant
        /\ rows[i] # None =>
             /\ rows[i].tenant = old.tenant
             /\ old.version <= rows[i].version
             /\ old.version = rows[i].version =>
                  old.text.content = versions[i][old.version].content \/ i \in raced

\* A staged text is locked: its row stays, with its version, until the rewrap ends.
StagedOK ==
    \A w \in Rewraps : rewraps[w] # None =>
        /\ \A i \in rewraps[w].todo : rewraps[w].selected[i] # None
        /\ \A i \in Ids : rewraps[w].staged[i] # None =>
             LET text == rewraps[w].staged[i] IN
             /\ rows[i] # None
             /\ rows[i].tenant = rewraps[w].tenant
             /\ Decrypts(rewraps[w].tenant, i, text)
             /\ \/ text.content = versions[i][rows[i].version].content
                \/ i \in raced \cup rewraps[w].late

TenantInv ==
    /\ SealedForItsTenant
    /\ IssuedFirst
    /\ CallsApart
    /\ SelectedOK
    /\ StagedOK
    /\ OnlyLateRewrapsRevert
    /\ AuditAccounts
==============================================================================
