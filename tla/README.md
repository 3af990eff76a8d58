# A TLA+ model of OMP, the memory service of UMCP

OMP keeps memories of a user for agents that reach it over MCP. A memory is
written or captured, confirmed, pinned, updated, related to others and
forgotten; every change is kept as a version. The service runs over PostgreSQL,
or, in its local Cloud composition, over an encrypted in-process store with
backups and a job worker.

This directory models the parts that change state, checks them with TLC on small
instances, and proves the central invariants with TLAPS for every instance.
Source paths below are relative to `src/src/omp/`.

## 1. The system

| Component | State | Operations | Talks to |
|---|---|---|---|
| Memory aggregate (`domain/memory.py`, `domain/types.py`) | one memory: version, content, state, write key | `create`, `evolve`, `snapshot`, `_assert_transition` | called by the service |
| Application service (`application/services.py`) | none of its own | `write`, `capture`, `confirm_candidate`, `pin`, `discard_candidate`, `update`, `forget`, `relate`, `search`, `recall`, `export_memories`, `import_memories` | one unit of work per call |
| PostgreSQL repository (`adapters/postgres`) | `memories`, `memory_versions`, `memory_relations`, `memory_tombstones`, `idempotency_operations`, two vector tables | statements of a READ COMMITTED transaction | row, key-share and unique-index locks between transactions |
| In-memory store (`application/fakes.py`) | the same tables as dictionaries, one transaction lock | the same repository interface, a unit of work at a time | the service in unit tests and in the local composition |
| Re-embedding job (`application/reembedding.py`) | a cursor, one transaction per page | `run` with resume and cutover | repository, beside the service |
| Tenant worker (`cloud/worker.py`) | jobs, dedupe index, nonce index | `enqueue`, `run_one`, `snapshot`, `restore` | awaits handlers, among them `reembed_memory` |
| Encrypted memory (`cloud/encrypted_memory.py`, `cloud/recovery.py`) | records, vectors, write keys, forget keys, tombstones, key version | `write`, `update`, `store_embedding`, `forget`, `delete_owner`, `backup`, `restore`, `restore_isolated`, `rotate`, `rewrap` | operator's backups; worker |
| MCP adapter (`adapters/mcp/adapter.py`) | rate-limiter windows | `call_tool` with a timeout | cancels the service call |
| Account access (`cloud/admin.py`, `server/official.py`) | links, attempts, sessions, agent credentials, connections, deleted tenants | sign-in, logout, creation and revocation, account deletion, tool calls of sessions and agents | encrypted memory |
| M1 gateway (`adapters/mcp/http.py`) | token registry, revoked flags, its own tombstones | eight tools, revoke, restore check | service |
| Tenancy of the PostgreSQL store (`cloud/tenant.py`, `cloud/security.py`, the repository, `migrations/versions/0005`-`0009`) | tenant column of every table, envelopes, audit events, tenant tombstones; settings local to a transaction | `tenant_scope`, `set_tenant_context`, row-level security, `_cloud_fields`, `_audit`, `rewrap_envelopes` | `/mcp` handler, stdio, operator |
| Search and recall | none that outlives a call | `search`, `recall`: filter by space, state and type, cut, rank | repository |
| Embeddings, CLI, SDK, evaluation | none that outlives a call | numeric and formatting work | |

What makes it hard:

* a request of the store is several statements, each of which sees what others
  have committed in the meantime; correctness rests on a compare-and-swap on
  versions, on unique indexes, on foreign keys and on who waits for whom;
* a request may be cut off between any two statements and retried with the same
  idempotency key, with the same or another content;
* the worker and both re-embedding jobs read, await, and write what they
  computed from the old read;
* a tool call is authenticated, authorised and executed with awaits in between,
  while its credential is revoked or its account deleted;
* several tenants, and callers without one, share tables whose rows are kept apart
  by settings of the transaction and by predicates that not every statement has;
* envelopes are read and written back under another key while requests run;
* backups and snapshots bring old state back.

What makes it correct: a memory's history has one snapshot per version and only
legal transitions; a key is executed once and its replay answers what the first
execution answered; what is forgotten stays so, with its history and relations;
a vector in use is that of the current content; jobs are queued once and retried
within a budget, and keep their outcome; nobody manages another tenant's access, reads its
memories or notices its use of the same identifiers; what a tenant stored stays
readable for it; a deleted account stays deleted.

`PROJECT.json` lists the hazards with the line where each bites and the
properties aimed at it.

## 2. Modules

| Module | Models | Uses |
|---|---|---|
| `MemoryLifecycle` | states, the transition table, `create`, `evolve`, `snapshot` | |
| `MemoryCommands` | the commands, their checks on a memory, ledger rows and relations | `MemoryLifecycle` |
| `MemoryStore` | service and repository: concurrent transactions over the tables | `MemoryCommands` |
| `AtomicStore` | the in-memory store: one step per operation; the abstract specification | `MemoryCommands` |
| `StoreRefinement` | `MemoryStore` implements `AtomicStore` | both |
| `StoreTransfer` | export and import beside all of `MemoryStore` | `MemoryStore` |
| `EmbeddingProfiles` | semantic vectors, the PostgreSQL re-embedding job, the cutover | |
| `TenantWorker` | the job queue | |
| `EncryptedMemory` | the encrypted service, backups, keys | |
| `CloudReembed` | the worker running `reembed_memory` against the encrypted service | `TenantWorker`, `EncryptedMemory` |
| `AccountAccess` | sign-in, sessions, credentials, connections, account deletion and the tool calls they admit | `EncryptedMemory` |
| `M1Gateway` | the M1 tools of several tenants, revocation, restore control and recall, over the abstract store | `AtomicStore` |
| `TenantRequests` | requests and rewraps under row-level security and envelope encryption | |
| `MemoryStoreProofs`, `StoreTransferProofs`, `EncryptedMemoryProofs`, `CloudReembedProofs`, `EmbeddingProfilesProofs`, `AccountAccessProofs`, `M1GatewayProofs`, `TenantRequestsProofs` | theorems | the module they name; `MemoryStoreProofs` is also about `StoreRefinement`, `CloudReembedProofs` about `TenantWorker`; `StoreTransferProofs`, `CloudReembedProofs` and `AccountAccessProofs` use the lemmas about the components they compose |
| `MC...` | command sets, envelopes and packages for TLC | the module they name |

### MemoryStore

A client is one request in flight. `pc` is its next statement, `seen` what its
`get()` returned, `effect` and `entry` what it has written and not committed.
The tables hold committed rows only. `Begin` accepts a command, which can name no
identifier that an open write has drawn and told nobody; `Find`,
`Insert`, `Refind` are `write` and `capture`; `Claim`, `Replay`, `Complete` the
idempotency ledger; `Read`, `Write`, `Link`, `Remove` and `Cascade` the reads and
writes of the other operations; `Commit` publishes. `Abort` is a timeout, an error or a lost
connection, at any statement: `call_tool` cancels the call and the unit of work
rolls back.

Locks are not variables. A transaction holds what its uncommitted writes imply
(`Writes`, `Deletes`, `Shares`), and a statement that needs a lock is enabled
only when no other transaction holds it (`CanUpdate`, `CanDelete`, `CanLink`,
`CanInsert`, `CanClaim`), which is how PostgreSQL makes it wait. After the wait
the predicate is evaluated on the new row, as READ COMMITTED does.

A `DELETE` of a memory deletes its relations through the foreign keys of
`memory_relations`, after the row itself and one key after the other: those from
the memory, then those to it. These are two steps, `Cascade` at `"sources"` and at
`"targets"`. A cascade waits (`Waits`) for another open delete whose cascades have
already removed a relation it must remove (`Holds`). Two forgets of memories with
relations in both directions can wait for each other for good (`Deadlocked`); there
PostgreSQL's deadlock detector aborts one of the two (`Victim`). A cascade takes all
its relations at once, which is when the last of their locks is granted.

`Read` stands for the reads of the memory and of a related one, and for the
checks that follow. Merging them is sound here: the row is compared again by
the compare-and-swap, and the related memory again by the foreign key. `Write`
stores the value evolved from the row that was read, but for the write key and its
fingerprint, which `UPDATE` does not set (`Updated`). Beside an import the two rows
can differ although their versions agree.

### AtomicStore and StoreRefinement

The in-memory store serialises units of work with `transaction_lock` and restores
its snapshot on an exception, so an operation is one step. It is the store the
service is unit tested on. `Atomic == INSTANCE AtomicStore WITH` maps the five
tables to themselves and leaves the open transactions out: every `Commit` of `MemoryStore` must be one operation of `AtomicStore`, and every other
statement a stutter.

`ImplementsAtomic` holds for writes, captures, updates, confirmations, pins that
change the state, relations and forgets. It does not hold for two operations: a
discard may delete what is no candidate any more (`store_discard`), and a pin of
what is pinned already locks nothing, so that it is ordered where it read and not
where it commits. Such a commit is `Outdated` when its memory would not be accepted
any more. `AtomicUnlessOutdated` says that every other commit, of these operations
too, is one operation of `AtomicStore`. The run uses a set of commands without
outdated commits; the theorems are about all commands (section 4).

### StoreTransfer

A package is one memory with its history. `BeginImport` validates it,
`CheckImport` compares with the stored memory and the tombstones, `GuardImport`
looks the tombstone up again in the repository, `StoreImport` inserts. Packages
are files an operator has, and whatever `ExportRow` and `ExportHistory` produced
in two statements. Relations inside a package are left out. The identifier of a
write, from `uuid4()`, is that of no package file (`NotPackaged`).

The validation asks for a complete version sequence (`VersionSequence`): one
snapshot of the memory for each version up to the row's. It does not compare the
newest snapshot with the row, and neither does `ValidPackage`.

### EmbeddingProfiles

A service request is atomic here, because `MemoryStore` shows that its version
check is; the job is not. It lists a page, and for each memory awaits the
provider, checks the version and upserts; the upserts stay in `pending` until
the page commits. A foreign-key error (the memory was forgotten) breaks the
transaction, and the page is rolled back although the job counted its earlier
candidates as completed. The cutover counts, counts again and updates, in
three statements. The service may be restarted with the other provider
(`Switch`), and the job may be killed. A dry run only lists and is left out.

### TenantWorker

`_jobs` with its two indexes. `run_one` is two actions, before and after the
handler; everything else happens in between. A cancelled run keeps the attempt
it was counted for and leaves the job runnable. Nothing keeps two calls of
`run_one` from running one job at once; the history variable `overlapped` has the
jobs for which that happened. `Restart` loses everything but the last snapshot; `RestoreJobs` is `restore` of it, `RejectSnapshot` its
refusal. Signatures and reference syntax are taken as correct.

### EncryptedMemory

Every method is synchronous and the event loop has one thread, so each is one
action. A ciphertext is its plaintext and the key version it is bound to.
`RestoreBackup` is `restore` into the running service. `RestoreIsolated` is
`restore_isolated` into a new one. Neither backup nor inventory carries a key
version, and every service of the repository is created with version 1, so the new
one starts there, whatever the old one had reached; the history variable `retired`
keeps that. The tombstones are an argument of `restore_isolated` that is empty by
default. The model has an operator who passes the ledger of the old service, which
is how `tests/unit/test_cloud_security.py` restores a backup older than a
deletion; without it the backup's own ledger is all that is replayed.

### CloudReembed

`StartReembed` is `run_one` and the handler up to the await of the provider,
`FinishReembed` the rest: the conditional `store_embedding` and the job's
outcome. Two runs may overlap, and the service's clients and the operator who
restores backups act during the await. Both checks of the code, that of
`store_embedding` and that of `restore`, compare version numbers, and a restore
lets a later update use a number again with another content. Two history variables
name the cases this lets through: `crossed`, the runs that a restore overtook, and
`revived`, the memories whose vector such a run stored, or which a restore kept
between two contents with one number (`Forked`).

### AccountAccess

`RequestLink`, `Consume` and `Logout` are `LocalMailboxAuth`, with the window of
attempts and the two lifetimes against an explicit `clock`. `CreateCredential`,
`RevokeCredential`, `CreateConnection` and `RevokeConnection` are the admin
handlers. `DeleteAccount` is `request_account_deletion`: `delete_owner` of the
encrypted service and `delete_tenant` in one handler without an await.

A tool call of an agent takes three steps: `Admit` is `verify_token`,
`Authorize` is `_call_cloud`, which rebuilds the principal from the token and
does not look the credential up again, and `Execute` is the method of the
service. A call of a session starts at `CallFromSession`; it also has an
interruption before `Execute`, because `asyncio.wait_for` schedules the call as
a task.

E-mail address, tenant and owner are one thing, since the code derives the
latter two from the address. A session is named by the link that opened it. The
list of attempts of an address is the set of the links it was sent: each attempt
appends one timestamp, that of the link. The
tenant's rate limit may refuse any call; its window is not modelled. `update`
and receipts are left out.

### M1Gateway

A call has three phases. `Invoke` is the tool with its schema and the checks of
`_invoke` before the first await; `Capture`, `Confirm`, `Pin`, `Update`,
`Discard` and `Forget` are the service's operation, one step of `AtomicStore`
each; `Mark` records a deletion in the gateway's own set once the service has
answered. `Fail` is everything that ends a call otherwise: an error, a replay that
changes nothing, or a cancellation, which may come after the service has
committed and then loses the mark. `Revoke` and `Restart` may happen at any time;
`Restart` keeps the tables and loses the flags and marks.

All tenants share the store. A memory belongs to the tenant in `holder`; a key is
the pair of tenant and key, which is how the ledger and the write keys are
indexed. `View(t)` is the store that tenant `t` sees, as an instance of
`AtomicStore`, and `EachTenantAlone` says that for every tenant at once the shared
store implements it.

`Recall` is a pure operator: spaces are searched one by one up to the candidate
limit, in the order of similarity; mental notes and what is below the threshold
are dropped; the rest is ranked by score. Similarity and score of a content are
given numbers. `RecallFaithful` compares it with the definition the contract
gives, `Eligible`, in every reachable store.

### TenantRequests

A request names an owner and one of two runtimes. Over HTTP the handler injects
owner and tenant of the principal; over stdio any owner may be named and no
tenant is bound. `Visible` is the policy of migration 0005, `Selected` what the
repository's own predicates add, `Readable` what `_memory_from_row` refuses. A
stored text carries what it was sealed for, and `Decrypts` compares: nothing is
assumed of the ciphers but that a mismatch fails. That the policy binds at all is an
assumption about the deployment: requests run under the restricted runtime role of
`docs/adr/0012`, to which PostgreSQL applies row-level security, and not as a
superuser or a role with `BYPASSRLS`. `TenantsApart` rests on it.

`Load` and `Update` are two statements with others in between, `Write`, `Search`
and `Forget` one step each, since locks only delay others. `Answer` ends a call at
any point: before the commit it is a rollback, after it the answer of a timeout.
An update whose snapshot would repeat a version is refused by the unique constraint
of `memory_versions` (`FreshVersion`).
A rewrap is its `SELECT`, one `UPDATE` per row whose locks it holds until it
commits, and the second loop over the snapshots with the commit.

## 3. Runs

| Run | Checks | Shows |
|---|---|---|
| `store_lifecycle` | `TypeOK`, `HistoryComplete`, `ForgetIsFinal`, `LegalHistory`, `OneMemoryPerWriteKey`, `ReplayFaithful`, `NoStuckClaim`, `LedgerWriteOnce`, `HistoryAppendOnly` | all operations of one memory, from candidate to archived and forgotten, by two clients who share one key and may be cut off anywhere |
| `store_relations` | `ForgetErases`, `EveryRequestEnds`, `ImplementsAtomic` | two memories that are confirmed, pinned, updated, supersede, contradict and relate to each other while either is forgotten; every transaction ends, and the two deletes of section 2 are the only ones that need the deadlock detector; the in-memory store is implemented |
| `store_discard` | `DiscardsOnlyCandidates` (violated) | a discard deletes what was confirmed after its check |
| `transfer_safety` | `HistoryComplete`, `OneMemoryPerWriteKey`, `RestoreBlocked` | imports, exports and re-imports beside requests |
| `worker_queue` | `OneJobPerKey`, `RetryBudget`, `OnlyOverlapsRevise` | contending requests, overlapping runs, cancellation, expiry, a restart |
| `cloud_backup` | `CloudTypeOK`, `ForgottenStaysForgotten`, `VectorCurrent`, `KeysNotAhead`, `WriteKeysTraceable` | backups, restores in place and into a new service, deletions, rotation and late vectors in any order |
| `account_access` | `LinkQuota`, `DeletedGoesQuiet`, `OnlyOwnerManages`, `ClosedStaysClosed` | two tenants who sign in, create, revoke and delete while a call of either is in flight |
| `reembed_vectors` | `VectorFresh` | overlapping jobs beside requests, backups and restores |
| `profile_reembed` | `SemanticFresh`, `RunCovers`, `EveryRunEnds` | the PostgreSQL job beside requests and a change of provider |
| `profile_cutover` | `CutoverCovered` (violated) | a write between the counts and the cutover |
| `m1_gateway` | `RestoreAnswersRight`, `RecallFaithful`, `EachTenantAlone`, `RevocationHolds` | two tenants who use the same identifiers while connections are revoked, calls cut off and the process restarted |
| `tenant_requests` | `SealedForItsTenant`, `OnlyLateRewrapsRevert`, `AuditAccounts`, `TenantsApart` | two tenants and a Community caller who names their owners, on both runtimes, beside a rewrap |

Each module has a type invariant. It is checked by itself for the store and
the encrypted service, and elsewhere as the first conjunct of one of the
module's invariants.

The two violated properties are statements of the repository's own documents;
`findings` in `PROJECT.json` quotes each with its line. In both a check in one
statement decides a write in a later one.

### Bounds

| Bound | Value | Why it is enough |
|---|---|---|
| clients | 2 | each race in the hazards has two sides; the proofs cover any number |
| memories, keys, contents (store) | 2, 1, 2 | one key makes every keyed operation contend; two contents tell fingerprints and stale values apart |
| versions (store) | the expected versions of the command sets, up to 4 | a candidate can be confirmed, pinned, archived and more than once updated |
| runners, `MaxAttempts`, `MaxCancels`, `MaxRestarts` | 2, 2, 1, 1 | two runs of one job at once; a first and a last attempt, one interruption of each kind |
| envelopes, dedupe keys | 2, 2 | two envelopes for one key, one envelope under two keys |
| `MaxVersion`, `MaxKeyVersion`, `MaxBackups` (`cloud_backup`) | 2, 2, 1 | an old and a new version and key; the one backup can be restored again and again. The proofs have no such limit on how many |
| owners, `MaxVersion`, `MaxAttempts`, `MaxBackups`, runners (`reembed_vectors`) | 1, 2, 1, 2, 2 | two backups can hold one version number with two contents; retries and owners are the business of the components' own runs |
| owners, links (account) | 2, 2 | a tenant and a stranger, each signed in, or one tenant with two sessions or with a link unused at its deletion |
| `LinkTtl`, `LinkWindow`, `SessionTtl`, `MaxTime` | 1, 2, 2, 2 | links expire within the run, an attempt leaves the window, sessions and credentials expire. They are ordered as the code's defaults are; the proofs ask only that each is positive |
| tenants, connections, calls (gateway) | 2, 2, 2 | a tenant and another one with the same identifiers, each with a call in flight; revocation and restart in any phase |
| identifiers, contents, queries (gateway) | 2, 3, 6 | a lesson and a nearer mental note in one space, the lesson moved to another; candidate limits of one and two, so that the limit does and does not cut; ranks differ from similarities |
| tenants, owners, identifiers (tenancy) | 2, 3, 2 | two tenants and an owner without one |
| requests, rewraps, key versions, `MaxVersion` (tenancy) | 2, 1, one besides the default, 3 | two updates of a row around the one UPDATE of a rewrap |
| `MaxId`, `BatchSize` (job) | 3, 2 | a full page followed by another one, and a full last page |
| `MaxRuns`, `MaxSwitches` (job) | 1, 1 | a run may start at any cursor, so one run stands for a resumed one |

Symmetry is declared for the owners and the links of `account_access`, the
runners of `worker_queue`, the runners and contents of `reembed_vectors` and the requests of `tenant_requests`,
whose properties are all safety properties; elsewhere the command sets name
their identifiers. Deadlock is checked everywhere but in `EmbeddingProfiles`, where the
model ends once its bounded memories, runs and switches are used up, and in
`AccountAccess`, where it ends with the clock.

### Fairness

* `FairSpec` (store): strong fairness of each client's `Step`. The coroutine is
  scheduled, and PostgreSQL grants a lock to those that wait for it in turn, so
  a statement that is enabled again and again is executed. `Abort` is not fair:
  `EveryRequestEnds` must hold without timeouts. The exception is `Victim`, weakly
  fair: where cascades wait for each other the server aborts one of them, always,
  after its `deadlock_timeout`. Any other cycle of locks would violate the property.
* `FairProfileSpec`: weak fairness of the job's next step.
* `GatewaySpec`: weak fairness of the steps of each call, whose statements end or
  time out. Nothing is assumed of clients, of revocation or of restarts.

## 4. Proofs

Every invariant and action property of the passing runs is also a theorem, for
every value of the constants that its module's `ASSUME` admits: any number of
clients, tenants, runners, memories, keys and versions. Two theorems have a
hypothesis of their own, which is stated below: `RefinesAtomicStore` and
`ImportsKeepHistory`. The bounds of the models
(`MaxVersion`, `MaxBackups`, ...) are arbitrary numbers there. None of the
invariants is inductive by itself; each module ends with the invariant that is, as
a conjunction of named parts, and the proof module has one lemma per action (or
group of actions with the same effect) that preserves it.

**`MemoryStoreProofs`** proves `Spec => []StoreInv` and from it `TypeOK`,
`HistoryComplete`, `LegalHistory`, `ForgetErases` and `ForgetIsFinal`. They speak
of committed tables, and what a commit adds was decided several statements
earlier. `StoreInv` adds

* `ControlOK`: where a transaction stands determines what it holds;
* `SeenOK`: as long as the row a client read has not moved to a later version it
  is unchanged, and if it is gone there is a tombstone. This is why comparing
  version numbers is enough;
* `WriteIdOK`: the identifier of an open write is nobody else's;
* `PendingOK`: what is about to be committed fits the tables as they are now;
* `Apart`: two transactions never write the same row, and none deletes an
  endpoint another one is linking.

The commit is the only statement that touches the tables and the only long lemma:
`CommitTables` says what it does to them, `CommitHistory` and `CommitForget` that
history and deletions stay right, and `CommitOthers` that the other open
transactions are not disturbed, which is where `Apart` is used.

A second invariant, `LedgerInv`, rests on the first and gives
`OneMemoryPerWriteKey`, `NoStuckClaim`, `ReplayFaithful` and `LedgerWriteOnce`. It
says that the key of an open claim or insert is still free (`EntryOK`, `KeyFree`),
that no two transactions hold the same one (`KeysApart`), and that a recorded
answer is in the history of its memory for as long as the memory lives
(`AnswersKept`). The last is what makes replays faithful: the ledger keeps only a
version number, and `StoreInv` makes that number name one snapshot.
`HistoryAppendOnly` follows from `StoreInv`. The assumption is `StoreAssumption`:
`Null` is no value, and commands are what the command classes accept.

The refinement needs a third invariant beside these two, `RefinementInv` of
`StoreRefinement`, since a commit must be shown to write exactly what the atomic
operation would write on the tables as they are then:

* `SentOK`: a client executes one of the commands, a write under its new identifier;
* `EvolvesOK`: the row an update stores is evolved from the row that is there now;
* `WritesOK`: a transaction about to commit has made all the writes of its command,
  and its relation is not stored yet;
* `OutcomeOK`: the ledger row it will commit is the answer the atomic operation gives;
* `NamesApart`: no two transactions add the same relation, and nobody else has the
  identifier of an open write.

`CommitIsAtomic` then takes a commit apart by operation (`CommitsWrite`,
`CommitsChange`, `CommitsKeep`, `CommitsRelate`, `CommitsRemove`), and every other
step is a stutter. `CommitsAreAtomic` is `AtomicUnlessOutdated` for all commands;
`RefinesAtomicStore` is `ImplementsAtomic` for command sets without discards and
pins, since that is a hypothesis on the commands which excludes outdated commits.
The proof corrected the model in one place: `Write` stored the write key of the row
that was read, where the code's `UPDATE` leaves the stored one (`Updated`).

**`StoreTransferProofs`** proves `TransferInv`, for any set of package files, well
formed or not. `StoreInv` does not survive imports: the race of section 5 lets a
tombstoned memory live again, and a version number may then name another value, so
that `SeenOK`, `LegalHistory` and `ForgetIsFinal` are gone. `TransferInv` keeps what
does not depend on them:

* `TransferControl`: a client executes a command or moves a package, never both, and
  what an import will commit is its validated package;
* `NamesOK`: packages carry identifiers of files or of memories the store has or had,
  open writes carry none of these;
* `BarredOK`: an import that began after the forget has not passed the second lookup
  of the tombstones;
* `TransferPending`, `TransferApart`: what is about to be committed, with its write
  key, still fits the tables and overlaps with nobody else's;
* `SequencesComplete`: the versions of a live memory run from 1 to its own, once each.

From it follow `RestoreBlocked`, `OneMemoryPerWriteKey` and `ForgetErases` beside
imports, and `HistoryAppendOnly`. `HistoryComplete` also says that the newest snapshot
is the row, which the validation does not ask of a file. `ImportsKeepHistory` has this
as its hypothesis about the files (it holds of those of `transfer_safety`) and needs
none about the packages the store exports: `NewestInv`, inductive beside
`TransferInv`, says that a torn export whose newest snapshot is another one is of a
forgotten memory, and blocked.

**`EncryptedMemoryProofs`** proves `CloudSpec => []CloudInv` and from it
`CloudTypeOK`, `ForgottenStaysForgotten`, `VectorCurrent` and `KeysNotAhead`. The
strengthening is `IssuedOnly` (records, tombstones and backups carry issued
identifiers, so a new record meets no tombstone) and `BackupsNotAhead`. Both this
and `KeysNotAhead` compare with the versions `Reached` by the service or by one it
replaced: after an isolated restore the records may be ahead of the new service.
`WriteKeysTraceable` is inductive beside it: `restore` drops the keys of what it
takes away, and tombstones only grow.

**`CloudReembedProofs`** first proves `WorkerInv` of the worker alone, and from it `OneJobPerKey` and
`RetryBudget`. `IndexOK` says that the two indexes lead to every job, also after a
restore, which needs `SnapshotApart`. `BudgetOK` counts: a job that may still be
tried has used less than its budget, what cancellations and restarts lost, and the
runs of it that are under way; `SnapshotBudget` carries this over a restart.
`OutcomesFinal` is `OnlyOverlapsRevise` for any number of runners. It needs
`RunsUnsettled`: as long as no two runs of a job have overlapped, a run of it is the
only one, and the job has no outcome that its end could overwrite.

Then it composes the worker with the encrypted service: `ReembedInv` is `CloudInv`, `WorkerInv`
and `ReadOK`: a run that no restore overtook has read the content which its
version still names, if the record has not moved on. `VectorFresh` follows. The
attempt to prove an earlier form of it, which excepted only overtaken runs, failed
at `restore` and showed the second exception: with two backups of one version
number the vector check of `restore` itself keeps a stale vector.

**`EmbeddingProfilesProofs`** proves `ProfileInv`, and from it `SemanticFresh` and
`RunCovers`. `VectorsOK` and `PageOK` say that vectors and page entries are of a
version the memory has or had (`Was`), `DueOK` that what a run must cover has its
vector or will get it: from the open transaction, from the page, or from a later
page past the cursor.

**`AccountAccessProofs`** proves `AccessInv`, and from it `LinkQuota`,
`DeletedGoesQuiet`, `OnlyOwnerManages` and `ClosedStaysClosed`. `AttemptsKept` says
that pruning forgets no attempt still in the window, `TokensLive` that a deletion
leaves no token, `SessionsSpent` that a session's link cannot be consumed again.
The one lemma `AccessStep` shows the three action properties with the invariant,
action by action; the encrypted service below comes with `CloudInv`.

**`M1GatewayProofs`** proves `GatewayInv` (`HolderOK`, `CapturedOnly`, `ErasureOK`,
`CallsOK`: who holds what, and whatever a call, the ledger or the gateway's own set
says is erased is so for that tenant), and from it `RestoreAnswersRight`,
`RecallFaithful` and `EachTenantAlone`. The last is a refinement for each tenant: a
step of the shared store is one operation of `View(t)` for the tenant that calls
(`CaptureSeen`, `ChangeSeen`, `RemoveSeen`) and a stutter for every other
(`ViewKept`). `RecallFaithful` needs that a search with room for its matches
returns them all (`SearchComplete`), for which `Ids` is finite.

**`TenantRequestsProofs`** proves `TenantInv`, and from it `SealedForItsTenant`,
`OnlyLateRewrapsRevert`, `AuditAccounts` and `TenantsApart`. `SelectedOK` follows
the texts that an open rewrap has selected: rows only move to later versions in the
meantime; `StagedOK` says that what it has updated and not committed stays locked;
`CallsApart` that a request holds rows of its own side only.

Only model-checked is liveness under fairness, which is out of the prover's reach:
`EveryRequestEnds`, `EveryRunEnds` and `RevocationHolds`. For
`ImplementsAtomic` the run covers one set of commands with a pin that the
hypothesis of `RefinesAtomicStore` leaves out; `CommitsAreAtomic` covers it.

## 5. Known limits of the code that no run states

The models contain these behaviours; the properties are worded so as not to
claim the contrary.

* Two forgets of memories that have relations in both directions can deadlock in
  their cascades. PostgreSQL aborts one, and its caller gets an error; nothing in the
  code retries it or orders the deletes.
* Two overlapping calls of `run_one` for one job: the state is checked before the
  handler only, so the later one overwrites a terminal state. A job that is ready
  can become failed and is then tried again. `OnlyOverlapsRevise` excepts jobs whose
  runs overlapped, and says that there is no other way.
* Nothing drives the worker: it has no loop, and `retryable()` has no caller, tests
  included. So no property says that a queued job settles.
* A run that is cancelled, interrupted by a restart after its snapshot, or under
  way beside the last attempt of its job adds one attempt to the budget;
  `RetryBudget` says that nothing else does.
* A job whose envelope expires is failed and retryable for ever and never a dead
  letter, although `docs/adr/0014` speaks of bounded retry and a DLQ: the envelope is
  verified before the attempt is counted.
* A call admitted before an account deletion can still write afterwards, and
  leaves a memory of a deleted account. `DeletedGoesQuiet` starts when the calls
  in flight have ended.
* Deletion does not require an unexpired session, authentication does not
  consult connections, and a deleted address can never sign in again.
* One expired entry rejects a worker snapshot with all its valid jobs.
* `export_memory` reads row and history in two statements. A torn package is
  refused by the import's validation or, when a forget and a racing import fell
  between the two, by the tombstone.
* The import's validation does not compare the newest snapshot with the row: a file
  in which they differ is stored as it is. `ImportsKeepHistory` says so in its
  hypothesis.
* In the encrypted service `forget` answers `already_absent` for good once it was
  asked about an identifier that was absent, also when a restore brings the
  memory back; and it leaves the write key, so a retry of the write fails.
* A service that was restored into anew starts at key version 1, and its records may
  be bound to later ones. They still open, since each carries its version; new
  writes are sealed under version 1 again, and a `rewrap` to an earlier version than
  theirs moves them back to it.
* An isolated restore whose caller passes no tombstones brings back what was deleted
  since the backup. `ForgottenStaysForgotten` is about an operator who passes them.
* While the database cannot be asked, the restore control answers `validation_error`
  also for an erased memory it has no mark of. `RestoreAnswersRight` says that it
  still blocks no other.
* An import whose tombstone lookup precedes the commit of a forget inserts the
  memory again beside its tombstone, although `M01-CORE-CONTRACT.md:327` has a
  tombstone block it. `RestoreBlocked` speaks of imports that begin later.
* A restore lets an update reach the same version number with another content, and
  vectors are compared by number only: `store_embedding` then accepts the vector of
  a run that the restore overtook, and a restore of a second backup keeps the vector
  of the content it replaces. `VectorFresh` excepts exactly these two.
* `rewrap_envelopes` puts back the content it selected, also over an update that
  was committed since; history keeps what was lost. `OnlyLateRewrapsRevert`
  excepts exactly this. Later writes of the tenant are sealed under version 1
  again, whatever version it was rewrapped to.
* A recall without a space searches every space of the owner: `None` is no filter,
  although `M01-CORE-CONTRACT.md:202` has `null` mean the global space.
  `RecallFaithful` speaks of recalls that name a space.
* Only a capture is held to a connection's spaces. A recall may name any space as
  its context, and an update or a confirmation may move a memory anywhere; the
  policy's flags for global and cross-space notes are never set.
* A revoked connection may still revoke others of its tenant, and a restart of the
  gateway forgets all revocations.
* `list_inbox` returns a cursor that no call looks at.
* The tenant rate limiter is called fixed-window and slides.
* A late upsert of the PostgreSQL job can replace a newer vector; the memory is
  then without an accepted vector, never with a wrong one.

## 6. Not modelled

* The rate limiter's window. It slides like that of the sign-in links, which
  `LinkQuota` is about; beside the calls of `AccountAccess` its timestamps are
  beyond what TLC can enumerate in a useful bound.
* The inbox listing, which only reads; the vectors of the hash profile, which
  search does not compare with the version.
* The local file service and the gateway fakes; the vectors and the admin part of
  the in-memory store.
* In `TenantRequests`: relations, vectors and ledger rows under the policy, usage
  counters, the downgrades of the migrations.
* Cryptography, embedding providers, serialization, SDK, CLI, configuration,
  evaluation: pure functions, I/O or numeric work. Where a model depends on one
  it uses what the code relies on: fingerprints are injective, an envelope
  verifies until it expires, a text opens only for what it was sealed for.

## 7. Plan

What was planned is modelled, checked and proved. What would extend the project is
the relations inside a package, which an import inserts between memories of the
file and of the store, and the inbox listing and rate limiter of section 6.
