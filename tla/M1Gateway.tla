------------------------------ MODULE M1Gateway ------------------------------
(***************************************************************************)
(* The M1 gateway of adapters/mcp/http.py: bearer tokens of several        *)
(* tenants, the tools they may call on the memory service, the revocation  *)
(* of a connection, the restore control, and what a recall returns.        *)
(*                                                                         *)
(* A call is checked, awaits the service, and records a deletion when the  *)
(* service has answered; other calls and revocations happen in between.    *)
(* An operation of the service is one step, as AtomicStore says.  All      *)
(* tenants share the store; a key stands for the tenant it was sent by and *)
(* the key itself, the way the ledger and the write keys are indexed.      *)
(* Content stands for the fields of a memory that an update changes.       *)
(***************************************************************************)
EXTENDS AtomicStore, FiniteSets, Sequences

CONSTANTS
    Tenants, Spaces, Kinds,
    Connections,
    Principal,        \* the M1Principal of each connection's token
    SentBy,           \* the tenant of a key
    SpaceOf, KindOf,  \* space and type of a content
    Rank,             \* the order of identifiers
    Calls,            \* calls in flight
    Similarity,       \* of each content with the query that is asked
    Score,            \* similarity weighed with importance and confidence
    Queries           \* recalls that are asked

\* M1Principal without the revoked flag.  Tenant stands for tenant and owner:
\* owner_id is derived from them.
PrincipalType == [tenant : Tenants, scopes : SUBSET {"memory:read", "memory:write", "memory:delete"},
                  spaces : SUBSET Spaces]

\* The arguments of memory.recall, and "candidates", the candidate_limit that the
\* gateway leaves at its default
Query == [context : Spaces \cup {Null}, include : Seq(Spaces), kinds : SUBSET Kinds,
          states : SUBSET States, notes : BOOLEAN, limit : Nat \ {0}, threshold : Nat,
          candidates : Nat \ {0}]

ASSUME GatewayAssumption ==
    /\ SentBy \in [Keys -> Tenants]
    /\ SpaceOf \in [Contents -> Spaces \cup {Null}] /\ KindOf \in [Contents -> Kinds]
    /\ Rank \in [Ids -> Nat] /\ \A i, j \in Ids : Rank[i] = Rank[j] => i = j
    /\ Principal \in [Connections -> PrincipalType]
    /\ Similarity \in [Contents -> Nat] /\ Score \in [Contents -> Nat]
    /\ Queries \subseteq Query
    /\ IsFiniteSet(Ids)
    /\ Null \notin Tenants \cup Spaces \cup Connections

VARIABLES
    holder,      \* the tenant_id column of memories and tombstones
    revoked,     \* connections whose principal is revoked
    gone,        \* M1LocalControl.tombstones
    call         \* per call in flight: its connection, command and phase

control == <<revoked, gone>>
gateway == <<store, holder, control, call>>

Idle == [conn |-> Null, cmd |-> Null, phase |-> "idle"]

GatewayTypeOK ==
    /\ memories \in [Ids -> Row \cup {Null}]
    /\ versions \subseteq Snapshot
    /\ tombstones \subseteq Ids
    /\ ledger \in [LedgerKeys -> Entry \cup {Null}]
    /\ holder \in [Ids -> Tenants \cup {Null}]
    /\ revoked \subseteq Connections
    /\ gone \subseteq Tenants \X Ids
    /\ call \in [Calls -> [conn : Connections, cmd : Commands, phase : {"admitted", "forgotten"}]
                          \cup {Idle}]

\* create_m1_http_app and M1LocalAuth over an empty store
GatewayInit ==
    /\ AtomicInit
    /\ holder = [i \in Ids |-> Null]
    /\ revoked = {}
    /\ gone = {}
    /\ call = [r \in Calls |-> Idle]

Tenant(c) == Principal[c].tenant

------------------------------------------------------------------------------
(* Admission *)

\* The tools and their strict schemas.  A capture creates a candidate, every
\* mutation has a key, and no tool relates two memories.
Schema(k) ==
    /\ k.op \in {"write", "confirm", "pin", "discard", "update", "forget"}
    /\ k.op = "write" => k.state = "candidate"
    /\ k.key # Null /\ k.rel = Null

\* M1Patch: a field that is given is not blank, and one is given.
PatchOK(k) ==
    k.op = "update" => k.content # Null \/ k.state # Null

\* The scope _invoke requires of each tool
Scope(k) == IF k.op \in {"forget", "discard"} THEN "memory:delete" ELSE "memory:write"

\* Only a capture is held to the spaces of its connection.
CaptureAllowed(c, k) ==
    k.op = "write" => SpaceOf[k.content] \in Principal[c].spaces \cup {Null}

\* Mutant: a revoked connection is only refused by the revoke endpoint.
Admits_Revoked(c, k) == Scope(k) \in Principal[c].scopes /\ CaptureAllowed(c, k)

\* The checks _invoke makes before it awaits the service
Admits(c, k) ==
    c \notin revoked /\ Scope(k) \in Principal[c].scopes /\ CaptureAllowed(c, k)

\* A tool call that passes: the command carries the tenant of the token.
Invoke(r, c, k) ==
    /\ call[r] = Idle
    /\ Schema(k) /\ PatchOK(k) /\ SentBy[k.key] = Tenant(c)
    /\ Admits(c, k)
    /\ call' = [call EXCEPT ![r] = [conn |-> c, cmd |-> k, phase |-> "admitted"]]
    /\ UNCHANGED <<store, holder, control>>

------------------------------------------------------------------------------
(* Execution by the service *)

Admitted(r, op) == call[r].phase = "admitted" /\ call[r].cmd.op = op

\* Mutant: a memory is looked up by its identifier alone.
Mine_Anyones(r) == TRUE

\* get() and forget() look for a memory of the caller's owner and tenant.
Mine(r) == holder[call[r].cmd.id] = Tenant(call[r].conn)

\* The response is sent; what the service returned is all there is.
Respond(r) == call' = [call EXCEPT ![r] = Idle]

\* The service answered that it has forgotten a memory.
Forgotten(r) == call' = [call EXCEPT ![r].phase = "forgotten"]

Capture(r) ==
    /\ Admitted(r, "write")
    /\ \E i \in Ids : /\ AtomicWrite(call[r].cmd, i)
                      /\ holder' = [holder EXCEPT ![i] = Tenant(call[r].conn)]
    /\ Respond(r)
    /\ UNCHANGED control

Confirm(r) ==
    /\ Admitted(r, "confirm") /\ Mine(r)
    /\ AtomicChange(call[r].cmd)
    /\ Respond(r)
    /\ UNCHANGED <<holder, control>>

Pin(r) ==
    /\ Admitted(r, "pin") /\ Mine(r)
    /\ AtomicChange(call[r].cmd) \/ AtomicKeep(call[r].cmd)
    /\ Respond(r)
    /\ UNCHANGED <<holder, control>>

Update(r) ==
    /\ Admitted(r, "update") /\ Mine(r)
    /\ AtomicChange(call[r].cmd)
    /\ Respond(r)
    /\ UNCHANGED <<holder, control>>

Discard(r) ==
    /\ Admitted(r, "discard") /\ Mine(r)
    /\ AtomicRemove(call[r].cmd)
    /\ Forgotten(r)
    /\ UNCHANGED <<holder, control>>

\* Only a memory that was there is answered as forgotten; one that is another
\* tenant's is absent for the caller.
Forget(r) ==
    LET k == call[r].cmd
        there == Mine(r) /\ memories[k.id] # Null
    IN /\ Admitted(r, "forget")
       /\ \/ there /\ AtomicRemove(k) /\ Forgotten(r)
          \/ /\ ~there /\ Unclaimed(k)
             /\ Record(k, "already_absent", 0, Null)
             /\ UNCHANGED <<memories, versions, relations, tombstones>>
             /\ Respond(r)
       /\ UNCHANGED <<holder, control>>

\* A discard whose key was completed answers what the first one answered; the
\* replays of the other tools change nothing, as a failure does.
ReplayDiscard(r) ==
    LET e == ledger[LedgerKey(call[r].cmd)] IN
    /\ Admitted(r, "discard")
    /\ e # Null /\ e.print = Fingerprint(call[r].cmd) /\ e.result = "forgotten"
    /\ Forgotten(r)
    /\ UNCHANGED <<store, holder, control>>

\* The service raised, or replayed; or the call was cancelled, perhaps when the
\* service had already committed.
Fail(r) ==
    /\ call[r] # Idle
    /\ Respond(r)
    /\ UNCHANGED <<store, holder, control>>

\* The rest of _invoke for forget and discard
Mark(r) ==
    /\ call[r].phase = "forgotten"
    /\ gone' = gone \cup {<<Tenant(call[r].conn), call[r].cmd.id>>}
    /\ Respond(r)
    /\ UNCHANGED <<store, holder, revoked>>

------------------------------------------------------------------------------
(* Controls *)

\* M1LocalAuth.revoke finds connections of the actor's tenant only.
Revocable(a, c) == Tenant(a) = Tenant(c)

\* POST /local/revoke.  The actor needs a token, which may itself be revoked.
Revoke(a, c) ==
    /\ Revocable(a, c)
    /\ revoked' = revoked \cup {c}
    /\ UNCHANGED <<store, holder, gone, call>>

\* Mutant: only deletions this process has made are known.
IsTombstoned_Own(c, i, up) == <<Tenant(c), i>> \in gone

\* M1LocalControl.is_tombstoned: its own set, then the table, when the database
\* is up.  A lookup that fails has found nothing.
IsTombstoned(c, i, up) ==
    <<Tenant(c), i>> \in gone \/ (up /\ i \in tombstones /\ holder[i] = Tenant(c))

\* POST /local/restore never restores: it tells why not, and says the same of a
\* failing lookup as of a memory that is not erased.
RestoreAnswer(c, i, up) ==
    IF IsTombstoned(c, i, up) THEN "restore_blocked_by_tombstone" ELSE "validation_error"

\* The process is restarted over a database that keeps the tables.
Restart ==
    /\ revoked' = {} /\ gone' = {}
    /\ call' = [r \in Calls |-> Idle]
    /\ UNCHANGED <<store, holder>>

CallStep(r) ==
    \/ Capture(r) \/ Confirm(r) \/ Pin(r) \/ Update(r) \/ Discard(r) \/ Forget(r)
    \/ ReplayDiscard(r) \/ Fail(r) \/ Mark(r)

GatewayNext ==
    \/ \E r \in Calls : CallStep(r) \/ \E c \in Connections, k \in Commands : Invoke(r, c, k)
    \/ \E a, c \in Connections : Revoke(a, c)
    \/ Restart

\* A call that is being served makes progress: statements end or time out.
GatewaySpec ==
    GatewayInit /\ [][GatewayNext]_gateway /\ \A r \in Calls : WF_gateway(CallStep(r))

------------------------------------------------------------------------------
(* Recall *)

\* SpacePolicy as _invoke builds it, and SpacePolicy.allows
Allows(c, q, s) ==
    s = q.context \/ (q.include # <<>> /\ s \in Principal[c].spaces)

\* The spaces recall searches, one after the other
RequestedSpaces(q) ==
    IF q.include = <<>> THEN {q.context} ELSE {q.include[n] : n \in DOMAIN q.include}

\* The states _invoke asks for
RequestedStates(q) == IF q.states = {} THEN {"confirmed", "pinned"} ELSE q.states

Closeness(i) == Similarity[memories[i].content]

\* The order of search_candidates: nearest first, identifiers break the tie
Nearer(i, j) == Closeness(i) > Closeness(j) \/ (Closeness(i) = Closeness(j) /\ Rank[i] < Rank[j])

\* The order of a recall's answer: score first
Ranked(i, j) ==
    LET score(x) == Score[memories[x].content] IN
    score(i) > score(j) \/ (score(i) = score(j) /\ Nearer(i, j))

\* The first n of S in an order
First(n, S, Order(_, _)) == {i \in S : Cardinality({j \in S : Order(j, i)}) < n}

\* The rows of the tenant that pass the filters of search_candidates.  A filter
\* that is None is no filter, the one on the space included.
Matching(c, q, s) ==
    {i \in Ids : /\ memories[i] # Null /\ holder[i] = Tenant(c)
                 /\ memories[i].state \in RequestedStates(q)
                 /\ q.kinds # {} => KindOf[memories[i].content] \in q.kinds
                 /\ s # Null => SpaceOf[memories[i].content] = s}

\* Mutant: mental notes are left in.
Kept_Notes(q, i) == Closeness(i) >= q.threshold

\* What recall keeps of the candidates: relevant ones, and mental notes only
\* when they are asked for
Kept(q, i) ==
    /\ Closeness(i) >= q.threshold
    /\ KindOf[memories[i].content] = "mental_note" => q.notes

\* MemoryApplicationService.recall: the best of each space are fetched, cut down
\* and ranked together.  A space that is not allowed fails the whole call.
Recall(c, q) ==
    IF \E s \in RequestedSpaces(q) : ~Allows(c, q, s) THEN {}
    ELSE LET found == UNION {First(q.candidates, Matching(c, q, s), Nearer) : s \in RequestedSpaces(q)}
         IN First(q.limit, {i \in found : Kept(q, i)}, Ranked)

------------------------------------------------------------------------------
(* Properties *)

\* The restore control answers that a memory is blocked exactly when it was the
\* caller's and is erased: also when the call that erased it was cut off before
\* it recorded so, after a restart, and never for a memory of another tenant,
\* whom such an answer would tell that it existed.  While the database cannot be
\* asked it may miss an erased memory, but never blocks another one
\* (M1LocalControl.is_tombstoned, restore, _invoke of forget and discard).
RestoreAnswersRight ==
    /\ GatewayTypeOK
    /\ \A c \in Connections, i \in Ids :
         LET blocked(up) == RestoreAnswer(c, i, up) = "restore_blocked_by_tombstone"
             erased == holder[i] = Tenant(c) /\ memories[i] = Null
         IN (blocked(TRUE) <=> erased) /\ (blocked(FALSE) => erased)

\* The store as one tenant sees it
MemoriesOf(t)   == [i \in Ids |-> IF holder[i] = t THEN memories[i] ELSE Null]
VersionsOf(t)   == {s \in versions : holder[s.id] = t}
RelationsOf(t)  == {r \in relations : holder[r.source] = t}
TombstonesOf(t) == {i \in tombstones : holder[i] = t}
LedgerOf(t)     == [o \in LedgerKeys |-> IF SentBy[o[2]] = t THEN ledger[o] ELSE Null]

View(t) == INSTANCE AtomicStore WITH
    memories <- MemoriesOf(t), versions <- VersionsOf(t), relations <- RelationsOf(t),
    tombstones <- TombstonesOf(t), ledger <- LedgerOf(t)

\* Tenants share a store and do not notice: what each sees changes as a store of
\* its own would, by whole operations, whatever the others call with the same
\* keys and with its identifiers (repository lookups by owner and tenant, the
\* ledger's key, _invoke's use of the token's tenant).
EachTenantAlone ==
    /\ \A t \in Tenants : View(t)!AtomicInit
    /\ [][UNCHANGED <<store, holder>> \/
            \A t \in Tenants : UNCHANGED View(t)!store \/ View(t)!AtomicNext]_gateway

InFlight(c) == {r \in Calls : call[r].conn = c}

\* Revocation takes hold: the calls of a revoked connection end, and it stays
\* without one until the process is restarted, which forgets the revocation
\* ("Revocation is checked on every call"; M1LocalAuth.revoke, _invoke).
RevocationHolds ==
    \A c \in Connections :
        c \in revoked ~> (c \notin revoked \/ [](InFlight(c) = {} \/ c \notin revoked))

\* The memories the contract makes eligible for a recall
Eligible(c, q) ==
    {i \in Ids : /\ memories[i] # Null /\ holder[i] = Tenant(c)
                 /\ memories[i].state \in RequestedStates(q)
                 /\ SpaceOf[memories[i].content] \in RequestedSpaces(q)
                 /\ q.kinds # {} => KindOf[memories[i].content] \in q.kinds
                 /\ KindOf[memories[i].content] = "mental_note" => q.notes
                 /\ Closeness(i) >= q.threshold}

\* A recall that names a space returns eligible memories only, and the best of
\* them as long as no space has more matches than a search returns: searching
\* space by space, filtering after that and ranking by another order than the
\* searches loses nothing (recall, search_candidates).
RecallFaithful ==
    \A c \in Connections, q \in Queries :
        Null \notin RequestedSpaces(q) =>
            /\ Recall(c, q) \subseteq Eligible(c, q)
            /\ (\A s \in RequestedSpaces(q) :
                  Allows(c, q, s) /\ Cardinality(Matching(c, q, s)) <= q.candidates)
               => Recall(c, q) = First(q.limit, Eligible(c, q), Ranked)

------------------------------------------------------------------------------
(* The inductive invariant behind the safety properties *)

\* An identifier that was given to a tenant is that of a memory or of a tombstone.
HolderOK ==
    \A i \in Ids : /\ memories[i] # Null => holder[i] # Null
                   /\ i \in tombstones <=> memories[i] = Null /\ holder[i] # Null

\* Nothing but memories that were captured has a history, and no tool relates.
CapturedOnly == relations = {} /\ \A s \in versions : holder[s.id] # Null

ErasedFor(t, i) == i \in tombstones /\ holder[i] = t

\* What a call, the ledger and the control set say is erased is so, for the tenant
\* they say it of.
ErasureOK ==
    /\ \A p \in gone : ErasedFor(p[1], p[2])
    /\ \A r \in Calls : call[r].phase = "forgotten" =>
         ErasedFor(Tenant(call[r].conn), call[r].cmd.id)
    /\ \A o \in LedgerKeys : ledger[o] # Null /\ ledger[o].result = "forgotten" =>
         ErasedFor(SentBy[o[2]], ledger[o].print.id)

\* A call in flight passed the schema and carries the tenant of its token.
CallsOK ==
    \A r \in Calls : call[r] # Idle =>
        Schema(call[r].cmd) /\ SentBy[call[r].cmd.key] = Tenant(call[r].conn)

GatewayInv ==
    /\ GatewayTypeOK
    /\ HolderOK
    /\ CapturedOnly
    /\ ErasureOK
    /\ CallsOK
==============================================================================
