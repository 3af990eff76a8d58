---------------------------- MODULE AccountAccess ----------------------------
(***************************************************************************)
(* Sign-in, sessions, agent credentials, connections and account deletion  *)
(* of the local Cloud composition, in front of EncryptedMemory.            *)
(*                                                                         *)
(* A handler of the admin API runs to its end without an await, except     *)
(* that a call of a memory tool is scheduled as a task of its own.  An     *)
(* agent's request is checked twice with awaits around: verify_token looks *)
(* the credential up, later _call_cloud looks only at the token's scope    *)
(* and expiry.  Accounts may be deleted and credentials revoked in         *)
(* between.                                                                *)
(*                                                                         *)
(* One e-mail address, one tenant and one owner are the same thing here:   *)
(* the tenant, the subject and the owner derive from the address's digest. *)
(* A session is named by the link it was opened with; digests, cookies and *)
(* CSRF tokens identify it and are otherwise left out.                     *)
(***************************************************************************)
EXTENDS EncryptedMemory

CONSTANTS
    Links,            \* bound: magic links that are sent
    Credentials,      \* bound: agent credentials that are created
    Connections,      \* bound: connections that are created
    Calls,            \* bound: tool calls in flight
    Tools,            \* the memory tools that are called
    Grants,           \* the scope sets a credential is created with
    LinkLimit,        \* magic_link_limit
    LinkWindow,       \* magic_link_window
    LinkTtl,          \* lifetime of a link
    SessionTtl,       \* lifetime of a principal, counted from its link
    CredentialTtls,   \* lifetimes a credential is created with
    MaxTime           \* bound: ticks of the clock

\* The scope _call_cloud and the admin API require for a tool
ScopeOf == [write |-> "memory:write", search |-> "memory:read", forget |-> "memory:delete"]

Scopes == {"memory:read", "memory:write", "memory:delete"}

\* _MagicLink; the principal it carries is the owner, until sent + SessionTtl
Link == [owner : Owners, sent : Nat, used : BOOLEAN]

Credential == [owner : Owners, scopes : SUBSET Scopes, expires : Nat, revoked : BOOLEAN]

Connection == [owner : Owners, status : {"active", "revoked"}]

\* A tool call in flight: "admitted" by verify_token, or "allowed" to reach the
\* service.  "by" is None for a call of the admin API.
Call == [stage : {"admitted", "allowed"}, owner : Owners, tool : Tools,
         by : Credentials \cup {None}]

ASSUME AccessAssumption ==
    /\ {LinkLimit, LinkWindow, LinkTtl, SessionTtl} \subseteq Nat \ {0}
    /\ CredentialTtls \subseteq Nat \ {0} /\ MaxTime \in Nat
    /\ Tools \subseteq DOMAIN ScopeOf
    /\ Grants \subseteq SUBSET Scopes
    /\ IsFiniteSet(Links)
    /\ None \notin Link \cup Credential \cup Connection \cup Call

VARIABLES
    clock, links, sessions, credentials, tokenIndex, connections, deleted, calls,
    attempts     \* _magic_link_attempts: per address the links that were sent, whose
                 \* times are the timestamps of the list

account == <<links, sessions, credentials, tokenIndex, connections, deleted>>
access  == <<cloud, account, clock, attempts, calls>>

AccessTypeOK ==
    /\ clock \in 0..MaxTime
    /\ links \in [Links -> Link \cup {None}]
    /\ sessions \subseteq {l \in Links : links[l] # None}
    /\ attempts \in [Owners -> SUBSET Links]
    /\ credentials \in [Credentials -> Credential \cup {None}]
    /\ tokenIndex \subseteq {c \in Credentials : credentials[c] # None}
    /\ connections \in [Connections -> Connection \cup {None}]
    /\ deleted \subseteq Owners
    /\ calls \in [Calls -> Call \cup {None}]

AccessInit ==
    /\ CloudInit
    /\ clock = 0
    /\ links = [l \in Links |-> None]
    /\ sessions = {}
    /\ attempts = [o \in Owners |-> {}]
    /\ credentials = [c \in Credentials |-> None]
    /\ tokenIndex = {}
    /\ connections = [n \in Connections |-> None]
    /\ deleted = {}
    /\ calls = [r \in Calls |-> None]

Tick ==
    /\ clock < MaxTime
    /\ clock' = clock + 1
    /\ UNCHANGED <<cloud, account, attempts, calls>>

------------------------------------------------------------------------------
(* Magic links and sessions: LocalMailboxAuth *)

\* Mutant: an attempt leaves the window one tick early.
RecentAttempts_Early(o) == {l \in attempts[o] : links[l].sent + LinkWindow > clock + 1}

\* The attempts of request() that are still in the window
RecentAttempts(o) == {l \in attempts[o] : links[l].sent + LinkWindow > clock}

\* request(): the answer is the same either way; only a sent link counts.
RequestLink(o) ==
    LET recent == RecentAttempts(o) IN
    /\ \/ /\ Cardinality(recent) >= LinkLimit
          /\ attempts' = [attempts EXCEPT ![o] = recent]
          /\ UNCHANGED links
       \/ /\ Cardinality(recent) < LinkLimit
          /\ \E l \in Links :
               /\ links[l] = None
               /\ attempts' = [attempts EXCEPT ![o] = recent \cup {l}]
               /\ links' = [links EXCEPT ![l] = [owner |-> o, sent |-> clock, used |-> FALSE]]
    /\ UNCHANGED <<cloud, sessions, credentials, tokenIndex, connections, deleted,
                   clock, calls>>

\* Mutant: a link may be used again.
Consumable_Again(l) == links[l] # None /\ clock < links[l].sent + LinkTtl

\* The guard of consume()
Consumable(l) == links[l] # None /\ ~links[l].used /\ clock < links[l].sent + LinkTtl

\* consume(): also for an account that was deleted; session() refuses it later.
Consume(l) ==
    /\ Consumable(l)
    /\ links' = [links EXCEPT ![l].used = TRUE]
    /\ sessions' = sessions \cup {l}
    /\ UNCHANGED <<cloud, attempts, credentials, tokenIndex, connections, deleted,
                   clock, calls>>

\* Mutant: deletion only closes the sessions it finds.
Authenticated_Deleted(l) == l \in sessions

\* principal() and require_csrf(): the session exists and its tenant does too
Authenticated(l) == l \in sessions /\ links[l].owner \notin deleted

\* Principal.requires for a session, which holds every scope
Unexpired(l) == clock < links[l].sent + SessionTtl

Logout(l) ==
    /\ Authenticated(l)
    /\ sessions' = sessions \ {l}
    /\ UNCHANGED <<cloud, links, attempts, credentials, tokenIndex, connections,
                   deleted, clock, calls>>

------------------------------------------------------------------------------
(* Credentials, connections and the account *)

\* The entry create_agent_credential stores
NewCredential(l, g, ttl) ==
    [owner |-> links[l].owner, scopes |-> g, expires |-> clock + ttl, revoked |-> FALSE]

CreateCredential(l) ==
    /\ Authenticated(l) /\ Unexpired(l)
    /\ \E c \in Credentials, g \in Grants, ttl \in CredentialTtls :
         /\ credentials[c] = None
         /\ credentials' = [credentials EXCEPT ![c] = NewCredential(l, g, ttl)]
         /\ tokenIndex' = tokenIndex \cup {c}
    /\ UNCHANGED <<cloud, links, sessions, attempts, connections, deleted, clock,
                   calls>>

\* Mutant: any session may revoke what it can name.
Manages_Any(l, item) == item # None

\* The tenant check of both revoke handlers
Manages(l, item) == item # None /\ item.owner = links[l].owner

\* The token index keeps the revoked credential.
RevokeCredential(l, c) ==
    /\ Authenticated(l) /\ Unexpired(l)
    /\ Manages(l, credentials[c])
    /\ credentials' = [credentials EXCEPT ![c].revoked = TRUE]
    /\ UNCHANGED <<cloud, links, sessions, attempts, tokenIndex, connections, deleted,
                   clock, calls>>

CreateConnection(l) ==
    /\ Authenticated(l) /\ Unexpired(l)
    /\ \E n \in Connections :
         /\ connections[n] = None
         /\ connections' = [connections EXCEPT ![n] =
              [owner |-> links[l].owner, status |-> "active"]]
    /\ UNCHANGED <<cloud, links, sessions, attempts, credentials, tokenIndex, deleted,
                   clock, calls>>

RevokeConnection(l, n) ==
    /\ Authenticated(l) /\ Unexpired(l)
    /\ Manages(l, connections[n])
    /\ connections' = [connections EXCEPT ![n].status = "revoked"]
    /\ UNCHANGED <<cloud, links, sessions, attempts, credentials, tokenIndex, deleted,
                   clock, calls>>

Belongs(item, o) == item # None /\ item.owner = o

\* request_account_deletion(): delete_owner of the service, then delete_tenant.
\* The session need not be unexpired.  Links, attempts and calls stay.
DeleteAccount(l) ==
    LET o == links[l].owner IN
    /\ Authenticated(l)
    /\ DeleteOwner(o)
    /\ deleted' = deleted \cup {o}
    /\ connections' = [n \in Connections |-> IF Belongs(connections[n], o)
         THEN [connections[n] EXCEPT !.status = "revoked"] ELSE connections[n]]
    /\ credentials' = [c \in Credentials |-> IF Belongs(credentials[c], o)
         THEN [credentials[c] EXCEPT !.revoked = TRUE] ELSE credentials[c]]
    /\ tokenIndex' = {c \in tokenIndex : ~Belongs(credentials[c], o)}
    /\ sessions' = {m \in sessions : links[m].owner # o}
    /\ UNCHANGED <<links, attempts, clock, calls>>

------------------------------------------------------------------------------
(* Tool calls: of agents through /mcp, of sessions through the admin API *)

\* verify_token
Verified(c) ==
    /\ c \in tokenIndex
    /\ ~credentials[c].revoked
    /\ clock < credentials[c].expires

\* A bearer token passes the authentication of the MCP server.
Admit(r, c, tool) ==
    /\ calls[r] = None
    /\ Verified(c)
    /\ calls' = [calls EXCEPT ![r] = [stage |-> "admitted", owner |-> credentials[c].owner,
                                      tool |-> tool, by |-> c]]
    /\ UNCHANGED <<cloud, account, clock, attempts>>

\* _call_cloud: the principal is rebuilt from the token, so the credential's
\* present state plays no part.  A missing scope, an expired token or the
\* tenant's rate limit end the call.
Authorize(r) ==
    LET k == calls[r] IN
    /\ k # None /\ k.stage = "admitted"
    /\ \/ /\ clock < credentials[k.by].expires
          /\ ScopeOf[k.tool] \in credentials[k.by].scopes
          /\ calls' = [calls EXCEPT ![r].stage = "allowed"]
       \/ calls' = [calls EXCEPT ![r] = None]
    /\ UNCHANGED <<cloud, account, clock, attempts>>

\* call() of the admin API, up to the task that reaches the service; one over
\* the rate limit changes nothing.
CallFromSession(r, l, tool) ==
    /\ calls[r] = None
    /\ Authenticated(l) /\ Unexpired(l)
    /\ calls' = [calls EXCEPT ![r] =
         [stage |-> "allowed", owner |-> links[l].owner, tool |-> tool, by |-> None]]
    /\ UNCHANGED <<cloud, account, clock, attempts>>

\* The service's method runs, or leaves the records there are: a search, a
\* replay, an error.  update() is checked in EncryptedMemory; it neither creates
\* nor removes a memory.
Execute(r) ==
    LET k == calls[r] IN
    /\ k # None /\ k.stage = "allowed"
    /\ \/ k.tool = "write" /\ \E key \in WriteKeys, c \in Contents : Write(k.owner, key, c)
       \/ k.tool = "forget" /\ \E i \in Ids : Forget(k.owner, i)
       \/ UNCHANGED cloud
    /\ calls' = [calls EXCEPT ![r] = None]
    /\ UNCHANGED <<account, clock, attempts>>

AccessNext ==
    \/ Tick
    \/ \E o \in Owners : RequestLink(o)
    \/ \E l \in Links :
         \/ Consume(l) \/ Logout(l) \/ DeleteAccount(l)
         \/ CreateCredential(l) \/ CreateConnection(l)
         \/ \E c \in Credentials : RevokeCredential(l, c)
         \/ \E n \in Connections : RevokeConnection(l, n)
    \/ \E r \in Calls :
         \/ \E c \in Credentials, tool \in Tools : Admit(r, c, tool)
         \/ \E l \in Links, tool \in Tools : CallFromSession(r, l, tool)
         \/ Authorize(r) \/ Execute(r)

AccessSpec == AccessInit /\ [][AccessNext]_access

------------------------------------------------------------------------------
(* Properties *)

Managed(o) == <<{<<c, credentials[c]>> : c \in {d \in Credentials : Belongs(credentials[d], o)}},
                {<<n, connections[n]>> : n \in {m \in Connections : Belongs(connections[m], o)}}>>

Memories(o) == {<<i, records[i]>> : i \in {j \in Ids : Owned(o, j)}}

Drained(o) == \A r \in Calls : ~Belongs(calls[r], o)

\* Once an account is deleted and its calls in flight have ended, nothing of it
\* changes any more: no link sent before or after the deletion, no credential
\* and no late call brings memories, credentials, connections or calls back
\* (delete_tenant, session, consume, verify_token, _call_cloud).
DeletedGoesQuiet ==
    [][\A o \in deleted : Drained(o) =>
         Drained(o)' /\ Managed(o)' = Managed(o) /\ Memories(o)' = Memories(o)]_access

\* Credentials and connections of a tenant change only while one of its own
\* sessions is open, whoever else is signed in (revoke_connection,
\* revoke_agent_credential, delete_tenant).
OnlyOwnerManages ==
    [][\A o \in Owners :
         (\A l \in Links : Authenticated(l) => links[l].owner # o) =>
             Managed(o)' = Managed(o)]_access

\* A session that was closed, by a logout or a deletion, is never open again:
\* its link is spent (consume, logout, delete_tenant).
ClosedStaysClosed ==
    [][\A l \in Links : links[l] # None /\ links[l].used /\ l \notin sessions =>
         l \notin sessions']_access

\* The links an address was sent in the window that ends at t
SentIn(o, t) ==
    {l \in Links : /\ Belongs(links[l], o)
                   /\ links[l].sent <= t /\ t < links[l].sent + LinkWindow}

\* In no window of time an address receives more links than the limit, although
\* only the attempts still in the window are remembered (request).
LinkQuota ==
    /\ AccessTypeOK
    /\ \A o \in Owners, t \in 0..MaxTime : Cardinality(SentIn(o, t)) <= LinkLimit

------------------------------------------------------------------------------
(* The inductive invariant behind the properties *)

\* A session was opened with its link, which is spent.
SessionsSpent == \A l \in sessions : links[l].used

\* No token of a deleted account is in the index.
TokensLive == \A c \in tokenIndex : credentials[c].owner \notin deleted

\* The attempts that are remembered are those of the address, and none that is
\* still in the window has been forgotten.
AttemptsKept ==
    /\ \A o \in Owners : \A l \in attempts[o] : Belongs(links[l], o)
    /\ \A o \in Owners : SentIn(o, clock) \subseteq attempts[o]
    /\ \A l \in Links : links[l] # None => links[l].sent <= clock

AccessInv ==
    /\ CloudInv
    /\ SessionsSpent
    /\ TokensLive
    /\ AttemptsKept
    /\ LinkQuota
==============================================================================
