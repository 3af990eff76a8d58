------------------------- MODULE AccountAccessProofs -------------------------
(***************************************************************************)
(* Sign-in, credentials and account deletion keep AccessInv, for any       *)
(* number of tenants, links, credentials and calls in flight and any       *)
(* limits: the link quota holds in every window, only the owner's sessions *)
(* manage an account, a closed session stays closed and a deleted account  *)
(* goes quiet.                                                             *)
(***************************************************************************)
EXTENDS AccountAccess, EncryptedMemoryProofs, FiniteSetTheorems

\* Nothing exists before the first request.
LEMMA AccessInitInv == AccessInit => AccessInv
  <1> SUFFICES ASSUME AccessInit PROVE AccessInv
    OBVIOUS
  <1>1. CloudInv
    BY CloudInitInv DEF AccessInit
  <1>2. AccessTypeOK
    BY AccessAssumption DEF AccessInit, AccessTypeOK
  <1>3. \A o, t : SentIn(o, t) = {}
    BY DEF AccessInit, SentIn, Belongs
  <1>4. Cardinality({}) = 0
    BY FS_EmptySet
  <1>5. LinkQuota
    <2>1. 0 <= LinkLimit
      BY AccessAssumption
    <2> QED BY <1>2, <1>3, <1>4, <2>1 DEF LinkQuota
  <1> QED
    BY <1>1, <1>3, <1>5
    DEF AccessInit, AccessInv, SessionsSpent, TokensLive, AttemptsKept

------------------------------------------------------------------------------
(* The link quota *)

\* The types the steps below rely on
LEMMA LinkTypes ==
  ASSUME AccessInv
  PROVE  /\ links \in [Links -> Link \cup {None}] /\ clock \in Nat
         /\ \A l \in Links : links[l] # None => links[l] \in Link /\ links[l].sent \in Nat
         /\ attempts \in [Owners -> SUBSET Links]
         /\ LinkWindow \in Nat \ {0} /\ LinkLimit \in Nat \ {0} /\ MaxTime \in Nat
  <1>1. AccessTypeOK
    BY DEF AccessInv, LinkQuota
  <1> QED BY <1>1, AccessAssumption DEF AccessTypeOK, Link

\* Links keep their address and their time, and time stands still.
LinksStay ==
    /\ \A l \in Links : /\ links'[l] # None <=> links[l] # None
                        /\ links[l] # None => /\ links'[l].owner = links[l].owner
                                              /\ links'[l].sent = links[l].sent
    /\ UNCHANGED <<attempts, clock>>

\* The quota part of the invariant
QuotaOK ==
    /\ AttemptsKept
    /\ \A o \in Owners, t \in 0..MaxTime : Cardinality(SentIn(o, t)) <= LinkLimit

LEMMA QuotaFrame ==
  ASSUME AccessInv, LinksStay
  PROVE  QuotaOK'
  <1>1. \A o, t : SentIn(o, t)' = SentIn(o, t)
    BY DEF LinksStay, SentIn, Belongs
  <1>2. AttemptsKept'
    <2>1. \A o \in Owners : \A l \in attempts[o] : (Belongs(links[l], o))'
      BY LinkTypes DEF AccessInv, AttemptsKept, LinksStay, Belongs
    <2>2. \A o \in Owners : SentIn(o, clock)' \subseteq attempts'[o]
      BY <1>1 DEF AccessInv, AttemptsKept, LinksStay, SentIn
    <2>3. \A l \in Links : links'[l] # None => links'[l].sent <= clock'
      BY DEF AccessInv, AttemptsKept, LinksStay
    <2> QED BY <2>1, <2>2, <2>3 DEF AttemptsKept, LinksStay
  <1> QED BY <1>1, <1>2 DEF QuotaOK, AccessInv, LinkQuota

\* Links leave the window as time passes; none enters it.
LEMMA QuotaTick ==
  ASSUME AccessInv, Tick
  PROVE  QuotaOK'
  <1>1. /\ clock' = clock + 1 /\ UNCHANGED <<links, attempts>>
    BY DEF Tick, account
  <1>2. \A o, t : SentIn(o, t)' = SentIn(o, t)
    BY <1>1 DEF SentIn, Belongs
  <1>3. \A o \in Owners : SentIn(o, clock + 1) \subseteq SentIn(o, clock)
    BY LinkTypes DEF SentIn, Belongs, AccessInv, AttemptsKept
  <1>4. AttemptsKept'
    <2>1. \A o \in Owners : \A l \in attempts'[o] : (Belongs(links[l], o))'
      BY <1>1 DEF AccessInv, AttemptsKept, Belongs
    <2>2. \A o \in Owners : SentIn(o, clock + 1) \subseteq attempts'[o]
      BY <1>1, <1>3 DEF AccessInv, AttemptsKept
    <2>3. \A o : SentIn(o, clock)' = SentIn(o, clock + 1)
      BY <1>1 DEF SentIn, Belongs
    <2>4. \A l \in Links : links'[l] # None => links'[l].sent <= clock'
      BY <1>1, LinkTypes DEF AccessInv, AttemptsKept
    <2> QED BY <1>1, <2>1, <2>2, <2>3, <2>4 DEF AttemptsKept
  <1> QED BY <1>2, <1>4 DEF QuotaOK, AccessInv, LinkQuota

\* What request() counts is what was sent in the window.
LEMMA RecentAreSent ==
  ASSUME AccessInv, NEW o \in Owners
  PROVE  RecentAttempts(o) = SentIn(o, clock) /\ IsFiniteSet(SentIn(o, clock))
  <1>1. RecentAttempts(o) = SentIn(o, clock)
    BY LinkTypes DEF RecentAttempts, SentIn, Belongs, AccessInv, AttemptsKept
  <1>2. SentIn(o, clock) \in SUBSET Links
    BY DEF SentIn
  <1> QED BY <1>1, <1>2, FS_Subset, AccessAssumption

\* A request sends a link, which enters every window from now on, only while the
\* present one has room.
LEMMA QuotaRequest ==
  ASSUME AccessInv, NEW o \in Owners, RequestLink(o)
  PROVE  QuotaOK'
  <1> DEFINE recent == SentIn(o, clock)
  <1>1. recent = RecentAttempts(o) /\ IsFiniteSet(recent) /\ recent \in SUBSET Links
    BY RecentAreSent DEF SentIn
  <1>2. clock' = clock
    BY DEF RequestLink
  <1>3. CASE UNCHANGED links /\ attempts' = [attempts EXCEPT ![o] = recent]
    <2>1. \A p, t : SentIn(p, t)' = SentIn(p, t)
      BY <1>3 DEF SentIn, Belongs
    <2>2. \A p \in Owners : SentIn(p, clock) \subseteq attempts'[p]
      BY <1>3, LinkTypes DEF AccessInv, AttemptsKept
    <2>3. \A p : SentIn(p, clock)' = SentIn(p, clock)
      BY <1>2, <1>3 DEF SentIn, Belongs
    <2>4. \A p \in Owners : \A l \in attempts'[p] : l \in attempts[p] \/ l \in SentIn(p, clock)
      BY <1>3, LinkTypes
    <2>5. \A p \in Owners : \A l \in attempts'[p] : (Belongs(links[l], p))'
      BY <1>3, <2>4 DEF AccessInv, AttemptsKept, Belongs, SentIn
    <2>6. AttemptsKept'
      BY <1>2, <1>3, <2>2, <2>3, <2>5 DEF AccessInv, AttemptsKept
    <2> QED BY <2>1, <2>6 DEF QuotaOK, AccessInv, LinkQuota
  <1>4. ASSUME NEW l \in Links, links[l] = None, Cardinality(recent) < LinkLimit,
               attempts' = [attempts EXCEPT ![o] = recent \cup {l}],
               links' = [links EXCEPT ![l] = [owner |-> o, sent |-> clock, used |-> FALSE]]
        PROVE  QuotaOK'
    <2> DEFINE new == [owner |-> o, sent |-> clock, used |-> FALSE]
    <2>1. /\ links'[l] = new /\ \A m \in Links \ {l} : links'[m] = links[m]
          /\ new \in Link /\ new # None /\ new.owner = o /\ new.sent = clock
      <3>1. new \in Link
        BY LinkTypes DEF Link
      <3>2. new # None
        BY <3>1, AccessAssumption
      <3> QED BY <1>4, <3>1, <3>2, LinkTypes
    <2> HIDE DEF new
    <2>2. \A p \in Owners, t \in Nat : p # o \/ t < clock => SentIn(p, t)' = SentIn(p, t)
      BY <1>4, <2>1, LinkTypes DEF SentIn, Belongs
    <2>3. \A t \in Nat : t >= clock => SentIn(o, t)' \subseteq recent \cup {l}
      BY <1>4, <2>1, LinkTypes DEF SentIn, Belongs, AccessInv, AttemptsKept
    <2>4. /\ IsFiniteSet(recent \cup {l}) /\ Cardinality(recent \cup {l}) <= LinkLimit
      <3>1. l \notin recent
        BY <1>4 DEF SentIn, Belongs
      <3>2. Cardinality(recent) \in Nat
        BY <1>1, FS_CardinalityType
      <3>3. /\ IsFiniteSet(recent \cup {l})
            /\ Cardinality(recent \cup {l}) = Cardinality(recent) + 1
        BY <1>1, <3>1, FS_AddElement
      <3> QED BY <1>4, <3>2, <3>3, LinkTypes
    <2>5. ASSUME NEW p \in Owners, NEW t \in 0..MaxTime
          PROVE  Cardinality(SentIn(p, t)') <= LinkLimit
      <3>0. t \in Nat
        OBVIOUS
      <3>1. CASE p # o \/ t < clock
        BY <2>2, <3>0, <3>1 DEF AccessInv, LinkQuota
      <3>2. CASE p = o /\ t >= clock
        <4>1. SentIn(p, t)' \in SUBSET (recent \cup {l})
          BY <2>3, <3>0, <3>2
        <4>2. /\ IsFiniteSet(SentIn(p, t)')
              /\ Cardinality(SentIn(p, t)') <= Cardinality(recent \cup {l})
          BY <2>4, <4>1, FS_Subset
        <4>3. Cardinality(SentIn(p, t)') \in Nat /\ Cardinality(recent \cup {l}) \in Nat
          BY <2>4, <4>2, FS_CardinalityType
        <4> QED BY <2>4, <4>2, <4>3, LinkTypes
      <3> QED BY <3>0, <3>1, <3>2, LinkTypes
    <2>6. \A p \in Owners : SentIn(p, clock)' \subseteq attempts'[p]
      <3> SUFFICES ASSUME NEW p \in Owners PROVE SentIn(p, clock)' \subseteq attempts'[p]
        OBVIOUS
      <3>1. CASE p # o
        <4>1. SentIn(p, clock)' \subseteq SentIn(p, clock)
          BY <1>2, <2>1, <3>1 DEF SentIn, Belongs
        <4>2. attempts'[p] = attempts[p]
          BY <1>4, <3>1, LinkTypes
        <4> QED BY <4>1, <4>2 DEF AccessInv, AttemptsKept
      <3>2. CASE p = o
        <4>1. SentIn(o, clock)' \subseteq recent \cup {l}
          BY <1>2, <1>4, <2>1, LinkTypes DEF SentIn, Belongs
        <4> QED BY <1>4, <3>2, <4>1, LinkTypes
      <3> QED BY <3>1, <3>2
    <2>7. \A p \in Owners : \A m \in attempts'[p] : (Belongs(links[m], p))'
      <3> SUFFICES ASSUME NEW p \in Owners, NEW m \in attempts'[p]
                   PROVE  (Belongs(links[m], p))'
        OBVIOUS
      <3>1. CASE m = l /\ p = o
        BY <2>1, <3>1 DEF Belongs
      <3>2. CASE ~(m = l /\ p = o)
        <4>1. m \in attempts[p] \/ m \in SentIn(p, clock)
          BY <1>4, <3>2, LinkTypes
        <4>2. m \in Links /\ Belongs(links[m], p)
          BY <4>1, LinkTypes DEF AccessInv, AttemptsKept, SentIn
        <4> QED BY <1>4, <2>1, <4>2 DEF Belongs
      <3> QED BY <3>1, <3>2
    <2>8. \A m \in Links : links'[m] # None => links'[m].sent <= clock'
      BY <1>2, <2>1, LinkTypes DEF AccessInv, AttemptsKept
    <2>9. AttemptsKept'
      BY <2>6, <2>7, <2>8 DEF AttemptsKept
    <2> QED BY <2>5, <2>9 DEF QuotaOK
  <1> QED BY <1>1, <1>3, <1>4 DEF RequestLink

------------------------------------------------------------------------------
(* Sessions, credentials and connections *)

\* The types the steps below rely on
LEMMA AccountTypes ==
  ASSUME AccessInv
  PROVE  /\ CloudInv /\ AccessTypeOK
         /\ \A l \in sessions : l \in Links /\ links[l] # None /\ links[l] \in Link
         /\ \A l \in Links : Authenticated(l) =>
              links[l] \in Link /\ links[l].owner \in Owners /\ links[l].owner \notin deleted
         /\ \A c \in Credentials : credentials[c] # None => credentials[c] \in Credential
         /\ \A n \in Connections : connections[n] # None => connections[n] \in Connection
         /\ \A r \in Calls : calls[r] # None => calls[r] \in Call
  <1>1. CloudInv /\ AccessTypeOK
    BY DEF AccessInv, LinkQuota
  <1>2. \A l \in sessions : l \in Links /\ links[l] # None /\ links[l] \in Link
    BY <1>1 DEF AccessTypeOK
  <1>3. \A l \in Links : Authenticated(l) =>
          links[l] \in Link /\ links[l].owner \in Owners /\ links[l].owner \notin deleted
    BY <1>2 DEF Authenticated, Link
  <1> QED BY <1>1, <1>2, <1>3 DEF AccessTypeOK

\* A revoked credential and a revoked connection keep their owner.
LEMMA RevokedItems ==
  /\ \A k \in Credential : LET j == [k EXCEPT !.revoked = TRUE]
                           IN j \in Credential /\ j.owner = k.owner /\ j # None
  /\ \A k \in Connection : LET j == [k EXCEPT !.status = "revoked"]
                           IN j \in Connection /\ j.owner = k.owner /\ j # None
  <1>1. ASSUME NEW k \in Credential
        PROVE  LET j == [k EXCEPT !.revoked = TRUE]
               IN j \in Credential /\ j.owner = k.owner
    BY DEF Credential
  <1>2. ASSUME NEW k \in Connection
        PROVE  LET j == [k EXCEPT !.status = "revoked"]
               IN j \in Connection /\ j.owner = k.owner
    BY DEF Connection
  <1> QED BY <1>1, <1>2, AccessAssumption

\* Items that change neither belong to the tenant before nor afterwards.
LEMMA ManagedFrame ==
  ASSUME NEW o,
         \A c \in Credentials : \/ credentials'[c] = credentials[c]
                                \/ /\ ~Belongs(credentials[c], o)
                                   /\ ~Belongs(credentials'[c], o),
         \A n \in Connections : \/ connections'[n] = connections[n]
                                \/ /\ ~Belongs(connections[n], o)
                                   /\ ~Belongs(connections'[n], o)
  PROVE  Managed(o)' = Managed(o)
  BY DEF Managed, Belongs

LEMMA MemoriesFrame ==
  ASSUME NEW o,
         \A i \in Ids : \/ records'[i] = records[i]
                        \/ ~Owned(o, i) /\ ~(records'[i] # None /\ records'[i].owner = o)
  PROVE  Memories(o)' = Memories(o)
  BY DEF Memories, Owned

\* What a session does to credentials and connections, when it is not the
\* deletion of its account
ManageStep(l) ==
    \/ CreateCredential(l) \/ CreateConnection(l)
    \/ \E c \in Credentials : RevokeCredential(l, c)
    \/ \E n \in Connections : RevokeConnection(l, n)

\* It touches one item of the session's owner, in the type of such an item.
LEMMA ManageItems ==
  ASSUME AccessInv, NEW l \in Links, ManageStep(l)
  PROVE  /\ Authenticated(l)
         /\ UNCHANGED <<cloud, links, sessions, attempts, deleted, clock, calls>>
         /\ credentials' \in [Credentials -> Credential \cup {None}]
         /\ connections' \in [Connections -> Connection \cup {None}]
         /\ \A c \in Credentials : credentials[c] # None =>
              credentials'[c] # None /\ credentials'[c].owner = credentials[c].owner
         /\ \A c \in Credentials :
              \/ credentials'[c] = credentials[c]
              \/ /\ credentials[c] # None => Belongs(credentials[c], links[l].owner)
                 /\ Belongs(credentials'[c], links[l].owner)
         /\ \A n \in Connections :
              \/ connections'[n] = connections[n]
              \/ /\ connections[n] # None => Belongs(connections[n], links[l].owner)
                 /\ Belongs(connections'[n], links[l].owner)
         /\ tokenIndex' \subseteq {c \in Credentials : credentials'[c] # None}
         /\ \A c \in tokenIndex' : c \in tokenIndex \/ Belongs(credentials'[c], links[l].owner)
  <1> USE DEF ManageStep
  <1>1. Authenticated(l) /\ UNCHANGED <<cloud, links, sessions, attempts, deleted, clock, calls>>
    BY DEF CreateCredential, CreateConnection, RevokeCredential, RevokeConnection
  <1>2. links[l] \in Link /\ links[l].owner \in Owners
    BY <1>1, AccountTypes
  <1>3. /\ credentials \in [Credentials -> Credential \cup {None}]
        /\ connections \in [Connections -> Connection \cup {None}]
        /\ tokenIndex \subseteq {c \in Credentials : credentials[c] # None}
        /\ clock \in Nat
    BY AccountTypes, AccessAssumption DEF AccessTypeOK
  <1>4. CASE CreateCredential(l)
    <2>1. PICK c \in Credentials, g \in Grants, ttl \in CredentialTtls :
            /\ credentials[c] = None
            /\ credentials' = [credentials EXCEPT ![c] = NewCredential(l, g, ttl)]
            /\ tokenIndex' = tokenIndex \cup {c} /\ UNCHANGED connections
      BY <1>4 DEF CreateCredential
    <2> DEFINE new == NewCredential(l, g, ttl)
    <2>2. new \in Credential /\ new.owner = links[l].owner
      BY <1>2, <1>3, AccessAssumption DEF NewCredential, Credential
    <2>3. new # None
      BY <2>2, AccessAssumption
    <2> HIDE DEF new
    <2>4. /\ credentials'[c] = new /\ \A d \in Credentials \ {c} : credentials'[d] = credentials[d]
          /\ credentials' \in [Credentials -> Credential \cup {None}]
      BY <1>3, <2>1, <2>2 DEF new
    <2>5. tokenIndex' \subseteq {d \in Credentials : credentials'[d] # None}
      BY <1>3, <2>1, <2>3, <2>4
    <2>6. \A d \in tokenIndex' : d \in tokenIndex \/ Belongs(credentials'[d], links[l].owner)
      BY <2>1, <2>2, <2>3, <2>4 DEF Belongs
    <2>7. \A d \in Credentials : credentials[d] # None => credentials'[d] = credentials[d]
      BY <2>1, <2>4
    <2>8. \A d \in Credentials :
            \/ credentials'[d] = credentials[d]
            \/ credentials[d] = None /\ Belongs(credentials'[d], links[l].owner)
      BY <2>1, <2>2, <2>3, <2>4 DEF Belongs
    <2> QED BY <1>1, <1>3, <2>1, <2>4, <2>5, <2>6, <2>7, <2>8
  <1>5. CASE CreateConnection(l)
    <2> DEFINE new == [owner |-> links[l].owner, status |-> "active"]
    <2>1. PICK n \in Connections :
            /\ connections[n] = None
            /\ connections' = [connections EXCEPT ![n] = new]
            /\ UNCHANGED <<credentials, tokenIndex>>
      BY <1>5 DEF CreateConnection
    <2>2. new \in Connection /\ new.owner = links[l].owner
      BY <1>2 DEF Connection
    <2>3. new # None
      BY <2>2, AccessAssumption
    <2> HIDE DEF new
    <2> QED BY <1>1, <1>3, <2>1, <2>2, <2>3 DEF Belongs
  <1>6. ASSUME NEW c \in Credentials, RevokeCredential(l, c)
        PROVE  credentials[c] \in Credential /\ credentials[c].owner = links[l].owner
               /\ credentials' = [credentials EXCEPT ![c] = [credentials[c] EXCEPT !.revoked = TRUE]]
               /\ UNCHANGED <<connections, tokenIndex>>
    BY <1>3, <1>6 DEF RevokeCredential, Manages
  <1>7. ASSUME NEW n \in Connections, RevokeConnection(l, n)
        PROVE  connections[n] \in Connection /\ connections[n].owner = links[l].owner
               /\ connections' = [connections EXCEPT ![n] = [connections[n] EXCEPT !.status = "revoked"]]
               /\ UNCHANGED <<credentials, tokenIndex>>
    BY <1>3, <1>7 DEF RevokeConnection, Manages
  <1>8. CASE \E c \in Credentials : RevokeCredential(l, c)
    <2>1. PICK c \in Credentials : RevokeCredential(l, c)
      BY <1>8
    <2> DEFINE new == [credentials[c] EXCEPT !.revoked = TRUE]
    <2>2. new \in Credential /\ new.owner = links[l].owner /\ new # None
      BY <1>6, <2>1, RevokedItems
    <2>3. credentials' = [credentials EXCEPT ![c] = new] /\ UNCHANGED <<connections, tokenIndex>>
          /\ credentials[c] \in Credential /\ credentials[c].owner = links[l].owner
      BY <1>6, <2>1
    <2> HIDE DEF new
    <2> QED BY <1>1, <1>3, <2>2, <2>3 DEF Belongs
  <1>9. CASE \E n \in Connections : RevokeConnection(l, n)
    <2>1. PICK n \in Connections : RevokeConnection(l, n)
      BY <1>9
    <2> DEFINE new == [connections[n] EXCEPT !.status = "revoked"]
    <2>2. new \in Connection /\ new.owner = links[l].owner /\ new # None
      BY <1>7, <2>1, RevokedItems
    <2>3. connections' = [connections EXCEPT ![n] = new] /\ UNCHANGED <<credentials, tokenIndex>>
          /\ connections[n] \in Connection /\ connections[n].owner = links[l].owner
      BY <1>7, <2>1
    <2> HIDE DEF new
    <2> QED BY <1>1, <1>3, <2>2, <2>3 DEF Belongs
  <1> QED BY <1>4, <1>5, <1>8, <1>9

------------------------------------------------------------------------------
(* What every step keeps: the invariant, and the three action properties *)

QuietStep ==
    \A o \in deleted : Drained(o) =>
        Drained(o)' /\ Managed(o)' = Managed(o) /\ Memories(o)' = Memories(o)

OwnerStep ==
    \A o \in Owners : (\A l \in Links : Authenticated(l) => links[l].owner # o) =>
        Managed(o)' = Managed(o)

ClosedStep ==
    \A l \in Links : links[l] # None /\ links[l].used /\ l \notin sessions => l \notin sessions'

StepOK == AccessInv' /\ QuietStep /\ OwnerStep /\ ClosedStep

\* The service and what belongs to a tenant stay as they are.
LEMMA NothingManaged ==
  ASSUME UNCHANGED <<credentials, connections>>
  PROVE  OwnerStep /\ \A o : Managed(o)' = Managed(o)
  BY DEF Managed, Belongs, OwnerStep

LEMMA CloudFrame ==
  ASSUME AccessInv, UNCHANGED cloud
  PROVE  CloudInv' /\ \A o : Memories(o)' = Memories(o)
  <1>1. CloudInv'
    BY CloudNextInv DEF AccessInv
  <1> QED BY <1>1 DEF Memories, Owned, cloud, stored

\* Time, requests for links, sign-in and logout
LEMMA SignInStep ==
  ASSUME AccessInv,
         \/ Tick \/ (\E o \in Owners : RequestLink(o))
         \/ \E l \in Links : Consume(l) \/ Logout(l)
         \/ UNCHANGED access
  PROVE  StepOK
  <1>1. UNCHANGED <<cloud, credentials, tokenIndex, connections, deleted, calls>>
    BY DEF Tick, RequestLink, Consume, Logout, access, account
  <1>2. CloudInv' /\ (\A o : Memories(o)' = Memories(o))
        /\ OwnerStep /\ (\A o : Managed(o)' = Managed(o))
    BY <1>1, CloudFrame, NothingManaged
  <1>3. QuietStep
    BY <1>1, <1>2 DEF QuietStep, Drained, Belongs
  <1>4. AccessTypeOK
    BY AccountTypes
  <1>5. /\ links' \in [Links -> Link \cup {None}] /\ clock' \in 0..MaxTime
        /\ sessions' \subseteq {l \in Links : links'[l] # None}
        /\ attempts' \in [Owners -> SUBSET Links]
        /\ SessionsSpent' /\ ClosedStep /\ QuotaOK'
    <2>1. CASE Tick
      <3>1. clock' \in 0..MaxTime
        BY <1>4, <2>1, AccessAssumption DEF Tick, AccessTypeOK
      <3> QED
        BY <1>4, <2>1, <3>1, QuotaTick
        DEF Tick, account, AccessTypeOK, AccessInv, SessionsSpent, ClosedStep
    <2>2. ASSUME NEW o \in Owners, RequestLink(o)
          PROVE  /\ links' \in [Links -> Link \cup {None}] /\ clock' \in 0..MaxTime
                 /\ sessions' \subseteq {l \in Links : links'[l] # None}
                 /\ attempts' \in [Owners -> SUBSET Links]
                 /\ SessionsSpent' /\ ClosedStep /\ QuotaOK'
      <3>1. UNCHANGED <<clock, sessions>>
        BY <2>2 DEF RequestLink
      <3>2. RecentAttempts(o) \subseteq Links
        BY <1>4 DEF RecentAttempts, AccessTypeOK
      <3>3. [owner |-> o, sent |-> clock, used |-> FALSE] \in Link
        BY LinkTypes DEF Link
      <3>4. links' \in [Links -> Link \cup {None}] /\ attempts' \in [Owners -> SUBSET Links]
        <4> DEFINE new == [owner |-> o, sent |-> clock, used |-> FALSE]
        <4>1. links' = links \/ \E l \in Links : links' = [links EXCEPT ![l] = new]
          BY <2>2 DEF RequestLink
        <4>2. PICK kept \in SUBSET Links : attempts' = [attempts EXCEPT ![o] = kept]
          BY <2>2, <3>2 DEF RequestLink
        <4>3. new \in Link
          BY <3>3
        <4> HIDE DEF new
        <4> QED BY <4>1, <4>2, <4>3, LinkTypes
      <3>5. \A l \in Links : links[l] # None => links'[l] = links[l]
        BY <1>4, <2>2 DEF RequestLink, AccessTypeOK
      <3>6. sessions \subseteq {l \in Links : links[l] # None}
        BY <1>4 DEF AccessTypeOK
      <3>7. SessionsSpent' /\ sessions' \subseteq {l \in Links : links'[l] # None}
        BY <3>1, <3>5, <3>6 DEF AccessInv, SessionsSpent
      <3>8. ClosedStep /\ QuotaOK' /\ clock' \in 0..MaxTime
        BY <1>4, <2>2, <3>1, QuotaRequest DEF ClosedStep, AccessTypeOK
      <3> QED BY <3>4, <3>7, <3>8
    <2>3. ASSUME NEW l \in Links, Consume(l)
          PROVE  /\ links' \in [Links -> Link \cup {None}] /\ clock' \in 0..MaxTime
                 /\ sessions' \subseteq {m \in Links : links'[m] # None}
                 /\ attempts' \in [Owners -> SUBSET Links]
                 /\ SessionsSpent' /\ ClosedStep /\ QuotaOK'
      <3> DEFINE new == [links[l] EXCEPT !.used = TRUE]
      <3>1. /\ UNCHANGED <<clock, attempts>> /\ sessions' = sessions \cup {l}
            /\ links' = [links EXCEPT ![l] = new]
            /\ links[l] # None /\ ~links[l].used /\ links[l] \in Link
        BY <2>3, LinkTypes DEF Consume, Consumable
      <3>2. /\ new \in Link /\ new.owner = links[l].owner /\ new.sent = links[l].sent /\ new.used
        BY <3>1 DEF Link
      <3>3. new # None
        BY <3>2, AccessAssumption
      <3> HIDE DEF new
      <3>4. /\ links'[l] = new /\ \A m \in Links \ {l} : links'[m] = links[m]
            /\ links' \in [Links -> Link \cup {None}]
        BY <3>1, <3>2, LinkTypes
      <3>5. LinksStay
        BY <3>1, <3>2, <3>3, <3>4 DEF LinksStay
      <3>6. /\ SessionsSpent' /\ ClosedStep
            /\ sessions' \subseteq {m \in Links : links'[m] # None}
        BY <1>4, <3>1, <3>2, <3>3, <3>4 DEF AccessTypeOK, AccessInv, SessionsSpent, ClosedStep
      <3> QED BY <1>4, <3>1, <3>4, <3>5, <3>6, QuotaFrame DEF AccessTypeOK
    <2>4. CASE (\E l \in Links : Logout(l)) \/ UNCHANGED access
      <3>1. UNCHANGED <<links, attempts, clock>> /\ sessions' \subseteq sessions
        BY <2>4 DEF Logout, access, account
      <3>2. LinksStay
        BY <3>1 DEF LinksStay
      <3> QED
        BY <1>4, <3>1, <3>2, QuotaFrame DEF AccessTypeOK, AccessInv, SessionsSpent, ClosedStep
    <2> QED BY <2>1, <2>2, <2>3, <2>4
  <1>6. AccessTypeOK'
    BY <1>1, <1>4, <1>5 DEF AccessTypeOK
  <1>7. TokensLive'
    BY <1>1 DEF AccessInv, TokensLive
  <1>8. AccessInv'
    BY <1>2, <1>5, <1>6, <1>7 DEF AccessInv, LinkQuota, QuotaOK
  <1> QED BY <1>2, <1>3, <1>5, <1>8 DEF StepOK

\* Creating and revoking credentials and connections
LEMMA ManageStepOK ==
  ASSUME AccessInv, NEW l \in Links, ManageStep(l)
  PROVE  StepOK
  <1> DEFINE p == links[l].owner
  <1>1. /\ Authenticated(l) /\ p \in Owners /\ p \notin deleted
        /\ UNCHANGED <<cloud, links, sessions, attempts, deleted, clock, calls>>
    BY ManageItems, AccountTypes
  <1>2. CloudInv' /\ \A o : Memories(o)' = Memories(o)
    BY <1>1, CloudFrame
  <1>3. \A o \in Owners : o # p => Managed(o)' = Managed(o)
    <2> SUFFICES ASSUME NEW o \in Owners, o # p PROVE Managed(o)' = Managed(o)
      OBVIOUS
    <2>1. \A c \in Credentials : \/ credentials'[c] = credentials[c]
                                 \/ /\ ~Belongs(credentials[c], o)
                                    /\ ~Belongs(credentials'[c], o)
      BY ManageItems DEF Belongs
    <2>2. \A n \in Connections : \/ connections'[n] = connections[n]
                                 \/ /\ ~Belongs(connections[n], o)
                                    /\ ~Belongs(connections'[n], o)
      BY ManageItems DEF Belongs
    <2> QED BY <2>1, <2>2, ManagedFrame
  <1>4. QuietStep
    <2>1. deleted \subseteq Owners
      BY AccountTypes DEF AccessTypeOK
    <2> QED BY <1>1, <1>2, <1>3, <2>1 DEF QuietStep, Drained, Belongs
  <1>5. OwnerStep
    BY <1>1, <1>3 DEF OwnerStep
  <1>6. ClosedStep /\ SessionsSpent'
    BY <1>1 DEF ClosedStep, AccessInv, SessionsSpent
  <1>7. QuotaOK'
    <2>1. LinksStay
      BY <1>1 DEF LinksStay
    <2> QED BY <2>1, QuotaFrame
  <1>8. AccessTypeOK'
    BY <1>1, AccountTypes, ManageItems DEF AccessTypeOK
  <1>9. TokensLive'
    <2> SUFFICES ASSUME NEW c \in tokenIndex' PROVE credentials'[c].owner \notin deleted
      BY <1>1 DEF TokensLive
    <2>1. CASE c \in tokenIndex
      <3>1. c \in Credentials /\ credentials[c] # None
        BY <2>1, AccountTypes DEF AccessTypeOK
      <3> QED BY <2>1, <3>1, ManageItems DEF AccessInv, TokensLive
    <2>2. CASE Belongs(credentials'[c], p)
      BY <1>1, <2>2 DEF Belongs
    <2> QED BY <2>1, <2>2, ManageItems
  <1>10. AccessInv'
    BY <1>2, <1>6, <1>7, <1>8, <1>9 DEF AccessInv, LinkQuota, QuotaOK
  <1> QED BY <1>4, <1>5, <1>6, <1>10 DEF StepOK

\* The deletion of an account takes its memories, credentials, connections and
\* sessions, and nothing of anybody else.
LEMMA DeleteStepOK ==
  ASSUME AccessInv, NEW l \in Links, DeleteAccount(l)
  PROVE  StepOK
  <1>0. PICK p \in Owners : p = links[l].owner /\ p \notin deleted
    BY AccountTypes DEF DeleteAccount
  <1>1. /\ Authenticated(l) /\ DeleteOwner(p) /\ deleted' = deleted \cup {p}
        /\ connections' = [n \in Connections |-> IF Belongs(connections[n], p)
             THEN [connections[n] EXCEPT !.status = "revoked"] ELSE connections[n]]
        /\ credentials' = [c \in Credentials |-> IF Belongs(credentials[c], p)
             THEN [credentials[c] EXCEPT !.revoked = TRUE] ELSE credentials[c]]
        /\ tokenIndex' = {c \in tokenIndex : ~Belongs(credentials[c], p)}
        /\ sessions' = {m \in sessions : links[m].owner # p}
        /\ UNCHANGED <<links, attempts, clock, calls>>
    BY <1>0 DEF DeleteAccount
  <1>2. CloudInv'
    BY <1>1, DeleteOwnerInv DEF AccessInv
  <1>3. /\ credentials \in [Credentials -> Credential \cup {None}]
        /\ connections \in [Connections -> Connection \cup {None}]
        /\ tokenIndex \subseteq {c \in Credentials : credentials[c] # None}
        /\ deleted \subseteq Owners
    BY AccountTypes DEF AccessTypeOK
  <1>4. \A c \in Credentials :
          /\ credentials'[c] \in Credential \cup {None}
          /\ credentials[c] # None =>
               credentials'[c] # None /\ credentials'[c].owner = credentials[c].owner
          /\ \/ credentials'[c] = credentials[c]
             \/ Belongs(credentials[c], p) /\ Belongs(credentials'[c], p)
    <2> SUFFICES ASSUME NEW c \in Credentials
                 PROVE  /\ credentials'[c] \in Credential \cup {None}
                        /\ credentials[c] # None =>
                             credentials'[c] # None /\ credentials'[c].owner = credentials[c].owner
                        /\ \/ credentials'[c] = credentials[c]
                           \/ Belongs(credentials[c], p) /\ Belongs(credentials'[c], p)
      OBVIOUS
    <2>1. CASE ~Belongs(credentials[c], p)
      BY <1>1, <1>3, <2>1
    <2>2. CASE Belongs(credentials[c], p)
      <3> DEFINE new == [credentials[c] EXCEPT !.revoked = TRUE]
      <3>1. credentials[c] \in Credential
        BY <1>3, <2>2 DEF Belongs
      <3>2. new \in Credential /\ new.owner = credentials[c].owner /\ new # None
        BY <3>1, RevokedItems
      <3>3. credentials'[c] = new
        BY <1>1, <2>2
      <3> HIDE DEF new
      <3> QED BY <2>2, <3>2, <3>3 DEF Belongs
    <2> QED BY <2>1, <2>2
  <1>5. \A n \in Connections :
          /\ connections'[n] \in Connection \cup {None}
          /\ \/ connections'[n] = connections[n]
             \/ Belongs(connections[n], p) /\ Belongs(connections'[n], p)
    <2> SUFFICES ASSUME NEW n \in Connections
                 PROVE  /\ connections'[n] \in Connection \cup {None}
                        /\ \/ connections'[n] = connections[n]
                           \/ Belongs(connections[n], p) /\ Belongs(connections'[n], p)
      OBVIOUS
    <2>1. CASE ~Belongs(connections[n], p)
      BY <1>1, <1>3, <2>1
    <2>2. CASE Belongs(connections[n], p)
      <3> DEFINE new == [connections[n] EXCEPT !.status = "revoked"]
      <3>1. connections[n] \in Connection
        BY <1>3, <2>2 DEF Belongs
      <3>2. new \in Connection /\ new.owner = connections[n].owner /\ new # None
        BY <3>1, RevokedItems
      <3>3. connections'[n] = new
        BY <1>1, <2>2
      <3> HIDE DEF new
      <3> QED BY <2>2, <3>2, <3>3 DEF Belongs
    <2> QED BY <2>1, <2>2
  <1>6. /\ credentials' \in [Credentials -> Credential \cup {None}]
        /\ connections' \in [Connections -> Connection \cup {None}]
    <2>1. /\ credentials' = [c \in Credentials |-> credentials'[c]]
          /\ connections' = [n \in Connections |-> connections'[n]]
      BY <1>1
    <2> QED BY <1>4, <1>5, <2>1
  <1>7. \A o \in Owners : o # p => Managed(o)' = Managed(o) /\ Memories(o)' = Memories(o)
    <2> SUFFICES ASSUME NEW o \in Owners, o # p
                 PROVE  Managed(o)' = Managed(o) /\ Memories(o)' = Memories(o)
      OBVIOUS
    <2>1. \A c \in Credentials : \/ credentials'[c] = credentials[c]
                                 \/ /\ ~Belongs(credentials[c], o)
                                    /\ ~Belongs(credentials'[c], o)
      BY <1>4 DEF Belongs
    <2>2. \A n \in Connections : \/ connections'[n] = connections[n]
                                 \/ /\ ~Belongs(connections[n], o)
                                    /\ ~Belongs(connections'[n], o)
      BY <1>5 DEF Belongs
    <2>3. \A i \in Ids : \/ records'[i] = records[i]
                         \/ ~Owned(o, i) /\ ~(records'[i] # None /\ records'[i].owner = o)
      BY <1>1 DEF DeleteOwner, Owned
    <2> QED BY <2>1, <2>2, <2>3, ManagedFrame, MemoriesFrame
  <1>8. QuietStep
    BY <1>0, <1>1, <1>3, <1>7 DEF QuietStep, Drained, Belongs
  <1>9. OwnerStep
    BY <1>0, <1>1, <1>7 DEF OwnerStep
  <1>10. ClosedStep /\ SessionsSpent'
    BY <1>1 DEF ClosedStep, AccessInv, SessionsSpent
  <1>11. QuotaOK'
    <2>1. LinksStay
      BY <1>1 DEF LinksStay
    <2> QED BY <2>1, QuotaFrame
  <1>12. tokenIndex' \subseteq {c \in Credentials : credentials'[c] # None}
    BY <1>1, <1>3, <1>4
  <1>13. AccessTypeOK'
    <2>1. AccessTypeOK
      BY AccountTypes
    <2> QED BY <1>1, <1>6, <1>12, <2>1 DEF AccessTypeOK
  <1>14. TokensLive'
    <2> SUFFICES ASSUME NEW c \in tokenIndex'
                 PROVE  credentials'[c].owner \notin deleted \cup {p}
      BY <1>1 DEF TokensLive
    <2>1. c \in tokenIndex /\ c \in Credentials /\ credentials[c] # None
          /\ credentials[c].owner # p
      BY <1>1, <1>3 DEF Belongs
    <2> QED BY <1>4, <2>1 DEF AccessInv, TokensLive
  <1>15. AccessInv'
    BY <1>2, <1>10, <1>11, <1>13, <1>14 DEF AccessInv, LinkQuota, QuotaOK
  <1> QED BY <1>8, <1>9, <1>10, <1>15 DEF StepOK

------------------------------------------------------------------------------
(* Tool calls *)

\* A call is begun only for an account that exists, and one in flight keeps its
\* owner; executed, it reaches the memories of that owner only.
LEMMA CallMoves ==
  ASSUME AccessInv, NEW r \in Calls,
         \/ \E c \in Credentials, tool \in Tools : Admit(r, c, tool)
         \/ \E l \in Links, tool \in Tools : CallFromSession(r, l, tool)
         \/ Authorize(r) \/ Execute(r)
  PROVE  /\ UNCHANGED <<account, clock, attempts>>
         /\ calls' \in [Calls -> Call \cup {None}]
         /\ \A s \in Calls \ {r} : calls'[s] = calls[s]
         /\ calls'[r] # None =>
              \/ calls'[r].owner \notin deleted
              \/ calls[r] # None /\ calls'[r].owner = calls[r].owner
         /\ cloud' = cloud \/ Execute(r)
  <1>1. /\ calls \in [Calls -> Call \cup {None}] /\ AccessTypeOK
    BY AccountTypes DEF AccessTypeOK
  <1>2. ASSUME NEW c \in Credentials, NEW tool \in Tools, Admit(r, c, tool)
        PROVE  /\ UNCHANGED <<account, clock, attempts, cloud>>
               /\ \E k \in Call : k.owner \notin deleted /\ calls' = [calls EXCEPT ![r] = k]
    <2> DEFINE new == [stage |-> "admitted", owner |-> credentials[c].owner,
                       tool |-> tool, by |-> c]
    <2>1. c \in tokenIndex /\ credentials[c] \in Credential
      BY <1>1, <1>2, AccountTypes DEF Admit, Verified, AccessTypeOK
    <2>2. new \in Call /\ new.owner = credentials[c].owner
      BY <2>1 DEF Call, Credential
    <2>3. new.owner \notin deleted
      BY <2>1, <2>2 DEF AccessInv, TokensLive
    <2>4. calls' = [calls EXCEPT ![r] = new] /\ UNCHANGED <<account, clock, attempts, cloud>>
      BY <1>2 DEF Admit
    <2> HIDE DEF new
    <2> QED BY <2>2, <2>3, <2>4
  <1>3. ASSUME NEW l \in Links, NEW tool \in Tools, CallFromSession(r, l, tool)
        PROVE  /\ UNCHANGED <<account, clock, attempts, cloud>>
               /\ \E k \in Call : k.owner \notin deleted /\ calls' = [calls EXCEPT ![r] = k]
    <2> DEFINE new == [stage |-> "allowed", owner |-> links[l].owner,
                       tool |-> tool, by |-> None]
    <2>1. links[l].owner \in Owners /\ links[l].owner \notin deleted
      BY <1>3, AccountTypes DEF CallFromSession
    <2>2. new \in Call /\ new.owner = links[l].owner
      BY <2>1 DEF Call
    <2>3. calls' = [calls EXCEPT ![r] = new] /\ UNCHANGED <<account, clock, attempts, cloud>>
      BY <1>3 DEF CallFromSession
    <2> HIDE DEF new
    <2> QED BY <2>1, <2>2, <2>3
  <1>4. CASE Authorize(r)
    <2> DEFINE new == [calls[r] EXCEPT !.stage = "allowed"]
    <2>1. /\ calls[r] # None /\ calls[r] \in Call
          /\ calls' = [calls EXCEPT ![r] = new] \/ calls' = [calls EXCEPT ![r] = None]
          /\ UNCHANGED <<account, clock, attempts, cloud>>
      BY <1>1, <1>4 DEF Authorize
    <2>2. new \in Call /\ new.owner = calls[r].owner
      BY <2>1 DEF Call
    <2> HIDE DEF new
    <2> QED BY <1>1, <2>1, <2>2
  <1>5. CASE Execute(r)
    BY <1>1, <1>5 DEF Execute
  <1> QED BY <1>1, <1>2, <1>3, <1>4, <1>5

LEMMA ExecuteCloud ==
  ASSUME AccessInv, NEW r \in Calls, Execute(r)
  PROVE  CloudInv' /\ \A o : Drained(o) => Memories(o)' = Memories(o)
  <1>1. PICK k \in Call : k = calls[r] /\ k # None /\ k.owner \in Owners
    BY AccountTypes DEF Execute, Call
  <1>2. records \in [Ids -> Record \cup {None}]
    BY DEF AccessInv, CloudInv, CloudTypeOK
  <1>3. ASSUME NEW o, Drained(o) PROVE k.owner # o
    BY <1>1, <1>3 DEF Drained, Belongs
  <1>4. ASSUME NEW key \in WriteKeys, NEW c \in Contents, Write(k.owner, key, c)
        PROVE  CloudInv' /\ \A o : Drained(o) => Memories(o)' = Memories(o)
    <2>1. CloudInv'
      BY <1>1, <1>4, WriteInv DEF AccessInv
    <2>2. PICK i \in Ids \ issued : records' = [records EXCEPT ![i] =
              [owner |-> k.owner, content |-> c, state |-> "active", version |-> 1,
               contentKey |-> keyVersion, provenanceKey |-> keyVersion]]
      BY <1>4 DEF Write
    <2>3. /\ records[i] = None /\ records'[i].owner = k.owner
          /\ \A j \in Ids \ {i} : records'[j] = records[j]
      BY <1>2, <2>2 DEF AccessInv, CloudInv, IssuedOnly
    <2>4. ASSUME NEW o, Drained(o) PROVE Memories(o)' = Memories(o)
      <3>1. \A j \in Ids : \/ records'[j] = records[j]
                           \/ ~Owned(o, j) /\ ~(records'[j] # None /\ records'[j].owner = o)
        BY <1>3, <2>3, <2>4 DEF Owned
      <3> QED BY <3>1, MemoriesFrame
    <2> QED BY <2>1, <2>4
  <1>5. ASSUME NEW i \in Ids, Forget(k.owner, i)
        PROVE  CloudInv' /\ \A o : Drained(o) => Memories(o)' = Memories(o)
    <2>1. CloudInv'
      BY <1>1, <1>5, ForgetInv DEF AccessInv
    <2>2. ASSUME NEW o, Drained(o) PROVE Memories(o)' = Memories(o)
      <3>1. \A j \in Ids : \/ records'[j] = records[j]
                           \/ ~Owned(o, j) /\ ~(records'[j] # None /\ records'[j].owner = o)
        BY <1>2, <1>3, <1>5, <2>2 DEF Forget, stored, Owned
      <3> QED BY <3>1, MemoriesFrame
    <2> QED BY <2>1, <2>2
  <1>6. CASE UNCHANGED cloud
    BY <1>6, CloudFrame
  <1> QED BY <1>1, <1>4, <1>5, <1>6 DEF Execute

LEMMA CallStepOK ==
  ASSUME AccessInv, NEW r \in Calls,
         \/ \E c \in Credentials, tool \in Tools : Admit(r, c, tool)
         \/ \E l \in Links, tool \in Tools : CallFromSession(r, l, tool)
         \/ Authorize(r) \/ Execute(r)
  PROVE  StepOK
  <1>1. /\ UNCHANGED <<account, clock, attempts>>
        /\ calls' \in [Calls -> Call \cup {None}]
        /\ \A s \in Calls \ {r} : calls'[s] = calls[s]
        /\ calls'[r] # None =>
             \/ calls'[r].owner \notin deleted
             \/ calls[r] # None /\ calls'[r].owner = calls[r].owner
        /\ cloud' = cloud \/ Execute(r)
    BY CallMoves
  <1>2. UNCHANGED <<links, sessions, credentials, tokenIndex, connections, deleted>>
    BY <1>1 DEF account
  <1>3. CloudInv' /\ \A o : Drained(o) => Memories(o)' = Memories(o)
    BY <1>1, CloudFrame, ExecuteCloud
  <1>4. OwnerStep /\ \A o : Managed(o)' = Managed(o)
    BY <1>2, NothingManaged
  <1>5. ASSUME NEW o \in deleted, Drained(o) PROVE Drained(o)'
    BY <1>1, <1>5 DEF Drained, Belongs
  <1>6. QuietStep
    BY <1>3, <1>4, <1>5 DEF QuietStep
  <1>7. ClosedStep /\ SessionsSpent' /\ TokensLive'
    BY <1>2 DEF ClosedStep, AccessInv, SessionsSpent, TokensLive
  <1>8. QuotaOK'
    <2>1. LinksStay
      BY <1>1, <1>2 DEF LinksStay
    <2> QED BY <2>1, QuotaFrame
  <1>9. AccessTypeOK'
    <2>1. AccessTypeOK
      BY AccountTypes
    <2> QED BY <1>1, <1>2, <2>1 DEF AccessTypeOK
  <1>10. AccessInv'
    BY <1>3, <1>7, <1>8, <1>9 DEF AccessInv, LinkQuota, QuotaOK
  <1> QED BY <1>4, <1>6, <1>7, <1>10 DEF StepOK

------------------------------------------------------------------------------
(* The results *)

LEMMA AccessStep == AccessInv /\ [AccessNext]_access => StepOK
  <1> SUFFICES ASSUME AccessInv, [AccessNext]_access PROVE StepOK
    OBVIOUS
  <1>1. CASE \/ Tick \/ (\E o \in Owners : RequestLink(o))
             \/ \E l \in Links : Consume(l) \/ Logout(l)
             \/ UNCHANGED access
    BY <1>1, SignInStep
  <1>2. CASE \E l \in Links : ManageStep(l)
    BY <1>2, ManageStepOK
  <1>3. CASE \E l \in Links : DeleteAccount(l)
    BY <1>3, DeleteStepOK
  <1>4. CASE \E r \in Calls :
               \/ \E c \in Credentials, tool \in Tools : Admit(r, c, tool)
               \/ \E l \in Links, tool \in Tools : CallFromSession(r, l, tool)
               \/ Authorize(r) \/ Execute(r)
    BY <1>4, CallStepOK
  <1> QED BY <1>1, <1>2, <1>3, <1>4 DEF AccessNext, ManageStep

\* The invariant holds in every reachable state of the account service.
THEOREM AccessInvariant == AccessSpec => []AccessInv
  <1>1. AccessInv /\ [AccessNext]_access => AccessInv'
    BY AccessStep DEF StepOK
  <1> QED BY <1>1, AccessInitInv, PTL DEF AccessSpec

\* No address is sent more links in a window than the limit, for every limit and
\* every length of the window.
THEOREM QuotaHolds == AccessSpec => []LinkQuota
  <1>1. AccessInv => LinkQuota
    BY DEF AccessInv
  <1> QED BY <1>1, AccessInvariant, PTL

\* A deleted account whose calls have ended never changes again.
THEOREM DeletionIsQuiet == AccessSpec => DeletedGoesQuiet
  <1>1. AccessInv /\ [AccessNext]_access =>
          [\A o \in deleted : Drained(o) =>
             Drained(o)' /\ Managed(o)' = Managed(o) /\ Memories(o)' = Memories(o)]_access
    BY AccessStep DEF StepOK, QuietStep
  <1> QED BY <1>1, AccessInvariant, PTL DEF AccessSpec, DeletedGoesQuiet

\* Only a session of the tenant changes its credentials and connections.
THEOREM OwnersManage == AccessSpec => OnlyOwnerManages
  <1>1. AccessInv /\ [AccessNext]_access =>
          [\A o \in Owners :
             (\A l \in Links : Authenticated(l) => links[l].owner # o) =>
                 Managed(o)' = Managed(o)]_access
    BY AccessStep DEF StepOK, OwnerStep
  <1> QED BY <1>1, AccessInvariant, PTL DEF AccessSpec, OnlyOwnerManages

\* No step opens a session again that a logout or a deletion closed.
THEOREM SessionsStayClosed == AccessSpec => ClosedStaysClosed
  <1>1. AccessInv /\ [AccessNext]_access =>
          [\A l \in Links : links[l] # None /\ links[l].used /\ l \notin sessions =>
             l \notin sessions']_access
    BY AccessStep DEF StepOK, ClosedStep
  <1> QED BY <1>1, AccessInvariant, PTL DEF AccessSpec, ClosedStaysClosed
==============================================================================
