--------------------------- MODULE EncryptedMemory ---------------------------
(***************************************************************************)
(* EncryptedCloudMemoryService of omp.cloud: the in-process store of the   *)
(* local Cloud composition, with backups, tombstones, embeddings and key   *)
(* rotation.                                                               *)
(*                                                                         *)
(* Every method is synchronous and runs to its end in the event loop, so   *)
(* each is one action.  Records are encrypted field by field; what a       *)
(* ciphertext keeps here is its plaintext and the key version it is bound  *)
(* to.  A failing key service raises before the method stores anything, or *)
(* when it reads its answer back, after it has stored everything.          *)
(***************************************************************************)
EXTENDS Naturals, FiniteSets

CONSTANTS
    Owners, Ids, Contents,
    WriteKeys,        \* idempotency keys of write
    MaxVersion,       \* bound: versions of a record
    MaxKeyVersion,    \* bound: key versions an operator rotates to
    MaxBackups,       \* bound: backups an operator keeps
    None

Record == [owner : Owners, content : Contents, state : {"active", "archived"},
           version : Nat \ {0},
           contentKey : Nat \ {0}, provenanceKey : Nat \ {0}]

\* An entry of _embeddings.  "content" is what was embedded: the vector.
Embedding == [owner : Owners, version : Nat \ {0}, content : Contents]

\* The result of backup()
Backup == [records : [Ids -> Record \cup {None}], ledger : SUBSET (Owners \X Ids)]

ASSUME CloudAssumption ==
    /\ MaxVersion \in Nat /\ MaxKeyVersion \in Nat /\ MaxBackups \in Nat
    /\ None \notin Record /\ None \notin Embedding /\ None \notin Ids

VARIABLES
    records, writeKeys, forgetKeys, tombstones, embeddings, keyVersion,
    backups,     \* the snapshots the operator keeps
    issued,      \* identifiers uuid4() has returned
    retired      \* history: key versions past the first that services replaced by
                 \* a new one had reached

stored == <<records, embeddings>>
cloud  == <<stored, writeKeys, forgetKeys, tombstones, keyVersion, backups, issued, retired>>

CloudTypeOK ==
    /\ records \in [Ids -> Record \cup {None}]
    /\ writeKeys \in [Owners \X WriteKeys -> Ids \cup {None}]
    /\ forgetKeys \subseteq Owners \X Ids
    /\ tombstones \subseteq Owners \X Ids
    /\ embeddings \in [Ids -> Embedding \cup {None}]
    /\ keyVersion \in Nat \ {0}
    /\ backups \subseteq Backup
    /\ issued \subseteq Ids
    /\ retired \subseteq Nat

CloudInit ==
    /\ records = [i \in Ids |-> None]
    /\ writeKeys = [k \in Owners \X WriteKeys |-> None]
    /\ forgetKeys = {}
    /\ tombstones = {}
    /\ embeddings = [i \in Ids |-> None]
    /\ keyVersion = 1
    /\ backups = {}
    /\ issued = {}
    /\ retired = {}

\* The record and owner checks of get, update, forget and store_embedding
Owned(o, i) == records[i] # None /\ records[i].owner = o

------------------------------------------------------------------------------
\* write().  A known key returns its record, or fails when the record is gone:
\* either way nothing changes.
Write(o, k, c) ==
    /\ writeKeys[<<o, k>>] = None
    /\ \E i \in Ids \ issued :
         /\ records' = [records EXCEPT ![i] =
              [owner |-> o, content |-> c, state |-> "active", version |-> 1,
               contentKey |-> keyVersion, provenanceKey |-> keyVersion]]
         /\ writeKeys' = [writeKeys EXCEPT ![<<o, k>>] = i]
         /\ issued' = issued \cup {i}
    /\ UNCHANGED <<embeddings, forgetKeys, tombstones, keyVersion, backups, retired>>

\* update() drops the vector of the version it replaces.
AfterUpdate(i) == [embeddings EXCEPT ![i] = None]

\* A patch names a content, a state or both; a new content is encrypted under
\* the current key version.
Patches == [content : Contents \cup {None}, state : {"active", "archived", None}]

\* Mutant: a field the patch leaves out is overwritten.
Patched_Unset(r, patch) ==
    [owner   |-> r.owner,
     content |-> patch.content,
     state   |-> patch.state,
     version |-> r.version + 1,
     contentKey    |-> keyVersion,
     provenanceKey |-> r.provenanceKey]

\* The record update() stores
Patched(r, patch) ==
    [owner   |-> r.owner,
     content |-> IF patch.content = None THEN r.content ELSE patch.content,
     state   |-> IF patch.state = None THEN r.state ELSE patch.state,
     version |-> r.version + 1,
     contentKey    |-> IF patch.content = None THEN r.contentKey ELSE keyVersion,
     provenanceKey |-> r.provenanceKey]

\* update(); the bound on versions is the model's.
Update(o, i, ev, patch) ==
    /\ Owned(o, i) /\ records[i].version = ev /\ ev < MaxVersion
    /\ records' = [records EXCEPT ![i] = Patched(@, patch)]
    /\ embeddings' = AfterUpdate(i)
    /\ UNCHANGED <<writeKeys, forgetKeys, tombstones, keyVersion, backups, issued, retired>>

\* Mutant: the vector is stored for whatever the record is now.
StillCurrent_AnyVersion(o, i, v) == Owned(o, i) /\ records[i].state = "active"

\* The conditional check of store_embedding()
StillCurrent(o, i, v) == Owned(o, i) /\ records[i].state = "active" /\ records[i].version = v

StoreEmbedding(o, i, v, c) ==
    /\ StillCurrent(o, i, v)
    /\ embeddings' = [embeddings EXCEPT ![i] = [owner |-> o, version |-> v, content |-> c]]
    /\ UNCHANGED <<records, writeKeys, forgetKeys, tombstones, keyVersion, backups, issued,
                   retired>>

\* forget(): the first call for an identifier decides, a later one answers
\* already_absent and changes nothing.  A tombstone is kept only for a record
\* that was there; the write key stays behind.  Clients name identifiers that
\* were issued, perhaps to another owner.
Forget(o, i) ==
    /\ i \in issued
    /\ <<o, i>> \notin forgetKeys
    /\ forgetKeys' = forgetKeys \cup {<<o, i>>}
    /\ \/ /\ Owned(o, i)
          /\ tombstones' = tombstones \cup {<<o, i>>}
          /\ records' = [records EXCEPT ![i] = None]
          /\ embeddings' = [embeddings EXCEPT ![i] = None]
       \/ ~Owned(o, i) /\ UNCHANGED <<stored, tombstones>>
    /\ UNCHANGED <<writeKeys, keyVersion, backups, issued, retired>>

\* delete_owner()
DeleteOwner(o) ==
    LET gone == {i \in Ids : Owned(o, i)} IN
    /\ forgetKeys' = forgetKeys \cup ({o} \X gone)
    /\ tombstones' = tombstones \cup ({o} \X gone)
    /\ records' = [i \in Ids |-> IF i \in gone THEN None ELSE records[i]]
    /\ embeddings' = [i \in Ids |-> IF i \in gone THEN None ELSE embeddings[i]]
    /\ writeKeys' = [k \in DOMAIN writeKeys |-> IF k[1] = o THEN None ELSE writeKeys[k]]
    /\ UNCHANGED <<keyVersion, backups, issued, retired>>

\* backup()
TakeBackup ==
    /\ Cardinality(backups) < MaxBackups
    /\ backups' = backups \cup {[records |-> records, ledger |-> tombstones]}
    /\ UNCHANGED <<stored, writeKeys, forgetKeys, tombstones, keyVersion, issued, retired>>

\* Mutant: only the deletions the backup knows of are replayed.
Replayed_BackupOnly(b) == b.ledger

\* The deletions restore() replays: its own, the current ones, and those passed
\* to it, which restore_isolated takes from the backup.
Replayed(b) == tombstones \cup b.ledger

\* Mutant: a vector survives whatever version comes back.
KeptVector_AnyVersion(e, r) == e # None /\ r # None /\ e.owner = r.owner

\* The vectors restore() keeps: those of the version that comes back
KeptVector(e, r) == e # None /\ r # None /\ e.owner = r.owner /\ e.version = r.version

\* Mutant: every write key survives a restore.
KeptKey_Any(o, r) == TRUE

\* The write keys restore() keeps: those of a record that comes back
KeptKey(o, r) == r # None /\ r.owner = o

\* restore() into the running service: the records are replaced, the deletions
\* replayed, and vectors and write keys cut down to what came back.  A
\* malformed snapshot is refused before any record is replaced.
RestoreBackup(b) ==
    LET back(i) == IF b.records[i] # None /\ <<b.records[i].owner, i>> \in Replayed(b)
                   THEN None ELSE b.records[i]
    IN /\ tombstones' = tombstones \cup b.ledger
       /\ records' = [i \in Ids |-> back(i)]
       /\ embeddings' = [i \in Ids |-> IF KeptVector(embeddings[i], back(i))
                                       THEN embeddings[i] ELSE None]
       /\ writeKeys' = [k \in DOMAIN writeKeys |->
            IF writeKeys[k] # None /\ KeptKey(k[1], back(writeKeys[k]))
            THEN writeKeys[k] ELSE None]
       /\ UNCHANGED <<forgetKeys, keyVersion, backups, issued, retired>>

\* restore_isolated() into a new service, which starts at key version 1 whatever
\* the old one had reached: neither the backup nor its inventory carries one.
\* The operator passes the tombstones of the old service, which the restore of an
\* earlier backup needs; by default restore_isolated replays the backup's only.
RestoreIsolated(b) ==
    /\ records' = [i \in Ids |->
         IF b.records[i] # None /\ <<b.records[i].owner, i>> \in Replayed(b)
         THEN None ELSE b.records[i]]
    /\ tombstones' = tombstones \cup b.ledger
    /\ forgetKeys' = {}
    /\ embeddings' = [i \in Ids |-> None]
    /\ writeKeys' = [k \in DOMAIN writeKeys |-> None]
    /\ keyVersion' = 1
    /\ retired' = retired \cup ({keyVersion} \ {1})
    /\ UNCHANGED <<backups, issued>>

\* Mutant: a rotation may go back.
Rotatable_Any(v) == v \in 1..MaxKeyVersion

\* The guard of rotate() and rewrap()
Rotatable(v) == v \in 1..MaxKeyVersion /\ v >= keyVersion

\* rotate(): new ciphertexts use the new version.
Rotate(v) ==
    /\ Rotatable(v)
    /\ keyVersion' = v
    /\ UNCHANGED <<stored, writeKeys, forgetKeys, tombstones, backups, issued, retired>>

Rewrapped(r, v) == [r EXCEPT !.contentKey = v, !.provenanceKey = v]

\* rewrap(): every field is encrypted again before the first one is replaced.
Rewrap(v) ==
    /\ Rotatable(v)
    /\ records' = [i \in Ids |->
         IF records[i] = None THEN None
         ELSE Rewrapped(records[i], v)]
    /\ keyVersion' = v
    /\ UNCHANGED <<embeddings, writeKeys, forgetKeys, tombstones, backups, issued, retired>>

CloudServe ==
    \/ \E o \in Owners, k \in WriteKeys, c \in Contents : Write(o, k, c)
    \/ \E o \in Owners, i \in Ids, ev \in 1..MaxVersion, p \in Patches : Update(o, i, ev, p)
    \/ \E o \in Owners, i \in Ids : Forget(o, i)
    \/ \E o \in Owners : DeleteOwner(o)

CloudRecover ==
    \/ TakeBackup
    \/ \E b \in backups : RestoreBackup(b) \/ RestoreIsolated(b)

CloudRotate == \E v \in 1..MaxKeyVersion : Rotate(v) \/ Rewrap(v)

CloudNext ==
    \/ CloudServe \/ CloudRecover \/ CloudRotate
    \/ \E o \in Owners, i \in Ids, v \in 1..MaxVersion, c \in Contents : StoreEmbedding(o, i, v, c)

CloudSpec == CloudInit /\ [][CloudNext]_cloud

------------------------------------------------------------------------------
(* Properties *)

\* A forgotten memory never comes back, whichever backup is restored, into the
\* running service or a new one, and however often (forget, delete_owner,
\* restore, restore_isolated).
ForgottenStaysForgotten == \A p \in tombstones : ~Owned(p[1], p[2])

\* A vector belongs to the record that is stored now: same owner, same version.
\* Updates, deletions, restores and late workers leave no vector behind
\* (update, forget, delete_owner, store_embedding, restore).
VectorCurrent ==
    \A i \in Ids : embeddings[i] # None =>
        Owned(embeddings[i].owner, i) /\ records[i].version = embeddings[i].version

\* A key version that this service, or one it took over from, has reached
Reached(v) == v <= keyVersion \/ \E w \in retired : v <= w

\* Rotation only moves forward: a field, stored or restored, is bound to a key
\* version the service has reached.  Only a new service that was given a backup
\* of one further than itself may be behind its records, and no further than
\* that one was (rotate, rewrap, restore, restore_isolated).
KeysNotAhead ==
    \A i \in Ids : records[i] # None =>
        Reached(records[i].contentKey) /\ Reached(records[i].provenanceKey)

\* A write key leads to a memory of the owner who sent it, or to one that owner
\* deleted: never to a memory of somebody else, and never to one a restore took
\* away, which would make every retry of the write fail (write, forget, restore).
WriteKeysTraceable ==
    \A k \in DOMAIN writeKeys : writeKeys[k] # None =>
        Owned(k[1], writeKeys[k]) \/ <<k[1], writeKeys[k]>> \in tombstones

------------------------------------------------------------------------------
(* The inductive invariant behind the safety properties *)

\* Whatever the service or a backup holds carries an issued identifier, so that
\* a new record meets neither a tombstone nor a vector.
IssuedOnly ==
    /\ \A i \in Ids : records[i] # None => i \in issued
    /\ \A p \in tombstones : p[2] \in issued
    /\ \A b \in backups :
         /\ \A i \in Ids : b.records[i] # None => i \in issued
         /\ \A p \in b.ledger : p[2] \in issued

\* A backup is no further than the services there were.
BackupsNotAhead ==
    \A b \in backups, i \in Ids : b.records[i] # None =>
        Reached(b.records[i].contentKey) /\ Reached(b.records[i].provenanceKey)

CloudInv ==
    /\ CloudTypeOK
    /\ IssuedOnly
    /\ BackupsNotAhead
    /\ ForgottenStaysForgotten
    /\ VectorCurrent
    /\ KeysNotAhead
==============================================================================
