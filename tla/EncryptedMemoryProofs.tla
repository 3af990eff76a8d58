------------------------ MODULE EncryptedMemoryProofs ------------------------
(***************************************************************************)
(* EncryptedCloudMemoryService keeps CloudInv: forgotten memories stay     *)
(* forgotten, vectors belong to what is stored, keys only move forward.    *)
(***************************************************************************)
EXTENDS EncryptedMemory, TLAPS

\* An empty service satisfies the invariant.
LEMMA CloudInitInv == CloudInit => CloudInv
  BY CloudAssumption
  DEF CloudInit, CloudInv, CloudTypeOK, IssuedOnly, BackupsNotAhead,
      ForgottenStaysForgotten, VectorCurrent, KeysNotAhead, Reached

\* A new record takes an identifier nothing else carries.
LEMMA WriteInv ==
  ASSUME CloudInv, NEW o \in Owners, NEW k \in WriteKeys, NEW c \in Contents, Write(o, k, c)
  PROVE  CloudInv'
  <1>1. PICK i \in Ids \ issued :
          /\ records' = [records EXCEPT ![i] =
               [owner |-> o, content |-> c, state |-> "active", version |-> 1,
                contentKey |-> keyVersion, provenanceKey |-> keyVersion]]
          /\ writeKeys' = [writeKeys EXCEPT ![<<o, k>>] = i]
          /\ issued' = issued \cup {i}
    BY DEF Write
  <1> DEFINE new == [owner |-> o, content |-> c, state |-> "active", version |-> 1,
                     contentKey |-> keyVersion, provenanceKey |-> keyVersion]
  <1>2. UNCHANGED <<embeddings, forgetKeys, tombstones, keyVersion, backups, retired>>
    BY DEF Write
  <1>3. new \in Record
    BY DEF CloudInv, CloudTypeOK, Record
  <1>4. /\ records'[i] = new
        /\ \A j \in Ids \ {i} : records'[j] = records[j]
    BY <1>1 DEF CloudInv, CloudTypeOK
  <1>5. CloudTypeOK'
    BY <1>1, <1>2, <1>3 DEF CloudInv, CloudTypeOK
  <1>6. IssuedOnly'
    BY <1>1, <1>2, <1>4 DEF CloudInv, IssuedOnly
  <1>7. BackupsNotAhead'
    BY <1>2 DEF CloudInv, BackupsNotAhead, Reached
  <1>8. ForgottenStaysForgotten'
    BY <1>1, <1>2, <1>4 DEF CloudInv, CloudTypeOK, IssuedOnly, ForgottenStaysForgotten, Owned
  <1>9. VectorCurrent'
    BY <1>1, <1>2, <1>4 DEF CloudInv, IssuedOnly, VectorCurrent, Owned
  <1>10. KeysNotAhead'
    BY <1>2, <1>4 DEF CloudInv, CloudTypeOK, KeysNotAhead, Reached
  <1> QED BY <1>5, <1>6, <1>7, <1>8, <1>9, <1>10 DEF CloudInv

\* The record an update stores
LEMMA PatchedRecord ==
  ASSUME NEW r \in Record, NEW p \in Patches, keyVersion \in Nat \ {0}
  PROVE  /\ Patched(r, p) \in Record
         /\ Patched(r, p).owner = r.owner
         /\ Patched(r, p).contentKey \in {r.contentKey, keyVersion}
         /\ Patched(r, p).provenanceKey = r.provenanceKey
  BY DEF Patched, Patches, Record

\* The record a rewrap stores
LEMMA RewrappedRecord ==
  ASSUME NEW r \in Record, NEW v \in Nat \ {0}
  PROVE  /\ Rewrapped(r, v) \in Record
         /\ Rewrapped(r, v).owner = r.owner /\ Rewrapped(r, v).version = r.version
         /\ Rewrapped(r, v).contentKey = v /\ Rewrapped(r, v).provenanceKey = v
  <1> DEFINE new == [r EXCEPT !.contentKey = v, !.provenanceKey = v]
  <1>1. new \in Record
    BY DEF Record
  <1>2. new.owner = r.owner
    BY DEF Record
  <1>3. new.version = r.version
    BY DEF Record
  <1>4. new.contentKey = v
    BY DEF Record
  <1>5. new.provenanceKey = v
    BY DEF Record
  <1> QED BY <1>1, <1>2, <1>3, <1>4, <1>5 DEF Rewrapped

\* An update keeps the owner, takes the next version and drops the vector.
LEMMA UpdateInv ==
  ASSUME CloudInv, NEW o \in Owners, NEW i \in Ids, NEW ev \in 1..MaxVersion,
         NEW p \in Patches, Update(o, i, ev, p)
  PROVE  CloudInv'
  <1> DEFINE r == records[i]
             new == Patched(r, p)
  <1>1. /\ records' = [records EXCEPT ![i] = new]
        /\ embeddings' = [embeddings EXCEPT ![i] = None]
        /\ UNCHANGED <<writeKeys, forgetKeys, tombstones, keyVersion, backups, issued, retired>>
    BY DEF Update, AfterUpdate
  <1>2. r \in Record /\ r # None /\ r.owner = o
    BY DEF Update, Owned, CloudInv, CloudTypeOK
  <1>3. /\ new \in Record /\ new.owner = o /\ new # None
        /\ new.contentKey \in {r.contentKey, keyVersion}
        /\ new.provenanceKey = r.provenanceKey
    <2>1. keyVersion \in Nat \ {0}
      BY DEF CloudInv, CloudTypeOK
    <2> QED BY <1>2, <2>1, PatchedRecord, CloudAssumption
  <1> HIDE DEF new
  <1>4. /\ records'[i] = new
        /\ \A j \in Ids \ {i} : records'[j] = records[j]
    BY <1>1 DEF CloudInv, CloudTypeOK
  <1>5. CloudTypeOK'
    BY <1>1, <1>3 DEF CloudInv, CloudTypeOK
  <1>6. IssuedOnly'
    BY <1>1, <1>2, <1>4 DEF CloudInv, IssuedOnly
  <1>7. BackupsNotAhead'
    BY <1>1 DEF CloudInv, BackupsNotAhead, Reached
  <1>8. ForgottenStaysForgotten'
    BY <1>1, <1>2, <1>3, <1>4 DEF CloudInv, CloudTypeOK, ForgottenStaysForgotten, Owned
  <1>9. VectorCurrent'
    BY <1>1, <1>4 DEF CloudInv, CloudTypeOK, VectorCurrent, Owned
  <1>10. KeysNotAhead'
    BY <1>1, <1>2, <1>3, <1>4 DEF CloudInv, CloudTypeOK, KeysNotAhead, Reached
  <1> QED BY <1>5, <1>6, <1>7, <1>8, <1>9, <1>10 DEF CloudInv

\* store_embedding compares owner and version with the stored record.
LEMMA StoreEmbeddingInv ==
  ASSUME CloudInv, NEW o \in Owners, NEW i \in Ids, NEW v \in Nat \ {0},
         NEW c \in Contents, StoreEmbedding(o, i, v, c)
  PROVE  CloudInv'
  <1>1. [owner |-> o, version |-> v, content |-> c] \in Embedding
    BY CloudAssumption DEF Embedding
  <1>2. CloudTypeOK'
    BY <1>1 DEF StoreEmbedding, CloudInv, CloudTypeOK
  <1>3. VectorCurrent'
    BY DEF StoreEmbedding, StillCurrent, CloudInv, CloudTypeOK, VectorCurrent, Owned
  <1> QED
    BY <1>2, <1>3
    DEF StoreEmbedding, CloudInv, IssuedOnly, BackupsNotAhead, ForgottenStaysForgotten,
        KeysNotAhead, Reached, Owned

\* forget and delete_owner remove the records they put a tombstone on, with
\* their vectors.
LEMMA DeletionInv ==
  ASSUME CloudInv, NEW o \in Owners, NEW gone \in SUBSET Ids,
         \A i \in gone : Owned(o, i),
         tombstones' = tombstones \cup ({o} \X gone),
         records' = [i \in Ids |-> IF i \in gone THEN None ELSE records[i]],
         embeddings' = [i \in Ids |-> IF i \in gone THEN None ELSE embeddings[i]],
         writeKeys' \in [Owners \X WriteKeys -> Ids \cup {None}],
         forgetKeys' \subseteq Owners \X Ids,
         UNCHANGED <<keyVersion, backups, issued, retired>>
  PROVE  CloudInv'
  <1>1. CloudTypeOK'
    BY DEF CloudInv, CloudTypeOK
  <1>2. IssuedOnly'
    BY DEF CloudInv, IssuedOnly, Owned
  <1>3. ForgottenStaysForgotten'
    BY DEF CloudInv, CloudTypeOK, ForgottenStaysForgotten, Owned
  <1>4. VectorCurrent'
    BY DEF CloudInv, VectorCurrent, Owned
  <1>5. KeysNotAhead' /\ BackupsNotAhead'
    BY DEF CloudInv, KeysNotAhead, Reached, BackupsNotAhead, Reached
  <1> QED BY <1>1, <1>2, <1>3, <1>4, <1>5 DEF CloudInv

\* forget of one identifier
LEMMA ForgetInv ==
  ASSUME CloudInv, NEW o \in Owners, NEW i \in Ids, Forget(o, i)
  PROVE  CloudInv'
  <1>1. /\ forgetKeys' \subseteq Owners \X Ids
        /\ writeKeys' \in [Owners \X WriteKeys -> Ids \cup {None}]
        /\ UNCHANGED <<keyVersion, backups, issued, retired>>
    BY DEF Forget, CloudInv, CloudTypeOK
  <1>2. CASE Owned(o, i)
    <2> DEFINE gone == {i}
    <2>1. /\ tombstones' = tombstones \cup ({o} \X gone)
          /\ records' = [j \in Ids |-> IF j \in gone THEN None ELSE records[j]]
          /\ embeddings' = [j \in Ids |-> IF j \in gone THEN None ELSE embeddings[j]]
      BY <1>2 DEF Forget, CloudInv, CloudTypeOK
    <2>2. gone \in SUBSET Ids /\ \A j \in gone : Owned(o, j)
      BY <1>2
    <2> HIDE DEF gone
    <2> QED BY <1>1, <2>1, <2>2, DeletionInv
  <1>3. CASE ~Owned(o, i)
    <2>1. UNCHANGED <<records, embeddings, tombstones>>
      BY <1>3 DEF Forget, stored
    <2> QED
      BY <1>1, <2>1
      DEF CloudInv, CloudTypeOK, IssuedOnly, BackupsNotAhead, ForgottenStaysForgotten,
          VectorCurrent, KeysNotAhead, Reached, Owned
  <1> QED BY <1>2, <1>3

\* deletion of an account
LEMMA DeleteOwnerInv ==
  ASSUME CloudInv, NEW o \in Owners, DeleteOwner(o)
  PROVE  CloudInv'
  <1> DEFINE gone == {i \in Ids : Owned(o, i)}
  <1>1. /\ tombstones' = tombstones \cup ({o} \X gone)
        /\ records' = [i \in Ids |-> IF i \in gone THEN None ELSE records[i]]
        /\ embeddings' = [i \in Ids |-> IF i \in gone THEN None ELSE embeddings[i]]
        /\ UNCHANGED <<keyVersion, backups, issued, retired>>
    BY DEF DeleteOwner
  <1>2. forgetKeys' \subseteq Owners \X Ids
    BY DEF DeleteOwner, CloudInv, CloudTypeOK
  <1>3. writeKeys' \in [Owners \X WriteKeys -> Ids \cup {None}]
    BY DEF DeleteOwner, CloudInv, CloudTypeOK
  <1>4. gone \in SUBSET Ids /\ \A i \in gone : Owned(o, i)
    OBVIOUS
  <1> HIDE DEF gone
  <1> QED BY <1>1, <1>2, <1>3, <1>4, DeletionInv

\* A backup copies what satisfies the invariant.
LEMMA BackupInv ==
  ASSUME CloudInv, TakeBackup
  PROVE  CloudInv'
  <1> DEFINE b == [records |-> records, ledger |-> tombstones]
  <1>1. b \in Backup
    BY DEF CloudInv, CloudTypeOK, Backup
  <1>2. backups' = backups \cup {b}
        /\ UNCHANGED <<records, embeddings, writeKeys, forgetKeys, tombstones, keyVersion, issued,
                       retired>>
    BY DEF TakeBackup, stored
  <1>3. CloudTypeOK'
    BY <1>1, <1>2 DEF CloudInv, CloudTypeOK
  <1>4. IssuedOnly'
    BY <1>2 DEF CloudInv, IssuedOnly
  <1>5. BackupsNotAhead'
    BY <1>2 DEF CloudInv, BackupsNotAhead, KeysNotAhead, Reached
  <1> QED
    BY <1>2, <1>3, <1>4, <1>5
    DEF CloudInv, ForgottenStaysForgotten, VectorCurrent, KeysNotAhead, Reached, Owned

\* What comes back from a backup, into the running service or a new one: its
\* records without the replayed deletions, and vectors that match them.
LEMMA RecoveryInv ==
  ASSUME CloudInv, NEW b \in backups,
         tombstones' = tombstones \cup b.ledger,
         records' = [i \in Ids |->
           IF b.records[i] # None /\ <<b.records[i].owner, i>> \in Replayed(b)
           THEN None ELSE b.records[i]],
         embeddings' \in [Ids -> Embedding \cup {None}],
         \A i \in Ids : embeddings'[i] # None => KeptVector(embeddings'[i], records'[i]),
         writeKeys' \in [Owners \X WriteKeys -> Ids \cup {None}],
         forgetKeys' \subseteq Owners \X Ids,
         keyVersion' \in Nat \ {0}, retired' \subseteq Nat,
         \A k \in Nat : Reached(k) => Reached(k)',
         UNCHANGED <<backups, issued>>
  PROVE  CloudInv'
  <1>1. b \in Backup
    BY DEF CloudInv, CloudTypeOK
  <1>2. \A i \in Ids : records'[i] # None => records'[i] = b.records[i]
    OBVIOUS
  <1>3. CloudTypeOK'
    BY <1>1 DEF CloudInv, CloudTypeOK, Backup
  <1>4. IssuedOnly'
    BY <1>2 DEF CloudInv, IssuedOnly
  <1>5. BackupsNotAhead' /\ KeysNotAhead'
    <2>1. ASSUME NEW c \in backups, NEW i \in Ids, c.records[i] # None
          PROVE  Reached(c.records[i].contentKey)' /\ Reached(c.records[i].provenanceKey)'
      <3>1. c.records[i] \in Record
        BY <2>1 DEF CloudInv, CloudTypeOK, Backup
      <3>2. c.records[i].contentKey \in Nat /\ c.records[i].provenanceKey \in Nat
        BY <3>1 DEF Record
      <3>3. Reached(c.records[i].contentKey) /\ Reached(c.records[i].provenanceKey)
        BY <2>1 DEF CloudInv, BackupsNotAhead
      <3> QED BY <3>2, <3>3
    <2> QED BY <1>2, <2>1 DEF BackupsNotAhead, KeysNotAhead
  <1>6. ForgottenStaysForgotten'
    <2> SUFFICES ASSUME NEW p \in tombstones', (Owned(p[1], p[2]))'
                 PROVE  FALSE
      BY DEF ForgottenStaysForgotten
    <2>1. p = <<p[1], p[2]>> /\ p[2] \in Ids
      BY <1>3 DEF CloudTypeOK
    <2>2. p \in Replayed(b)
      BY DEF Replayed
    <2> QED BY <1>2, <2>1, <2>2 DEF Owned
  <1>7. VectorCurrent'
    BY DEF VectorCurrent, KeptVector, Owned
  <1> QED BY <1>3, <1>4, <1>5, <1>6, <1>7 DEF CloudInv

\* restore and restore_isolated
LEMMA RestoreInv ==
  ASSUME CloudInv, NEW b \in backups, RestoreBackup(b) \/ RestoreIsolated(b)
  PROVE  CloudInv'
  <1> DEFINE back(i) == IF b.records[i] # None /\ <<b.records[i].owner, i>> \in Replayed(b)
                        THEN None ELSE b.records[i]
  <1>1. CASE RestoreBackup(b)
    <2>1. /\ tombstones' = tombstones \cup b.ledger
          /\ records' = [i \in Ids |-> back(i)]
          /\ embeddings' = [i \in Ids |-> IF KeptVector(embeddings[i], back(i))
                                          THEN embeddings[i] ELSE None]
          /\ UNCHANGED <<keyVersion, backups, issued, retired>>
      BY <1>1 DEF RestoreBackup
    <2>2. forgetKeys' \subseteq Owners \X Ids
          /\ writeKeys' \in [Owners \X WriteKeys -> Ids \cup {None}]
      BY <1>1 DEF RestoreBackup, CloudInv, CloudTypeOK
    <2>3. embeddings' \in [Ids -> Embedding \cup {None}]
      BY <2>1 DEF CloudInv, CloudTypeOK
    <2>4. \A i \in Ids : embeddings'[i] # None => KeptVector(embeddings'[i], records'[i])
      BY <2>1
    <2>5. /\ keyVersion' \in Nat \ {0} /\ retired' \subseteq Nat
          /\ \A k \in Nat : Reached(k) => Reached(k)'
      BY <2>1 DEF CloudInv, CloudTypeOK, Reached
    <2> QED BY <2>1, <2>2, <2>3, <2>4, <2>5, RecoveryInv
  <1>2. CASE RestoreIsolated(b)
    <2>1. /\ tombstones' = tombstones \cup b.ledger
          /\ records' = [i \in Ids |-> back(i)]
          /\ embeddings' = [i \in Ids |-> None]
          /\ forgetKeys' = {} /\ UNCHANGED <<backups, issued>>
          /\ keyVersion' = 1 /\ retired' = retired \cup ({keyVersion} \ {1})
      BY <1>2 DEF RestoreIsolated
    <2>2. writeKeys' \in [Owners \X WriteKeys -> Ids \cup {None}]
      BY <1>2 DEF RestoreIsolated, CloudInv, CloudTypeOK
    <2>3. keyVersion' \in Nat \ {0} /\ retired' \subseteq Nat
      <3>1. keyVersion \in Nat /\ retired \subseteq Nat
        BY DEF CloudInv, CloudTypeOK
      <3> QED BY <2>1, <3>1
    <2>4. \A k \in Nat : Reached(k) => Reached(k)'
      <3>1. keyVersion \in Nat \ {0}
        BY DEF CloudInv, CloudTypeOK
      <3>2. keyVersion = 1 \/ keyVersion \in retired'
        BY <2>1
      <3>3. retired \subseteq retired' /\ keyVersion' = 1
        BY <2>1
      <3> QED BY <3>1, <3>2, <3>3 DEF Reached
    <2> QED BY <2>1, <2>2, <2>3, <2>4, RecoveryInv
  <1> QED BY <1>1, <1>2

\* rotate and rewrap only move the key version forward.
LEMMA RotationInv ==
  ASSUME CloudInv, NEW v \in 1..MaxKeyVersion, Rotate(v) \/ Rewrap(v)
  PROVE  CloudInv'
  <1>1. /\ keyVersion' = v /\ v >= keyVersion
        /\ UNCHANGED <<embeddings, writeKeys, forgetKeys, tombstones, backups, issued, retired>>
    BY DEF Rotate, Rewrap, Rotatable, stored
  <1>2. v \in Nat \ {0} /\ keyVersion \in Nat \ {0}
    BY CloudAssumption DEF CloudInv, CloudTypeOK
  <1>0. (\A k \in Nat : Reached(k) => Reached(k)') /\ Reached(v)'
    BY <1>1, <1>2 DEF CloudInv, CloudTypeOK, Reached
  <1>3. BackupsNotAhead'
    <2> SUFFICES ASSUME NEW b \in backups, NEW i \in Ids, b.records[i] # None
                 PROVE  Reached(b.records[i].contentKey)' /\ Reached(b.records[i].provenanceKey)'
      BY <1>1 DEF BackupsNotAhead
    <2>1. b.records[i] \in Record
      BY DEF CloudInv, CloudTypeOK, Backup
    <2>2. Reached(b.records[i].contentKey) /\ Reached(b.records[i].provenanceKey)
      BY DEF CloudInv, BackupsNotAhead
    <2>3. b.records[i].contentKey \in Nat /\ b.records[i].provenanceKey \in Nat
      BY <2>1 DEF Record
    <2> QED BY <1>0, <2>2, <2>3
  <1>4. \A i \in Ids :
          /\ records'[i] \in Record \cup {None}
          /\ records'[i] = None <=> records[i] = None
          /\ records[i] # None =>
               /\ records'[i].owner = records[i].owner
               /\ records'[i].version = records[i].version
               /\ Reached(records[i].contentKey)' /\ Reached(records[i].provenanceKey)'
    <2> SUFFICES ASSUME NEW i \in Ids
                 PROVE  /\ records'[i] \in Record \cup {None}
                        /\ records'[i] = None <=> records[i] = None
                        /\ records[i] # None =>
                             /\ records'[i].owner = records[i].owner
                             /\ records'[i].version = records[i].version
                             /\ Reached(records[i].contentKey)' /\ Reached(records[i].provenanceKey)'
      OBVIOUS
    <2>1. records[i] \in Record \cup {None}
      BY DEF CloudInv, CloudTypeOK
    <2>2. CASE Rotate(v)
      <3>1. records' = records
        BY <2>2 DEF Rotate, stored
      <3>2. records[i] # None =>
              Reached(records[i].contentKey) /\ Reached(records[i].provenanceKey)
        BY DEF CloudInv, KeysNotAhead
      <3>3. records[i] # None =>
              records[i].contentKey \in Nat /\ records[i].provenanceKey \in Nat
        BY <2>1 DEF Record
      <3> QED BY <1>0, <2>1, <3>1, <3>2, <3>3
    <2>3. CASE Rewrap(v)
      <3>1. records'[i] = IF records[i] = None THEN None
                          ELSE Rewrapped(records[i], v)
        BY <2>3 DEF Rewrap
      <3>2. CASE records[i] = None
        BY <3>1, <3>2
      <3>3. CASE records[i] # None
        <4> DEFINE new == Rewrapped(records[i], v)
        <4>1. records[i] \in Record
          BY <2>1, <3>3
        <4>2. /\ new \in Record
              /\ new.owner = records[i].owner /\ new.version = records[i].version
              /\ new.contentKey = v /\ new.provenanceKey = v
          BY <1>2, <4>1, RewrappedRecord
        <4>3. new # None
          BY <4>2, CloudAssumption
        <4>4. records'[i] = new
          BY <3>1, <3>3
        <4> HIDE DEF new
        <4> QED BY <1>0, <3>3, <4>2, <4>3, <4>4
      <3> QED BY <3>2, <3>3
    <2> QED BY <2>2, <2>3
  <1>5. records' \in [Ids -> Record \cup {None}]
    <2>1. DOMAIN records' = Ids /\ records' = [i \in Ids |-> records'[i]]
      BY DEF Rotate, Rewrap, stored, CloudInv, CloudTypeOK
    <2> QED BY <1>4, <2>1
  <1>6. CloudTypeOK'
    BY <1>1, <1>2, <1>5 DEF CloudInv, CloudTypeOK
  <1>7. IssuedOnly' /\ KeysNotAhead'
    BY <1>1, <1>4 DEF CloudInv, IssuedOnly, KeysNotAhead
  <1>8. ForgottenStaysForgotten'
    BY <1>1, <1>4 DEF CloudInv, CloudTypeOK, ForgottenStaysForgotten, Owned
  <1>9. VectorCurrent'
    BY <1>1, <1>4 DEF CloudInv, VectorCurrent, Owned
  <1> QED BY <1>3, <1>6, <1>7, <1>8, <1>9 DEF CloudInv

\* CloudInv is inductive.
LEMMA CloudNextInv == CloudInv /\ [CloudNext]_cloud => CloudInv'
  <1> SUFFICES ASSUME CloudInv, [CloudNext]_cloud PROVE CloudInv'
    OBVIOUS
  <1>1. CASE CloudServe
    BY <1>1, WriteInv, UpdateInv, ForgetInv, DeleteOwnerInv DEF CloudServe
  <1>2. CASE CloudRecover
    BY <1>2, BackupInv, RestoreInv DEF CloudRecover
  <1>3. CASE CloudRotate
    BY <1>3, RotationInv DEF CloudRotate
  <1>4. CASE \E o \in Owners, i \in Ids, v \in 1..MaxVersion, c \in Contents :
               StoreEmbedding(o, i, v, c)
    <2>1. 1..MaxVersion \subseteq Nat \ {0}
      BY CloudAssumption
    <2> QED BY <1>4, <2>1, StoreEmbeddingInv
  <1>5. CASE UNCHANGED cloud
    BY <1>5
    DEF cloud, stored, CloudInv, CloudTypeOK, IssuedOnly, BackupsNotAhead,
        ForgottenStaysForgotten, VectorCurrent, KeysNotAhead, Reached, Owned
  <1> QED BY <1>1, <1>2, <1>3, <1>4, <1>5 DEF CloudNext

\* The invariant holds in every reachable state of the service.
THEOREM CloudInvariant == CloudSpec => []CloudInv
  BY CloudInitInv, CloudNextInv, PTL DEF CloudSpec

\* A forgotten memory stays forgotten whatever is backed up, restored, rewrapped
\* or written afterwards.
THEOREM NothingForgottenReturns == CloudSpec => []ForgottenStaysForgotten
  <1>1. CloudInv => ForgottenStaysForgotten
    BY DEF CloudInv
  <1> QED BY <1>1, CloudInvariant, PTL

\* No vector outlives the version it was made for.
THEOREM VectorsAreCurrent == CloudSpec => []VectorCurrent
  <1>1. CloudInv => VectorCurrent
    BY DEF CloudInv
  <1> QED BY <1>1, CloudInvariant, PTL

\* The type of the service's state, of its backups included.
THEOREM CloudTypeCorrect == CloudSpec => []CloudTypeOK
  <1>1. CloudInv => CloudTypeOK
    BY DEF CloudInv
  <1> QED BY <1>1, CloudInvariant, PTL

\* No ciphertext is bound to a key version that neither the service nor one it
\* took over from has reached, whatever is restored between rotations.
THEOREM KeysNeverAhead == CloudSpec => []KeysNotAhead
  <1>1. CloudInv => KeysNotAhead
    BY DEF CloudInv
  <1> QED BY <1>1, CloudInvariant, PTL

------------------------------------------------------------------------------
(* Write keys *)

\* A step after which every record its owner still has, or has deleted, is
\* traceable, and which sets no write key, keeps WriteKeysTraceable.
LEMMA KeysFrame ==
  ASSUME CloudInv, WriteKeysTraceable,
         DOMAIN writeKeys' = DOMAIN writeKeys,
         \A k \in DOMAIN writeKeys : writeKeys'[k] \in {writeKeys[k], None},
         \A k \in DOMAIN writeKeys : writeKeys'[k] # None =>
             \/ (Owned(k[1], writeKeys[k]))' \/ ~Owned(k[1], writeKeys[k])
             \/ <<k[1], writeKeys[k]>> \in tombstones',
         tombstones \subseteq tombstones'
  PROVE  WriteKeysTraceable'
  <1> SUFFICES ASSUME NEW k \in DOMAIN writeKeys, writeKeys'[k] # None
               PROVE  \/ (Owned(k[1], writeKeys[k]))'
                      \/ <<k[1], writeKeys[k]>> \in tombstones'
    BY DEF WriteKeysTraceable, Owned
  <1>1. Owned(k[1], writeKeys[k]) \/ <<k[1], writeKeys[k]>> \in tombstones
    BY DEF WriteKeysTraceable
  <1> QED BY <1>1

\* A write registers its key for the record it creates.
LEMMA WriteTraceable ==
  ASSUME CloudInv, WriteKeysTraceable,
         NEW o \in Owners, NEW k \in WriteKeys, NEW c \in Contents, Write(o, k, c)
  PROVE  WriteKeysTraceable'
  <1>1. PICK i \in Ids \ issued :
          /\ records' = [records EXCEPT ![i] =
               [owner |-> o, content |-> c, state |-> "active", version |-> 1,
                contentKey |-> keyVersion, provenanceKey |-> keyVersion]]
          /\ writeKeys' = [writeKeys EXCEPT ![<<o, k>>] = i]
    BY DEF Write
  <1> DEFINE new == [owner |-> o, content |-> c, state |-> "active", version |-> 1,
                     contentKey |-> keyVersion, provenanceKey |-> keyVersion]
  <1>2. /\ new \in Record /\ new # None /\ new.owner = o
        /\ records'[i] = new /\ \A j \in Ids \ {i} : records'[j] = records[j]
        /\ records[i] = None
        /\ writeKeys \in [Owners \X WriteKeys -> Ids \cup {None}]
        /\ tombstones' = tombstones
    BY <1>1, CloudAssumption DEF Write, Record, CloudInv, CloudTypeOK, IssuedOnly
  <1> HIDE DEF new
  <1> SUFFICES ASSUME NEW q \in Owners \X WriteKeys, writeKeys'[q] # None
               PROVE  \/ (Owned(q[1], writeKeys[q]))'
                      \/ <<q[1], writeKeys'[q]>> \in tombstones'
    BY <1>1, <1>2 DEF WriteKeysTraceable, Owned
  <1>3. CASE q = <<o, k>>
    <2>1. writeKeys'[q] = i /\ q[1] = o
      BY <1>1, <1>2, <1>3
    <2> QED BY <1>2, <2>1 DEF Owned
  <1>4. CASE q # <<o, k>>
    <2>1. writeKeys'[q] = writeKeys[q] /\ writeKeys[q] \in Ids
      BY <1>1, <1>2, <1>4
    <2>2. Owned(q[1], writeKeys[q]) \/ <<q[1], writeKeys[q]>> \in tombstones
      BY <1>2, <2>1 DEF WriteKeysTraceable
    <2> QED BY <1>2, <2>1, <2>2 DEF Owned
  <1> QED BY <1>3, <1>4

\* Updates, deletions, backups, restores, rotations and vectors set no key.
LEMMA OtherTraceable ==
  ASSUME CloudInv, WriteKeysTraceable,
         \/ \E o \in Owners, i \in Ids, ev \in 1..MaxVersion, p \in Patches : Update(o, i, ev, p)
         \/ \E o \in Owners, i \in Ids : Forget(o, i)
         \/ \E o \in Owners : DeleteOwner(o)
         \/ CloudRecover \/ CloudRotate
         \/ \E o \in Owners, i \in Ids, v \in 1..MaxVersion, c \in Contents :
              StoreEmbedding(o, i, v, c)
  PROVE  WriteKeysTraceable'
  <1>1. /\ writeKeys \in [Owners \X WriteKeys -> Ids \cup {None}]
        /\ records \in [Ids -> Record \cup {None}] /\ keyVersion \in Nat \ {0}
    BY DEF CloudInv, CloudTypeOK
  <1>2. ASSUME NEW o \in Owners, NEW i \in Ids, NEW ev \in 1..MaxVersion, NEW p \in Patches,
               Update(o, i, ev, p)
        PROVE  WriteKeysTraceable'
    <2>1. /\ records' = [records EXCEPT ![i] = Patched(records[i], p)]
          /\ records[i] # None /\ UNCHANGED <<writeKeys, tombstones>>
      BY <1>2 DEF Update, Owned
    <2>2. Patched(records[i], p) # None /\ Patched(records[i], p).owner = records[i].owner
      BY <1>1, <2>1, PatchedRecord, CloudAssumption
    <2>3. \A q, j : Owned(q, j) /\ j \in Ids => (Owned(q, j))'
      BY <1>1, <2>1, <2>2 DEF Owned
    <2> QED BY <1>1, <2>1, <2>3, KeysFrame
  <1>3. ASSUME NEW o \in Owners, NEW i \in Ids, Forget(o, i) PROVE WriteKeysTraceable'
    <2>1. writeKeys' = writeKeys /\ tombstones \subseteq tombstones'
      BY <1>3 DEF Forget, stored
    <2>2. \A q, j : Owned(q, j) /\ j \in Ids => (Owned(q, j))' \/ <<q, j>> \in tombstones'
      BY <1>1, <1>3 DEF Forget, stored, Owned
    <2> QED BY <1>1, <2>1, <2>2, KeysFrame
  <1>4. ASSUME NEW o \in Owners, DeleteOwner(o) PROVE WriteKeysTraceable'
    <2>1. /\ writeKeys' = [k \in DOMAIN writeKeys |-> IF k[1] = o THEN None ELSE writeKeys[k]]
          /\ tombstones \subseteq tombstones'
          /\ records' = [j \in Ids |-> IF Owned(o, j) THEN None ELSE records[j]]
      BY <1>4 DEF DeleteOwner
    <2>2. \A q, j : Owned(q, j) /\ j \in Ids /\ q # o => (Owned(q, j))'
      BY <2>1 DEF Owned
    <2>3. \A k \in DOMAIN writeKeys : writeKeys'[k] # None =>
            k[1] # o /\ writeKeys[k] \in Ids
      BY <1>1, <2>1
    <2> QED BY <2>1, <2>2, <2>3, KeysFrame
  <1>5. CASE TakeBackup \/ \E v \in 1..MaxKeyVersion : Rotate(v)
    <2>1. UNCHANGED <<records, writeKeys, tombstones>>
      BY <1>5 DEF TakeBackup, Rotate, stored
    <2> QED BY <2>1 DEF WriteKeysTraceable, Owned
  <1>6. ASSUME NEW b \in backups, RestoreBackup(b) PROVE WriteKeysTraceable'
    <2> DEFINE back(i) == IF b.records[i] # None /\ <<b.records[i].owner, i>> \in Replayed(b)
                          THEN None ELSE b.records[i]
    <2>1. /\ records' = [i \in Ids |-> back(i)]
          /\ tombstones' = tombstones \cup b.ledger
          /\ writeKeys' = [k \in DOMAIN writeKeys |->
               IF writeKeys[k] # None /\ KeptKey(k[1], back(writeKeys[k]))
               THEN writeKeys[k] ELSE None]
      BY <1>6 DEF RestoreBackup
    <2>2. \A k \in DOMAIN writeKeys : writeKeys'[k] # None =>
            /\ writeKeys'[k] = writeKeys[k] /\ writeKeys[k] \in Ids
            /\ KeptKey(k[1], records'[writeKeys[k]])
      BY <1>1, <2>1
    <2> QED BY <2>1, <2>2 DEF WriteKeysTraceable, Owned, KeptKey
  <1>7. ASSUME NEW b \in backups, RestoreIsolated(b) PROVE WriteKeysTraceable'
    BY <1>7 DEF RestoreIsolated, WriteKeysTraceable
  <1>8. ASSUME NEW v \in 1..MaxKeyVersion, Rewrap(v) PROVE WriteKeysTraceable'
    <2>1. /\ records' = [i \in Ids |-> IF records[i] = None THEN None
                                       ELSE Rewrapped(records[i], v)]
          /\ UNCHANGED <<writeKeys, tombstones>> /\ v \in Nat \ {0}
      BY <1>8, CloudAssumption DEF Rewrap
    <2>2. \A i \in Ids : records[i] # None =>
            Rewrapped(records[i], v) # None /\ Rewrapped(records[i], v).owner = records[i].owner
      BY <1>1, <2>1, RewrappedRecord, CloudAssumption
    <2>3. \A q, j : Owned(q, j) /\ j \in Ids => (Owned(q, j))'
      BY <2>1, <2>2 DEF Owned
    <2> QED BY <1>1, <2>1, <2>3, KeysFrame
  <1>9. ASSUME NEW o \in Owners, NEW i \in Ids, NEW v \in 1..MaxVersion, NEW c \in Contents,
               StoreEmbedding(o, i, v, c)
        PROVE  WriteKeysTraceable'
    BY <1>9 DEF StoreEmbedding, WriteKeysTraceable, Owned
  <1> QED BY <1>2, <1>3, <1>4, <1>5, <1>6, <1>7, <1>8, <1>9 DEF CloudRecover, CloudRotate

\* A retry of a write never meets a memory of somebody else, nor one that a
\* restore took away.
THEOREM WriteKeysLead == CloudSpec => []WriteKeysTraceable
  <1>1. CloudInit => WriteKeysTraceable
    BY DEF CloudInit, WriteKeysTraceable
  <1>2. CloudInv /\ WriteKeysTraceable /\ [CloudNext]_cloud => WriteKeysTraceable'
    <2> SUFFICES ASSUME CloudInv, WriteKeysTraceable, [CloudNext]_cloud
                 PROVE  WriteKeysTraceable'
      OBVIOUS
    <2>1. CASE UNCHANGED cloud
      BY <2>1 DEF cloud, stored, WriteKeysTraceable, Owned
    <2> QED BY <2>1, WriteTraceable, OtherTraceable DEF CloudNext, CloudServe
  <1> QED BY <1>1, <1>2, CloudInvariant, PTL DEF CloudSpec
==============================================================================
