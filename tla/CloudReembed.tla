---------------------------- MODULE CloudReembed -----------------------------
(***************************************************************************)
(* The re-embedding job: LocalTenantWorker running reembed_memory against  *)
(* EncryptedCloudMemoryService.                                            *)
(*                                                                         *)
(* The handler reads the record, awaits the embedding of its content and   *)
(* stores the vector if owner and version still match.  Everything the     *)
(* service does may happen during that await.  Restarts of the worker are  *)
(* checked in TenantWorker, key rotation in EncryptedMemory.               *)
(***************************************************************************)
EXTENDS TenantWorker, EncryptedMemory

CONSTANT Principal    \* the owner each envelope is signed for

VARIABLES
    fetched,     \* per run: the content that is being embedded
    crossed,     \* history: runs that a restore overtook since they read the record
    revived      \* history: memories whose vector such a run stored, or such a
                 \* restore kept, under a version number that was used twice

all == <<worker, cloud, fetched, crossed, revived>>

\* payload_ref: "memory_id:source_version"; anything else names no version
ASSUME ReembedAssumption ==
    /\ Refs \subseteq Ids \X Nat
    /\ Principal \in [Envelopes -> Owners]
    /\ None \notin Contents

ReembedInit ==
    /\ WorkerInit /\ CloudInit
    /\ fetched = [r \in Runners |-> None]
    /\ crossed = {} /\ revived = {}

\* run_one and reembed_memory up to the await: get() and the version check
StartReembed(r, e) ==
    LET i == jobs[e].ref[1]
        v == jobs[e].ref[2]
    IN /\ StartRun(r, e)
       /\ fetched' = IF Verified(e) /\ Owned(Principal[e], i) /\ records[i].version = v
                     THEN [fetched EXCEPT ![r] = records[i].content] ELSE fetched
       /\ UNCHANGED <<cloud, crossed, revived>>

\* The rest of the handler and of run_one: the vector is stored, or the job is
\* stale because the record changed before or during the await.
FinishReembed(r) ==
    LET e == running[r]
        i == jobs[e].ref[1]
        v == jobs[e].ref[2]
        current == fetched[r] # None /\ StillCurrent(Principal[e], i, v)
    IN /\ e # NoJob
       /\ \/ /\ current
             /\ StoreEmbedding(Principal[e], i, v, fetched[r])
             /\ FinishRun(r, "ready")
             /\ revived' = IF r \in crossed THEN revived \cup {i} ELSE revived \ {i}
          \/ ~current /\ FinishRun(r, "stale") /\ UNCHANGED <<cloud, revived>>
       /\ fetched' = [fetched EXCEPT ![r] = None]
       /\ crossed' = crossed \ {r}

\* The embedding provider raised, or the run was cancelled.
BreakReembed(r) ==
    /\ \/ fetched[r] # None /\ FailRun(r)
       \/ fetched[r] # None /\ CancelRun(r)
    /\ fetched' = [fetched EXCEPT ![r] = None]
    /\ crossed' = crossed \ {r}
    /\ UNCHANGED <<cloud, revived>>

ReembedStep ==
    \/ \E q \in Requests : Enqueue(q) /\ UNCHANGED <<cloud, fetched, crossed, revived>>
    \/ \E e \in Envelopes : Expire(e) /\ UNCHANGED <<cloud, fetched, crossed, revived>>
    \/ \E r \in Runners :
         \/ \E e \in Envelopes : StartReembed(r, e)
         \/ FinishReembed(r) \/ BreakReembed(r)

\* The vectors restore() keeps although the backup has another content under the
\* version number of the stored record
Forked(b) ==
    {i \in Ids : /\ embeddings[i] # None /\ records[i] # None /\ b.records[i] # None
                 /\ b.records[i].version = records[i].version
                 /\ b.records[i].content # records[i].content}

\* The operator beside a running worker
ReembedRecover ==
    \/ TakeBackup /\ UNCHANGED <<worker, fetched, crossed, revived>>
    \/ \E b \in backups :
         /\ RestoreBackup(b) \/ RestoreIsolated(b)
         /\ crossed' = {r \in Runners : fetched[r] # None}
         /\ revived' = revived \cup Forked(b)
         /\ UNCHANGED <<worker, fetched>>

\* The worker beside the service's clients and an operator who restores backups
ReembedNext ==
    \/ ReembedStep
    \/ CloudServe /\ UNCHANGED <<worker, fetched, crossed, revived>>
    \/ ReembedRecover

ReembedSpec == ReembedInit /\ [][ReembedNext]_all

------------------------------------------------------------------------------
(* Properties *)

\* "It prevents a re-embedding job completed after an update or forget from
\* reviving stale retrieval data": the vector of a memory is that of the content
\* it has now.  Both checks, that of store_embedding and that of restore, compare
\* version numbers, and a restore lets an update use a number again: only a run
\* that a restore overtook and a restore between two such contents get past them.
VectorFresh ==
    \A i \in Ids : embeddings[i] # None =>
        /\ Owned(embeddings[i].owner, i)
        /\ records[i].content = embeddings[i].content \/ i \in revived

------------------------------------------------------------------------------
(* The inductive invariant behind VectorFresh *)

ReembedTypeOK ==
    /\ fetched \in [Runners -> Contents \cup {None}]
    /\ crossed \subseteq Runners /\ revived \subseteq Ids

\* A run that embeds a content has a job.  Unless a restore has overtaken it, the
\* record has not come back to the version it read with another content.
ReadOf(r) ==
    LET i == jobs[running[r]].ref[1]
        v == jobs[running[r]].ref[2]
    IN /\ running[r] # NoJob /\ i \in issued
       /\ r \notin crossed /\ records[i] # None =>
            /\ records[i].version >= v
            /\ records[i].version = v => records[i].content = fetched[r]

ReadOK == \A r \in Runners : fetched[r] # None => ReadOf(r)

ReembedInv ==
    /\ CloudInv
    /\ WorkerInv
    /\ ReembedTypeOK
    /\ ReadOK
    /\ VectorFresh
==============================================================================
