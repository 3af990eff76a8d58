-------------------------- MODULE EmbeddingProfiles --------------------------
(***************************************************************************)
(* The semantic vector table of the PostgreSQL store and the job that      *)
(* moves an owner from the hash profile (64 dimensions) to the semantic    *)
(* one (384): EmbeddingReembeddingJob and the methods it calls.            *)
(*                                                                         *)
(* A request of the service writes row and vector in one transaction that  *)
(* compares versions (MemoryStore), so here it is one action.  The job     *)
(* reads a page, and for every memory of it awaits the provider, checks    *)
(* the version and upserts in statements of their own; its upserts are     *)
(* uncommitted until the page ends.  A vector is the content it was made   *)
(* from.  There is one profile of each dimension; the rows of the hash     *)
(* profile, which the job neither reads nor writes, are left out.          *)
(***************************************************************************)
EXTENDS Naturals, FiniteSets, FiniteSetsExt

CONSTANTS
    MaxId,          \* bound: memories ever written; UUIDs compare like 1..MaxId
    Contents,
    BatchSize,
    MaxVersion,     \* bound: versions of a memory
    MaxRuns,        \* bound: runs of the job
    MaxSwitches,    \* bound: restarts of the service with the other provider
    Absent

Ids == 1..MaxId
Dimensions == {64, 384}

\* What the job and the tables keep of a memories row
Memory == [version : 1..MaxVersion, content : Contents, dimension : Dimensions]

\* A row of memory_embeddings_semantic
Vector == [source : 1..MaxVersion, content : Contents]

\* A memory of the page the job is working on, as list_for_reembedding read it
Candidate == [id : Ids, version : 1..MaxVersion, content : Contents]

ASSUME ProfileAssumption ==
    /\ MaxId \in Nat /\ BatchSize \in Nat \ {0}
    /\ MaxVersion \in Nat \ {0} /\ MaxRuns \in Nat /\ MaxSwitches \in Nat
    /\ Absent \notin Memory \cup Vector \cup Contents

VARIABLES
    rows,       \* memories
    semantic,   \* memory_embeddings_semantic
    issued,     \* identifiers uuid4() has returned
    runtime,    \* dimension of the provider the service runs with
    switches,
    step,       \* where the job stands
    cursor,     \* its last memory identifier, 0 for none
    page,       \* candidates of the current page it has not dealt with
    full,       \* the page had batch_size candidates
    pending,    \* its uncommitted upserts
    broken,     \* a statement failed: PostgreSQL will not commit the page
    failures,   \* history variable: some candidate failed
    due,        \* history variable: what the run must cover
    eligible,   \* first count of semantic_coverage, 0 outside of it
    runs

tables   == <<rows, semantic, issued>>
service  == <<runtime, switches>>
position == <<cursor, page, full>>
report   == <<failures, eligible, runs>>
profiles == <<tables, service, step, position, pending, broken, due, report>>

ProfileTypeOK ==
    /\ rows \in [Ids -> Memory \cup {Absent}]
    /\ semantic \in [Ids -> Vector \cup {Absent}]
    /\ issued \subseteq Ids
    /\ runtime \in Dimensions /\ switches \in 0..MaxSwitches
    /\ step \in {"idle", "list", "check", "upsert", "count", "recount", "cutover", "done"}
    /\ cursor \in 0..MaxId
    /\ page \subseteq Candidate /\ full \in BOOLEAN
    /\ pending \in [Ids -> Vector \cup {Absent}]
    /\ broken \in BOOLEAN /\ failures \in BOOLEAN
    /\ due \subseteq Ids
    /\ eligible \in 0..MaxId
    /\ runs \in 0..MaxRuns

NoUpserts == [i \in Ids |-> Absent]

ProfileInit ==
    /\ rows = [i \in Ids |-> Absent]
    /\ semantic = [i \in Ids |-> Absent]
    /\ issued = {}
    /\ runtime = 64 /\ switches = 0
    /\ step = "idle"
    /\ cursor = 0 /\ page = {} /\ full = FALSE
    /\ pending = NoUpserts /\ broken = FALSE
    /\ due = {}
    /\ failures = FALSE /\ eligible = 0 /\ runs = 0

------------------------------------------------------------------------------
(* The service, with the provider it was started with *)

\* repository.create: the row, and the vector in the table of the runtime profile
Write(i, c) ==
    /\ i \in Ids \ issued
    /\ issued' = issued \cup {i}
    /\ rows' = [rows EXCEPT ![i] = [version |-> 1, content |-> c, dimension |-> runtime]]
    /\ semantic' = IF runtime = 384
                   THEN [semantic EXCEPT ![i] = [source |-> 1, content |-> c]]
                   ELSE semantic
    /\ UNCHANGED <<service, step, position, pending, broken, due, report>>

\* The descriptor an update stores is that of the runtime profile.
Updated(r, c) == [version |-> r.version + 1, content |-> c, dimension |-> runtime]

\* repository.update: the vector is an UPDATE of the runtime profile's table; a
\* memory without a row there gets none.  It waits for an upsert of the same
\* vector that the job has not committed.
Update(i, c) ==
    LET r == rows[i] IN
    /\ r # Absent /\ r.version < MaxVersion
    /\ runtime = 384 /\ semantic[i] # Absent => pending[i] = Absent
    /\ rows' = [rows EXCEPT ![i] = Updated(r, c)]
    /\ semantic' = IF runtime = 384 /\ semantic[i] # Absent
                   THEN [semantic EXCEPT ![i] = [source |-> r.version + 1, content |-> c]]
                   ELSE semantic
    /\ due' = due \ {i}
    /\ UNCHANGED <<issued, service, step, position, pending, broken, report>>

\* repository.forget: the vectors go with the row.  The DELETE waits for the
\* foreign key of an upsert the job has not committed.
Forget(i) ==
    /\ rows[i] # Absent /\ pending[i] = Absent
    /\ rows' = [rows EXCEPT ![i] = Absent]
    /\ semantic' = [semantic EXCEPT ![i] = Absent]
    /\ due' = due \ {i}
    /\ UNCHANGED <<issued, service, step, position, pending, broken, report>>

\* The service restarts with the other provider: a switch, or its rollback.
Switch ==
    /\ switches < MaxSwitches
    /\ runtime' \in Dimensions \ {runtime}
    /\ switches' = switches + 1
    /\ UNCHANGED <<tables, step, position, pending, broken, due, report>>

------------------------------------------------------------------------------
(* The job *)

\* The conditions of list_for_reembedding and semantic_coverage
Eligible(i) == rows[i] # Absent /\ rows[i].dimension = 64
Covered(i) == semantic[i] # Absent /\ rows[i] # Absent /\ semantic[i].source = rows[i].version

\* run() is called, from the start or with a resume_after.
StartJob ==
    /\ step \in {"idle", "done"} /\ runs < MaxRuns
    /\ runs' = runs + 1
    /\ cursor' \in {0} \cup issued
    /\ due' = {i \in Ids : i > cursor' /\ Eligible(i)}
    /\ failures' = FALSE
    /\ step' = "list"
    /\ UNCHANGED <<tables, service, page, full, pending, broken, eligible>>

\* list_for_reembedding: the first batch_size eligible memories past the cursor
Page(from) ==
    LET past == {i \in Ids : i > from /\ Eligible(i)}
        taken == {i \in past : Cardinality({j \in past : j <= i}) <= BatchSize}
    IN {[id |-> i, version |-> rows[i].version, content |-> rows[i].content] : i \in taken}

\* Mutant: a full page counts as the last one.
MorePages_Strict(found) == Cardinality(found) > BatchSize

\* "if len(candidates) < batch_size: break"
MorePages(found) == Cardinality(found) >= BatchSize

\* Mutant: the cursor is not moved.
NextCursor_Stuck(found) == cursor

\* "cursor = candidates[-1].id", which nothing reads before the page ends
NextCursor(found) == Max({c.id : c \in found})

ListPage ==
    LET found == Page(cursor) IN
    /\ step = "list"
    /\ page' = found
    /\ full' = MorePages(found)
    /\ \/ found # {} /\ cursor' = NextCursor(found) /\ step' = "check"
       \/ found = {} /\ step' = "count" /\ UNCHANGED cursor
    /\ UNCHANGED <<tables, service, pending, broken, due, report>>

\* The candidates are taken in the order of the page.
Current == CHOOSE c \in page : \A d \in page : c.id <= d.id

\* The provider raised, or the transaction is broken: the candidate failed.
SkipFailed ==
    /\ step = "check" /\ page # {}
    /\ page' = page \ {Current}
    /\ failures' = TRUE
    /\ UNCHANGED <<tables, service, step, cursor, full, pending, broken, due,
                   eligible, runs>>

\* upsert_embedding_profile: the version check.  A memory that changed is stale.
CheckVersion ==
    LET r == rows[Current.id]
        unchanged == r # Absent /\ r.version = Current.version
    IN /\ step = "check" /\ page # {} /\ ~broken
       /\ \/ unchanged /\ step' = "upsert" /\ UNCHANGED page
          \/ ~unchanged /\ page' = page \ {Current} /\ UNCHANGED step
       /\ UNCHANGED <<tables, service, cursor, full, pending, broken, due, report>>

\* Mutant: the vector is labelled with the version the memory has by now.
VectorOf_Relabelled(c) == [source |-> rows[c.id].version, content |-> c.content]

\* The vector carries the version it was computed from.
VectorOf(c) == [source |-> c.version, content |-> c.content]

\* ... then INSERT ... ON CONFLICT DO UPDATE.  When the memory is gone its
\* foreign key fails, and with it every later statement of the transaction.
Upsert ==
    LET c == Current IN
    /\ step = "upsert"
    /\ \/ /\ rows[c.id] # Absent
          /\ pending' = [pending EXCEPT ![c.id] = VectorOf(c)]
          /\ UNCHANGED <<broken, failures>>
       \/ /\ rows[c.id] = Absent
          /\ broken' = TRUE /\ failures' = TRUE
          /\ UNCHANGED pending
    /\ page' = page \ {c}
    /\ step' = "check"
    /\ UNCHANGED <<tables, service, cursor, full, due, eligible, runs>>

\* The page ends: its transaction commits, or is rolled back when it is broken.
EndPage ==
    /\ step = "check" /\ page = {}
    /\ semantic' = IF broken THEN semantic
                   ELSE [i \in Ids |-> IF pending[i] # Absent THEN pending[i] ELSE semantic[i]]
    /\ full' = FALSE
    /\ pending' = NoUpserts /\ broken' = FALSE
    /\ step' = IF full THEN "list" ELSE "count"
    /\ UNCHANGED <<rows, issued, service, cursor, page, due, report>>

\* semantic_coverage: two counts, in two statements
CountEligible ==
    /\ step = "count"
    /\ eligible' = Cardinality({i \in Ids : Eligible(i)})
    /\ step' = "recount"
    /\ UNCHANGED <<tables, service, position, pending, broken, due, failures, runs>>

\* cutover_embedding_profile raises when the counts differ; a run without
\* cutover ends here as well.
CountCovered ==
    LET covered == Cardinality({i \in Ids : Eligible(i) /\ Covered(i)}) IN
    /\ step = "recount"
    /\ step' \in IF covered = eligible THEN {"cutover", "done"} ELSE {"done"}
    /\ eligible' = 0
    /\ UNCHANGED <<tables, service, position, pending, broken, due, failures, runs>>

\* The UPDATE of every memory that still has the hash profile
Cutover ==
    /\ step = "cutover"
    /\ rows' = [i \in Ids |-> IF Eligible(i) THEN [rows[i] EXCEPT !.dimension = 384] ELSE rows[i]]
    /\ step' = "done"
    /\ UNCHANGED <<semantic, issued, service, position, pending, broken, due, report>>

\* The job is killed; its open transaction is rolled back.
KillJob ==
    /\ step \notin {"idle", "done"}
    /\ step' = "idle"
    /\ cursor' = 0 /\ page' = {} /\ full' = FALSE
    /\ pending' = NoUpserts /\ broken' = FALSE
    /\ due' = {} /\ failures' = FALSE /\ eligible' = 0
    /\ UNCHANGED <<tables, service, runs>>

------------------------------------------------------------------------------
JobStep ==
    \/ ListPage \/ SkipFailed \/ CheckVersion \/ Upsert \/ EndPage
    \/ CountEligible \/ CountCovered \/ Cutover

ServiceStep ==
    \/ \E i \in Ids : Forget(i) \/ \E c \in Contents : Write(i, c) \/ Update(i, c)
    \/ Switch

ProfileNext == ServiceStep \/ StartJob \/ JobStep \/ KillJob

ProfileSpec == ProfileInit /\ [][ProfileNext]_profiles

\* The job's coroutine is scheduled and its provider answers.
FairProfileSpec == ProfileSpec /\ WF_profiles(JobStep)

------------------------------------------------------------------------------
(* Properties *)

\* A semantic vector that search accepts (its source_version is the version of
\* the memory) was made from the content the memory has now, whatever was
\* updated between the job's read, its version check and its commit
\* (search_candidates, upsert_embedding_profile, repository.update).
SemanticFresh ==
    /\ ProfileTypeOK
    /\ \A i \in Ids : Covered(i) => semantic[i].content = rows[i].content

\* A run without failures covers every memory that was eligible past its cursor
\* when it started and was left alone since: pages neither skip nor stop early
\* (EmbeddingReembeddingJob.run, list_for_reembedding).
RunCovers ==
    step \in {"count", "recount", "cutover", "done"} /\ ~failures =>
        \A i \in due : Covered(i)

\* Every run of the job ends, also while memories are written and updated.
EveryRunEnds == step = "list" ~> step \in {"idle", "done"}

\* "só altera o profile corrente no cutover após cobertura completa": every
\* memory a cutover moves has a current semantic vector.
CutoverCovered ==
    [][Cutover => \A i \in Ids : Eligible(i) => Covered(i)]_profiles

------------------------------------------------------------------------------
(* The inductive invariant behind SemanticFresh and RunCovers *)

\* A version and a content that memory i had, if it is still there
Was(i, version, content) ==
    /\ version <= rows[i].version
    /\ version = rows[i].version => content = rows[i].content

\* Vectors, committed or not, belong to a memory and are no newer than it is.
VectorsOK ==
    \A i \in Ids :
        /\ rows[i] # Absent => i \in issued
        /\ semantic[i] # Absent =>
             rows[i] # Absent /\ Was(i, semantic[i].source, semantic[i].content)
        /\ pending[i] # Absent =>
             rows[i] # Absent /\ Was(i, pending[i].source, pending[i].content)

\* A page has each memory once, as it was when the page was read.
PageOK ==
    /\ \A c \in page :
         c.id \in issued /\ (rows[c.id] # Absent => Was(c.id, c.version, c.content))
    /\ \A c, d \in page : c.id = d.id => c = d

\* A transaction is open only while a page is worked on.
JobOK ==
    /\ step = "upsert" => page # {}
    /\ broken => failures
    /\ step \notin {"check", "upsert"} => page = {} /\ pending = NoUpserts /\ ~broken

\* The memory has its vector, or will get it: from the open transaction, from
\* the page or from a later one.
WillCover(i) ==
    \/ Covered(i)
    \/ pending[i] # Absent
    \/ \E c \in page : c.id = i
    \/ i > cursor /\ (step = "list" \/ (step \in {"check", "upsert"} /\ full))

\* What a run must cover has not changed since it started.
DueOK ==
    \A i \in due :
        /\ rows[i] # Absent
        /\ step \in {"list", "check", "upsert"} => Eligible(i)
        /\ \A c \in page : c.id = i => c.version = rows[i].version
        /\ pending[i] # Absent => pending[i].source = rows[i].version
        /\ ~failures => WillCover(i)

ProfileInv ==
    /\ ProfileTypeOK
    /\ VectorsOK
    /\ PageOK
    /\ JobOK
    /\ DueOK
==============================================================================
