--------------------------- MODULE MemoryLifecycle ---------------------------
(***************************************************************************)
(* The Memory aggregate of omp.domain: its lifecycle states, the           *)
(* transitions evolve() accepts, and the value each operation builds.      *)
(*                                                                         *)
(* A row keeps what the properties tell apart: version, content, state,    *)
(* and the write key with the fingerprint of the command that created it.  *)
(* Importance, confidence, provenance, timestamps and the descriptor of    *)
(* the embedding are data no guard of the store reads.                     *)
(***************************************************************************)
EXTENDS Naturals

CONSTANTS
    Ids,        \* memory identifiers (UUIDs)
    Contents,   \* contents a memory may hold
    Keys,       \* idempotency keys
    Null        \* None: no key, no row, field left alone

\* MemoryState
States == {"candidate", "active", "confirmed", "pinned", "stale",
           "superseded", "contradicted", "archived"}

\* RelationType; supports, derived_from and applies_to behave like related_to
RelationTypes == {"supersedes", "contradicts", "related_to"}

\* The table of Memory._assert_transition
Allowed ==
    [candidate    |-> {"confirmed", "pinned"},
     confirmed    |-> {"confirmed", "pinned", "active", "stale",
                       "superseded", "contradicted", "archived"},
     pinned       |-> {"confirmed", "pinned", "active", "stale",
                       "superseded", "contradicted", "archived"},
     stale        |-> {"confirmed", "pinned"},
     active       |-> {"active", "superseded", "contradicted", "archived"},
     contradicted |-> {"active", "confirmed"},
     archived     |-> {"active", "confirmed"},
     superseded   |-> {}]

\* Mutant: the table is not consulted.
AssertTransition_NoTable(from, target, related) ==
    target = from \/ (target \in {"superseded", "contradicted"} => related)

\* Memory._assert_transition: a state may always be kept; otherwise the table
\* decides, and superseded and contradicted need the memory they relate to.
AssertTransition(from, target, related) ==
    \/ target = from
    \/ /\ target \in Allowed[from]
       /\ target \in {"superseded", "contradicted"} => related

\* The digest of a write or capture command, up to injectivity: the two
\* commands hash different fields, so the state they start in tells them apart.
WriteFingerprint == [content : Contents, state : {"active", "candidate"}]

Row == [version : Nat \ {0},
        content : Contents,
        state   : States,
        key     : Keys \cup {Null},
        print   : WriteFingerprint]

\* MemoryVersion: one row of memory_versions
Snapshot == [id : Ids, version : Nat \ {0}, content : Contents, state : States]

\* Mutant: versions counted from zero.
Create_FromZero(content, state, key) ==
    [version |-> 0, content |-> content, state |-> state, key |-> key,
     print   |-> [content |-> content, state |-> state]]

\* Memory.create
Create(content, state, key) ==
    [version |-> 1, content |-> content, state |-> state, key |-> key,
     print   |-> [content |-> content, state |-> state]]

\* Mutant: the version is not incremented.
Evolve_SameVersion(row, content, state) ==
    [version |-> row.version, content |-> content, state |-> state,
     key |-> row.key, print |-> row.print]

\* Memory.evolve, after the transition was accepted
Evolve(row, content, state) ==
    [version |-> row.version + 1, content |-> content, state |-> state,
     key |-> row.key, print |-> row.print]

\* Memory.snapshot
SnapshotOf(id, row) ==
    [id |-> id, version |-> row.version, content |-> row.content,
     state |-> row.state]
==============================================================================
