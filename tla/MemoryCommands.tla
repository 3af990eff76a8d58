--------------------------- MODULE MemoryCommands ---------------------------
(***************************************************************************)
(* The commands of MemoryApplicationService, what they ask of a memory,    *)
(* and the rows of the relation and idempotency tables.                    *)
(***************************************************************************)
EXTENDS MemoryLifecycle

CONSTANT Commands    \* the commands clients may send, any number of times

\* IdempotencyOperationType
LedgerOps == {"update", "confirm", "pin", "discard", "forget"}
Ops == LedgerOps \cup {"write", "relate"}

Command ==
    [op      : Ops,
     id      : Ids \cup {Null},       \* chosen by uuid4() for a write
     ev      : Nat,                   \* expected_version
     key     : Keys \cup {Null},
     content : Contents \cup {Null},
     state   : States \cup {Null},
     other   : Ids \cup {Null},       \* related memory
     rel     : RelationTypes \cup {Null}]

\* What the command dataclasses and the service's first checks guarantee.
\* A capture is a write whose memory starts as a candidate.
WellFormed(k) ==
    /\ k.op = "write" => /\ k.content \in Contents
                         /\ k.state \in {"active", "candidate"}
    /\ k.op # "write" => k.id \in Ids
    /\ k.op \in {"confirm", "pin", "discard"} => k.key \in Keys
    /\ k.op = "pin" => k.state \in {"pinned", "confirmed"}
    /\ k.op = "relate" => /\ k.key = Null
                          /\ k.rel \in RelationTypes
                          /\ k.other \in Ids \ {k.id}
    /\ k.op = "update" => /\ k.rel \in {Null, "supersedes", "contradicts"}
                          /\ k.rel = Null <=> k.other = Null
    /\ k.op \notin {"update", "relate"} => k.rel = Null

\* A row of idempotency_operations.  "print" is the fingerprint, the command
\* without its key; the result "updated" stands for the state a confirm or pin
\* records as well; "answer" is a history variable: the memory the first
\* execution returned.
Entry == [print   : Command,
          status  : {"in_progress", "completed"},
          id      : Ids,
          version : Nat,              \* 0 for NULL
          result  : {"none", "updated", "forgotten", "already_absent"},
          answer  : Row \cup {Null}]

Relation == [source : Ids, target : Ids, type : RelationTypes]

ASSUME StoreAssumption ==
    /\ Null \notin Ids \cup Contents \cup Keys \cup States \cup RelationTypes
    /\ Null \notin Row /\ Null \notin Command /\ Null \notin Entry
    /\ \A k \in Commands : k \in Command /\ WellFormed(k)

LedgerKeys == LedgerOps \X Keys
LedgerKey(k) == <<k.op, k.key>>

\* fingerprint_update_command and its siblings, up to injectivity
Fingerprint(k) == [k EXCEPT !.key = Null]

\* The row claim() stores
InProgress(k) ==
    [print |-> Fingerprint(k), status |-> "in_progress", id |-> k.id,
     version |-> 0, result |-> "none", answer |-> Null]

\* The state an update with supersedes_memory_id or contradicts_memory_id asks for
LinkedState == [supersedes |-> "superseded", contradicts |-> "contradicted"]

Target(k, row) ==
    IF k.rel \in DOMAIN LinkedState THEN LinkedState[k.rel]
    ELSE IF k.op = "confirm" THEN "confirmed"
    ELSE IF k.state = Null THEN row.state ELSE k.state

NewContent(k, row) ==
    IF k.op = "pin" \/ k.content = Null THEN row.content ELSE k.content

\* The checks of each operation on the memory it got
Permits(k, row) ==
    /\ row # Null
    /\ k.op # "relate" => row.version = k.ev
    /\ k.op = "confirm" => row.state \in {"candidate", "stale"}
    /\ k.op = "pin"     => row.state \in {"confirmed", "pinned"}
    /\ k.op = "discard" => row.state = "candidate"
    /\ k.op \in {"update", "confirm", "pin"} =>
         AssertTransition(row.state, Target(k, row), k.other # Null)
==============================================================================
