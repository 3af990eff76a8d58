--------------------------- MODULE StoreRefinement ---------------------------
(* MemoryStore implements AtomicStore: the tables are the abstract store. *)
EXTENDS MemoryStore

\* The five tables are the abstract store; requests and their uncommitted
\* effects have no counterpart in it.
Atomic == INSTANCE AtomicStore WITH
    memories   <- memories,
    versions   <- versions,
    relations  <- relations,
    tombstones <- tombstones,
    ledger     <- ledger

\* Requests that run beside each other over PostgreSQL change the tables as if
\* each ran alone on the store of the unit tests, in the order of their commits:
\* what was read in earlier statements, or in tables without a lock, still holds
\* when it is committed (services.write, update, confirm_candidate, forget,
\* relate; repository.update, create, add_relation, forget).
ImplementsAtomic == Atomic!AtomicSpec

------------------------------------------------------------------------------
(* What the open transactions add to StoreInv and LedgerInv *)

\* A discard, or a pin that changes nothing, whose memory is not any more as it
\* was read: it is ordered where it read and not where it commits.
Outdated(c) ==
    /\ cmd[c].op = "discard" \/ (cmd[c].op = "pin" /\ effect[c].kind = "none")
    /\ ~Permits(cmd[c], memories[cmd[c].id])

\* The commits of all other operations, and of the discards and pins whose
\* memory is as it was read, each change the tables as one step of the store of
\* the unit tests does, whatever the commands are.
AtomicUnlessOutdated ==
    /\ Atomic!AtomicInit
    /\ [][Atomic!AtomicNext \/ \E c \in Clients : Commit(c) /\ Outdated(c)]_tables

\* A client executes a command that was sent; a write carries its new identifier.
SentOK(c) ==
    cmd[c] # Null =>
        IF cmd[c].op # "write" THEN cmd[c] \in Commands
        ELSE \E k \in Commands : /\ k.op = "write" /\ k.content = cmd[c].content
                                 /\ k.state = cmd[c].state /\ k.key = cmd[c].key

\* The row an update stores is evolved from the one that is still there.
EvolvesOK(c) ==
    LET k == cmd[c] IN
    /\ seen[c] # Null => Permits(k, seen[c])
    /\ pc[c] = "write" /\ k.op = "pin" => seen[c].state # k.state
    /\ effect[c].kind = "insert" => effect[c].row = Create(k.content, k.state, k.key)
    /\ effect[c].kind = "update" =>
         /\ k.op \in {"update", "confirm", "pin"} /\ seen[c] # Null
         /\ memories[k.id] = seen[c]
         /\ effect[c].row = Evolve(seen[c], NewContent(k, seen[c]), Target(k, seen[c]))
         /\ k.op = "pin" => seen[c].state # k.state

\* A transaction that has made its writes has made all of them.
WritesOK(c) ==
    LET k == cmd[c]
        e == effect[c]
    IN /\ e.rels \cap relations = {}
       /\ pc[c] \in {"complete", "commit"} =>
            /\ e.rels = Atomic!NewRelations(k)
            /\ k.op = "write" <=> e.kind = "insert"
            /\ k.op \in {"update", "confirm"} => e.kind = "update"
            /\ k.op = "pin" =>
                 e.kind = "update" \/ (e.kind = "none" /\ seen[c] # Null /\ seen[c].state = k.state)
            /\ k.op = "relate" => e.kind = "none"
            /\ k.op \in {"forget", "discard"} =>
                 e.kind = "delete" \/ (e.kind = "none" /\ memories[k.id] = Null)

\* The ledger row a transaction will commit
Outcome(c) ==
    LET returned == IF effect[c].kind = "update" THEN effect[c].row ELSE seen[c]
        absent == IF effect[c].kind = "delete" THEN "forgotten" ELSE "already_absent"
    IN IF cmd[c].op \in {"forget", "discard"}
       THEN Atomic!Completed(cmd[c], absent, 0, Null)
       ELSE Atomic!Completed(cmd[c], "updated", returned.version, returned)

OutcomeOK(c) ==
    /\ entry[c] # Null /\ pc[c] # "replay" =>
         entry[c] = IF pc[c] = "commit" THEN Outcome(c) ELSE InProgress(cmd[c])
    /\ pc[c] = "commit" /\ cmd[c].op \in LedgerOps /\ cmd[c].key # Null => entry[c] # Null

\* Nobody else has heard of the identifier of an open write, and no two
\* transactions add the same relation.
NamesApart(c, d) ==
    /\ cmd[c] # Null /\ cmd[d] # Null /\ cmd[c].op = "write" => cmd[c].id # cmd[d].id
    /\ effect[c].rels \cap effect[d].rels = {}

RefinementInv ==
    /\ \A c \in Clients : SentOK(c) /\ EvolvesOK(c) /\ WritesOK(c) /\ OutcomeOK(c)
    /\ \A c, d \in Clients : c # d => NamesApart(c, d)
==============================================================================
