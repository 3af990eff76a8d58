----------------------------- MODULE MCM1Gateway -----------------------------
(* One connection of each of two tenants.  A lesson and a mental note are      *)
(* captured in one space; an update moves the lesson to the other.           *)
EXTENDS M1Gateway

CONSTANTS
    a1, b1,                 \* connections
    i1, i2, ka, ka2, kb,
    lesson, moved, note     \* contents

Principals ==
    [c \in Connections |->
       [tenant |-> IF c = b1 THEN "B" ELSE "A",
        scopes |-> {"memory:read", "memory:write", "memory:delete"},
        spaces |-> {"Work", "MBA"}]]

KeyTenant  == [k \in Keys |-> IF k = kb THEN "B" ELSE "A"]
TextSpace  == [c \in Contents |-> IF c = moved THEN "MBA" ELSE "Work"]
TextKind   == [c \in Contents |-> IF c = note THEN "mental_note" ELSE "lesson"]
Relevance  == [c \in Contents |-> CASE c = lesson -> 3 [] c = note -> 2 [] OTHER -> 1]
Closest    == [c \in Contents |-> IF c = note THEN 2 ELSE 1]
Order      == [i \in Ids |-> IF i = i1 THEN 1 ELSE 2]

Tool(op, id, ev, key, content, state) ==
    [op |-> op, id |-> id, ev |-> ev, key |-> key, content |-> content,
     state |-> state, other |-> Null, rel |-> Null]

GatewayCommands ==
    {Tool("write", Null, 0, ka, lesson, "candidate"), Tool("write", Null, 0, ka2, note, "candidate"),
     Tool("write", Null, 0, kb, note, "candidate"),
     Tool("update", i1, 2, ka, moved, Null), Tool("pin", i1, 2, ka, Null, "confirmed"),
     Tool("confirm", i1, 1, ka, Null, Null), Tool("discard", i1, 1, ka, Null, Null)}
    \cup {Tool("forget", i1, 0, k, Null, Null) : k \in {ka, kb}}

Recalls ==
    [context : {"Work"}, include : {<<>>, <<"Work", "MBA">>}, kinds : {{}},
     states : {{"candidate", "confirmed"}}, notes : BOOLEAN, limit : {1}, threshold : {1},
     candidates : {2}]
    \cup [context : {"Work"}, include : {<<>>}, kinds : {{}},
          states : {{}, {"candidate", "confirmed"}}, notes : {FALSE}, limit : {1}, threshold : {1},
          candidates : {1}]
==============================================================================
