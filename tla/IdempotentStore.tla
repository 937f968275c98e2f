--------------------------- MODULE IdempotentStore ---------------------------
(***************************************************************************)
(* What the service promises about reports and moderation signals: a       *)
(* request is stored once, and every answer to a request with the same     *)
(* idempotency key names that row and has its content.  Reports refines    *)
(* this specification.                                                     *)
(***************************************************************************)
CONSTANTS Ids,        \* row ids; each is given out once
          Requests,   \* records with a kind, a key and a content
          NoKey       \* a report may come without a key

VARIABLES stored,     \* committed rows: an id and the request it stores
          answered    \* successful responses: a request and the row's id

store == <<stored, answered>>

SameKey(q, r) == q.kind = r.kind /\ q.key = r.key /\ q.key # NoKey

Fresh == Ids \ {row.id : row \in stored}

Init == stored = {} /\ answered = {}

Put(q) == /\ \A row \in stored : ~SameKey(row.request, q)
          /\ \E i \in Fresh :
                /\ stored' = stored \union {[id |-> i, request |-> q]}
                /\ answered' = answered \union {[id |-> i, request |-> q]}

Repeat(q) == \E row \in stored :
                /\ q.key # NoKey
                /\ row.request = q
                /\ answered' = answered \union {row}
                /\ UNCHANGED stored

Next == \E q \in Requests : Put(q) \/ Repeat(q)

Spec == Init /\ [][Next]_store
=============================================================================
