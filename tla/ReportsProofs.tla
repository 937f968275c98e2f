----------------------------- MODULE ReportsProofs -----------------------------
(***************************************************************************)
(* Proofs about Reports, for every set of ids, keys and contents and every *)
(* size of the pool.                                                       *)
(*                                                                         *)
(* Keyed is the inductive invariant: a task that has inserted a row has    *)
(* its key for itself, because the unique index makes every other          *)
(* insertion under that key wait.                                          *)
(***************************************************************************)
EXTENDS Reports, TLAPS

CallsFit == \A t \in Tasks : pc[t] # "idle" => call[t] \in Requests

\* An uncommitted row meets no other row with its key, committed or not.
KeyOwned ==
    \A t \in Tasks : pc[t] = "inserted" =>
        /\ Existing(t) = {}
        /\ \A s \in Tasks \ {t} : pc[s] = "inserted" => ~IS!SameKey(call[s], call[t])

Keyed == TypeOK /\ CallsFit /\ KeyOwned /\ CasesMatchReports

-----------------------------------------------------------------------------
\* Keyed holds initially.
LEMMA KeyedInit == Init => Keyed
BY DEF Init, IS!Init, Keyed, TypeOK, CallsFit, KeyOwned, CasesMatchReports, Steps, store

\* What a returning task leaves as it was.
LEMMA ReturnFields ==
    ASSUME TypeOK, NEW t \in Tasks, Return(t)
    PROVE  /\ pc' \in [Tasks -> Steps]
           /\ call' \in [Tasks -> Requests \union {NoCall}]
           /\ seen' \in [Tasks -> SUBSET Rows]
           /\ pc'[t] = "idle"
           /\ \A s \in Tasks \ {t} : pc'[s] = pc[s] /\ call'[s] = call[s]
BY DEF TypeOK, Return, Goto, Steps

\* A refusal changes no row.
LEMMA RefusedKeepsKeyed ==
    ASSUME Keyed, NEW t \in Tasks, Refused(t)
    PROVE  Keyed' /\ UNCHANGED store
<1>1. /\ pc' \in [Tasks -> Steps]
      /\ call' \in [Tasks -> Requests \union {NoCall}]
      /\ seen' \in [Tasks -> SUBSET Rows]
      /\ pc'[t] = "idle"
      /\ \A s \in Tasks \ {t} : pc'[s] = pc[s] /\ call'[s] = call[s]
  BY ReturnFields DEF Keyed, Refused
<1>2. UNCHANGED <<stored, answered, cases>>
  BY DEF Refused, store
<1>3. TypeOK' /\ CallsFit' /\ CasesMatchReports'
  BY <1>1, <1>2 DEF Keyed, TypeOK, CallsFit, CasesMatchReports
<1>4. KeyOwned'
  BY <1>1, <1>2 DEF Keyed, KeyOwned, Existing, IS!SameKey
<1> QED BY <1>2, <1>3, <1>4 DEF Keyed, store

\* A step that moves one task to a position other than "inserted", and writes nothing.
LEMMA MoveKeepsKeyed ==
    ASSUME Keyed, NEW t \in Tasks, NEW q \in Requests, NEW step \in Steps \ {"inserted"},
           pc' = [pc EXCEPT ![t] = step],
           call' = [call EXCEPT ![t] = q],
           seen' \in [Tasks -> SUBSET Rows],
           UNCHANGED <<stored, answered, cases>>
    PROVE  Keyed'
<1>1. TypeOK' /\ CallsFit' /\ CasesMatchReports'
  BY DEF Keyed, TypeOK, CallsFit, CasesMatchReports
<1>2. \A s \in Tasks : pc'[s] = "inserted" => pc[s] = "inserted" /\ call'[s] = call[s]
  BY DEF Keyed, TypeOK
<1>3. KeyOwned'
  BY <1>2 DEF Keyed, KeyOwned, Existing, IS!SameKey
<1> QED BY <1>1, <1>3 DEF Keyed

\* The insertion waited for the other rows with the same key.
LEMMA InsertKeepsKeyed ==
    ASSUME Keyed, NEW t \in Tasks, Insert(t)
    PROVE  Keyed' /\ UNCHANGED store
<1>1. /\ pc[t] = "insert" /\ ~KeyBusy(t) /\ Existing(t) = {}
      /\ pc' = [pc EXCEPT ![t] = "inserted"]
      /\ UNCHANGED <<stored, answered, cases, call, seen>>
  BY DEF Insert, Goto, store
<1>2. TypeOK' /\ CallsFit' /\ CasesMatchReports'
  BY <1>1 DEF Keyed, TypeOK, CallsFit, CasesMatchReports, Steps
<1>3. \A s \in Tasks \ {t} : pc[s] = "inserted" =>
          ~IS!SameKey(call[s], call[t]) /\ ~IS!SameKey(call[t], call[s])
  BY <1>1 DEF KeyBusy, IS!SameKey
<1>4. \A s \in Tasks \ {t} : pc'[s] = pc[s]
  BY <1>1 DEF Keyed, TypeOK
<1>5. KeyOwned'
  <2> SUFFICES ASSUME NEW s \in Tasks, pc'[s] = "inserted"
               PROVE  /\ Existing(s) = {}
                      /\ \A r \in Tasks \ {s} : pc'[r] = "inserted"
                                                   => ~IS!SameKey(call[r], call[s])
    BY <1>1 DEF KeyOwned, Existing, IS!SameKey
  <2>1. CASE s = t
    BY <2>1, <1>1, <1>3, <1>4
  <2>2. CASE s # t
    BY <2>2, <1>3, <1>4 DEF Keyed, KeyOwned
  <2> QED BY <2>1, <2>2
<1> QED BY <1>1, <1>2, <1>5 DEF Keyed, store

\* The committed row has a key of its own.
LEMMA CommitKeepsKeyed ==
    ASSUME Keyed, NEW t \in Tasks, Commit(t)
    PROVE  Keyed' /\ IS!Next
<1> DEFINE q == call[t]
<1>1. PICK i \in IS!Fresh :
          /\ stored' = stored \union {[id |-> i, request |-> q]}
          /\ answered' = answered \union {[id |-> i, request |-> q]}
          /\ cases' = IF q.kind = "report" THEN cases \union {i} ELSE cases
  BY DEF Commit
<1>2. pc[t] = "inserted" /\ Return(t)
  BY DEF Commit
<1>3. /\ pc' \in [Tasks -> Steps]
      /\ call' \in [Tasks -> Requests \union {NoCall}]
      /\ seen' \in [Tasks -> SUBSET Rows]
      /\ pc'[t] = "idle"
      /\ \A s \in Tasks \ {t} : pc'[s] = pc[s] /\ call'[s] = call[s]
  BY <1>2, ReturnFields DEF Keyed
<1>4. q \in Requests /\ i \in Ids
  BY <1>1, <1>2 DEF Keyed, CallsFit, IS!Fresh
<1>5. TypeOK'
  BY <1>1, <1>3, <1>4 DEF Keyed, TypeOK, Rows
<1>6. CallsFit'
  BY <1>3 DEF Keyed, CallsFit
<1>7. KeyOwned'
  <2> SUFFICES ASSUME NEW s \in Tasks, pc'[s] = "inserted"
               PROVE  /\ {row \in stored' : IS!SameKey(row.request, call[s])} = {}
                      /\ \A r \in Tasks \ {s} : pc'[r] = "inserted"
                                                   => ~IS!SameKey(call'[r], call[s])
    BY <1>3 DEF KeyOwned, Existing, IS!SameKey
  <2>1. s # t /\ pc[s] = "inserted" /\ ~IS!SameKey(q, call[s])
    BY <1>2, <1>3 DEF Keyed, KeyOwned
  <2>2. \A row \in stored : ~IS!SameKey(row.request, call[s])
    BY <2>1 DEF Keyed, KeyOwned, Existing
  <2>3. \A row \in stored' : ~IS!SameKey(row.request, call[s])
    BY <1>1, <2>1, <2>2
  <2>4. ASSUME NEW r \in Tasks \ {s}, pc'[r] = "inserted"
        PROVE  ~IS!SameKey(call'[r], call[s])
    <3>1. r # t /\ pc[r] = "inserted" /\ call'[r] = call[r]
      BY <1>3, <2>4
    <3> QED BY <2>1, <3>1 DEF Keyed, KeyOwned
  <2> QED BY <2>3, <2>4
<1>8. CasesMatchReports'
  <2> DEFINE reports == {r \in stored : r.request.kind = "report"}
             row == [id |-> i, request |-> q]
  <2>1. row.id = i /\ row.request.kind = q.kind
    OBVIOUS
  <2>2. CASE q.kind = "report"
    <3>1. {r \in stored' : r.request.kind = "report"} = reports \union {row}
      BY <2>1, <2>2, <1>1
    <3>2. {r.id : r \in reports \union {row}} = {r.id : r \in reports} \union {i}
      BY <2>1
    <3> QED BY <3>1, <3>2, <2>2, <1>1 DEF Keyed, CasesMatchReports
  <2>3. CASE q.kind # "report"
    <3>1. {r \in stored' : r.request.kind = "report"} = reports
      BY <2>1, <2>3, <1>1
    <3> QED BY <3>1, <2>3, <1>1 DEF Keyed, CasesMatchReports
  <2> QED BY <2>2, <2>3
<1>9. \A row \in stored : ~IS!SameKey(row.request, q)
  BY <1>2 DEF Keyed, KeyOwned, Existing
<1>10. IS!Put(q)
  BY <1>1, <1>9 DEF IS!Put
<1> QED BY <1>4, <1>5, <1>6, <1>7, <1>8, <1>10 DEF Keyed, IS!Next

\* A repetition answers with a row that was there.
LEMMA RepeatKeepsKeyed ==
    ASSUME Keyed, NEW t \in Tasks, Repeat(t)
    PROVE  Keyed' /\ IS!Next
<1> DEFINE q == call[t]
<1>1. PICK row \in Existing(t) : row.request = q /\ answered' = answered \union {row}
  BY DEF Repeat
<1>2. pc[t] = "duplicate" /\ Return(t) /\ UNCHANGED <<stored, cases>>
  BY DEF Repeat
<1>3. /\ pc' \in [Tasks -> Steps]
      /\ call' \in [Tasks -> Requests \union {NoCall}]
      /\ seen' \in [Tasks -> SUBSET Rows]
      /\ pc'[t] = "idle"
      /\ \A s \in Tasks \ {t} : pc'[s] = pc[s] /\ call'[s] = call[s]
  BY <1>2, ReturnFields DEF Keyed
<1>4. row \in stored /\ q.key # NoKey /\ q \in Requests
  BY <1>1, <1>2 DEF Existing, IS!SameKey, Keyed, CallsFit
<1>5. TypeOK' /\ CallsFit' /\ CasesMatchReports'
  BY <1>1, <1>2, <1>3, <1>4 DEF Keyed, TypeOK, CallsFit, CasesMatchReports
<1>6. KeyOwned'
  BY <1>2, <1>3 DEF Keyed, KeyOwned, Existing, IS!SameKey
<1>7. IS!Repeat(q)
  BY <1>1, <1>2, <1>4 DEF IS!Repeat
<1> QED BY <1>4, <1>5, <1>6, <1>7 DEF Keyed, IS!Next

\* Every step keeps Keyed, and is an operation of IdempotentStore or none.
LEMMA KeyedStep == Keyed /\ [Next]_vars => Keyed' /\ [IS!Next]_(IS!store)
<1> SUFFICES ASSUME Keyed, [Next]_vars PROVE Keyed' /\ [IS!Next]_(IS!store)
  OBVIOUS
<1>1. CASE UNCHANGED vars
  BY <1>1 DEF Keyed, TypeOK, CallsFit, KeyOwned, CasesMatchReports, Existing, IS!SameKey,
     vars, store, IS!store
<1>2. CASE Next
  <2> PICK t \in Tasks : \/ \E q \in Requests : Begin(t, q)
                         \/ Step(t) \/ Timeout(t) \/ Abort(t)
    BY <1>2 DEF Next
  <2>1. CASE \/ Timeout(t) \/ Abort(t) \/ NotVisible(t) \/ SerializationFailure(t)
             \/ NoIds(t) \/ Misused(t)
    <3>1. Refused(t)
      BY <2>1 DEF Timeout, Abort, NotVisible, SerializationFailure, NoIds, Misused
    <3> QED BY <3>1, RefusedKeepsKeyed DEF store, IS!store
  <2>2. ASSUME NEW q \in Requests, Begin(t, q) PROVE Keyed' /\ UNCHANGED store
    BY <2>2, MoveKeepsKeyed DEF Begin, Goto, store, Steps, Keyed, TypeOK
  <2>3. CASE Acquire(t) \/ AcquireSecond(t) \/ Visible(t) \/ Conflict(t)
    <3>1. call[t] \in Requests /\ call = [call EXCEPT ![t] = call[t]]
      BY <2>3 DEF Acquire, AcquireSecond, Visible, Conflict, Keyed, CallsFit, TypeOK
    <3>2. PICK step \in Steps \ {"inserted"} : pc' = [pc EXCEPT ![t] = step]
      BY <2>3 DEF Acquire, AcquireSecond, Visible, Conflict, Goto, Steps
    <3>3. seen' \in [Tasks -> SUBSET Rows] /\ UNCHANGED <<stored, answered, cases, call>>
      BY <2>3 DEF Acquire, AcquireSecond, Visible, Conflict, Keyed, TypeOK, store
    <3>4. Keyed'
      BY <3>1, <3>2, <3>3, MoveKeepsKeyed
    <3> QED BY <3>3, <3>4 DEF IS!store
  <2>4. CASE Insert(t)
    BY <2>4, InsertKeepsKeyed DEF store, IS!store
  <2>5. CASE Commit(t)
    BY <2>5, CommitKeepsKeyed
  <2>6. CASE Repeat(t)
    BY <2>6, RepeatKeepsKeyed
  <2> QED BY <2>1, <2>2, <2>3, <2>4, <2>5, <2>6 DEF Step, store, IS!store
<1> QED BY <1>1, <1>2

\* Keyed holds of every reachable state.
LEMMA AlwaysKeyed == Spec => []Keyed
BY KeyedInit, KeyedStep, PTL DEF Spec

-----------------------------------------------------------------------------
(* The results.                                                            *)

\* Rows, answers and positions keep their types.
THEOREM TypeCorrect == Spec => []TypeOK
<1>1. Keyed => TypeOK
  BY DEF Keyed
<1> QED BY <1>1, AlwaysKeyed, PTL

\* Cases and reports come and stay in pairs.
THEOREM CasesPaired == Spec => []CasesMatchReports
<1>1. Keyed => CasesMatchReports
  BY DEF Keyed
<1> QED BY <1>1, AlwaysKeyed, PTL

\* The overlapping requests implement a store that keeps each request once.
THEOREM Implements == Spec => ImplementsIdempotentStore
<1>1. Init => IS!Init
  BY DEF Init
<1> QED BY <1>1, AlwaysKeyed, KeyedStep, PTL DEF Spec, ImplementsIdempotentStore, IS!Spec
=============================================================================
