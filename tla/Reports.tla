------------------------------- MODULE Reports -------------------------------
(***************************************************************************)
(* Reports of users and signals of classifiers, which open cases and carry *)
(* idempotency keys: create_report and create_signal.  A task is one       *)
(* in-flight request; the connections it holds follow from its position.   *)
(*                                                                         *)
(* create_report runs REPEATABLE READ on one connection of the pool and    *)
(* checks that its target is visible on another one, while it keeps the    *)
(* first.  create_signal runs READ COMMITTED and checks before it begins.  *)
(***************************************************************************)
EXTENDS Naturals, FiniteSets

CONSTANTS Ids, Keys, NoKey, Contents, Tasks,
          PoolSize    \* 10 in the code

ASSUME NoKeyAssumption == NoKey \notin Keys
ASSUME PoolAssumption == PoolSize \in Nat \ {0}

\* A content is everything an exact retry repeats: the target, the category, the
\* evidence and so on.
Requests ==      [kind : {"report"}, key : Keys \union {NoKey}, content : Contents]
          \union [kind : {"signal"}, key : Keys, content : Contents]
NoCall == [kind |-> "none"]

VARIABLES stored,    \* committed rows of moderation_reports and moderation_signals
          cases,     \* committed rows of moderation_cases, named by their report
          answered,  \* successful responses
          pc, call,  \* task -> position, request served
          seen       \* task -> the snapshot of its transaction

store == <<stored, answered>>
vars == <<store, cases, pc, call, seen>>

IS == INSTANCE IdempotentStore

Rows == [id : Ids, request : Requests]
Steps == {"idle", "waiting", "visible", "checking", "insert", "inserted", "duplicate"}

TypeOK == /\ stored \subseteq Rows
          /\ answered \subseteq Rows
          /\ cases \subseteq Ids
          /\ pc \in [Tasks -> Steps]
          /\ call \in [Tasks -> Requests \union {NoCall}]
          /\ seen \in [Tasks -> SUBSET Rows]

Init == /\ IS!Init
        /\ cases = {}
        /\ pc = [t \in Tasks |-> "idle"]
        /\ call = [t \in Tasks |-> NoCall]
        /\ seen = [t \in Tasks |-> {}]

-----------------------------------------------------------------------------
(* The pool of connections.                                                *)

\* A transaction holds one; the check of visibility holds another beside it.
Held == Cardinality({t \in Tasks : pc[t] \notin {"idle", "waiting"}})
        + Cardinality({t \in Tasks : pc[t] = "checking"})

Free == Held < PoolSize

Goto(t, step) == pc' = [pc EXCEPT ![t] = step]

\* The checks that a handler makes before its transaction have passed.
Begin(t, q) ==
    /\ pc[t] = "idle"
    /\ Goto(t, "waiting")
    /\ call' = [call EXCEPT ![t] = q]
    /\ UNCHANGED <<store, cases, seen>>

\* begin, and for a report the statement that takes its snapshot.
Acquire(t) ==
    /\ pc[t] = "waiting"
    /\ Free
    /\ IF call[t].kind = "report"
         THEN Goto(t, "visible") /\ seen' = [seen EXCEPT ![t] = stored]
         ELSE Goto(t, "insert") /\ UNCHANGED seen
    /\ UNCHANGED <<store, cases, call>>

\* ensure_reportable_target; one connection stands for those of its queries, which
\* are acquired one after the other.
AcquireSecond(t) ==
    /\ pc[t] = "visible"
    /\ Free
    /\ Goto(t, "checking")
    /\ UNCHANGED <<store, cases, call, seen>>

Visible(t) ==
    /\ pc[t] = "checking"
    /\ Goto(t, "insert")
    /\ UNCHANGED <<store, cases, call, seen>>

Return(t) ==
    /\ Goto(t, "idle")
    /\ call' = [call EXCEPT ![t] = NoCall]
    /\ seen' = [seen EXCEPT ![t] = {}]

Refused(t) == Return(t) /\ UNCHANGED <<store, cases>>

NotVisible(t) == pc[t] = "checking" /\ Refused(t)

\* Mutant: a pool whose acquisition never times out.
WaitForever(t) == FALSE

\* PoolTimedOut.
Timeout(t) == pc[t] \in {"waiting", "visible"} /\ Refused(t)

\* Any other failure, and a dropped connection.
Abort(t) == pc[t] # "idle" /\ Refused(t)

-----------------------------------------------------------------------------
(* The row and its idempotency key.                                        *)

\* Mutant: no unique index on the key.
KeyNeverBusy(t) == FALSE

\* Another transaction has inserted a row with this key and has not ended.
KeyBusy(t) == \E s \in Tasks \ {t} : pc[s] = "inserted" /\ IS!SameKey(call[s], call[t])

Existing(t) == {row \in stored : IS!SameKey(row.request, call[t])}

\* What the transaction can read: the snapshot of a report, the committed rows of a
\* signal.
Readable(t) == IF call[t].kind = "report" THEN seen[t] ELSE stored

\* INSERT .. ON CONFLICT DO NOTHING waits for a row in doubt, ...
Insert(t) ==
    /\ pc[t] = "insert"
    /\ ~KeyBusy(t)
    /\ Existing(t) = {}
    /\ Goto(t, "inserted")
    /\ UNCHANGED <<store, cases, call, seen>>

\* ... inserts nothing beside a committed one, ...
Conflict(t) ==
    /\ pc[t] = "insert"
    /\ ~KeyBusy(t)
    /\ Existing(t) # {}
    /\ Existing(t) \subseteq Readable(t)
    /\ Goto(t, "duplicate")
    /\ UNCHANGED <<store, cases, call, seen>>

\* ... and fails when a REPEATABLE READ snapshot does not contain that one.
SerializationFailure(t) ==
    /\ pc[t] = "insert"
    /\ ~KeyBusy(t)
    /\ Existing(t) # {}
    /\ ~(Existing(t) \subseteq Readable(t))
    /\ Refused(t)

\* Mutant: the case named by its key.
CommitCaseOfKey(t) ==
    /\ pc[t] = "inserted"
    /\ \E i \in IS!Fresh :
          LET row == [id |-> i, request |-> call[t]] IN
          /\ stored' = stored \union {row}
          /\ answered' = answered \union {row}
          /\ cases' = IF call[t].kind = "report" THEN cases \union {call[t].key} ELSE cases
    /\ Return(t)

\* The commit of the row, for a report with the case it opens.
Commit(t) ==
    /\ pc[t] = "inserted"
    /\ \E i \in IS!Fresh :
          LET row == [id |-> i, request |-> call[t]] IN
          /\ stored' = stored \union {row}
          /\ answered' = answered \union {row}
          /\ cases' = IF call[t].kind = "report" THEN cases \union {i} ELSE cases
    /\ Return(t)

\* The ids of this instance may be used up.
NoIds(t) == pc[t] = "inserted" /\ IS!Fresh = {} /\ Refused(t)

\* Mutant: the duplicate's own case is not deleted.
RepeatKeepsCase(t) ==
    /\ pc[t] = "duplicate"
    /\ \E row \in Existing(t), i \in IS!Fresh :
          /\ row.request = call[t]
          /\ answered' = answered \union {row}
          /\ cases' = IF call[t].kind = "report" THEN cases \union {i} ELSE cases
    /\ UNCHANGED stored
    /\ Return(t)

\* An exact retry is answered with the row there is, and the case opened for the
\* retry is deleted.
Repeat(t) ==
    /\ pc[t] = "duplicate"
    /\ \E row \in Existing(t) :
          /\ row.request = call[t]
          /\ answered' = answered \union {row}
    /\ UNCHANGED <<stored, cases>>
    /\ Return(t)

\* The key was used for something else.
Misused(t) ==
    /\ pc[t] = "duplicate"
    /\ \E row \in Existing(t) : row.request # call[t]
    /\ Refused(t)

-----------------------------------------------------------------------------
Step(t) == \/ Acquire(t) \/ AcquireSecond(t) \/ Visible(t) \/ NotVisible(t)
           \/ Insert(t) \/ Conflict(t) \/ SerializationFailure(t)
           \/ Commit(t) \/ NoIds(t) \/ Repeat(t) \/ Misused(t)

Next == \E t \in Tasks : \/ \E q \in Requests : Begin(t, q)
                         \/ Step(t) \/ Timeout(t) \/ Abort(t)

Spec == Init /\ [][Next]_vars

\* Statements run, the waiters of a key are served in turn (strong fairness), and
\* the pool's timer expires.
FairSpec == Spec /\ \A t \in Tasks : SF_vars(Step(t)) /\ WF_vars(Timeout(t))

-----------------------------------------------------------------------------
(* Properties.                                                             *)

\* Whatever retries overlap, requests are stored once, and answers with the same
\* key name the same row and content (docs/moderation-signals.md:26).
ImplementsIdempotentStore == IS!Spec

\* No case is left without the report that opened it, and no report without its
\* case, though a retry opens a case before it knows that it is one.
CasesMatchReports ==
    cases = {row.id : row \in {r \in stored : r.request.kind = "report"}}

\* Every request returns, even when each connection of the pool belongs to a report
\* that waits for a second one.
EveryRequestReturns == \A t \in Tasks : pc[t] # "idle" ~> pc[t] = "idle"

\* A report sent again is answered with the report there is
\* (tests/database_moderation.rs:131-144).
ExactRetryIsAnswered ==
    [][\A t \in Tasks :
          SerializationFailure(t) => \A row \in Existing(t) : row.request # call[t]]_vars
=============================================================================
