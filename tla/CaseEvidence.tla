----------------------------- MODULE CaseEvidence -----------------------------
(***************************************************************************)
(* The evidence that moderation cases keep of their targets: create_report *)
(* stores what its transaction reads, review_target shows the target or,   *)
(* when it is gone, the evidence of its latest case, and set_case_state    *)
(* moves a case and appends to its audit.  A task is one in-flight request.*)
(*                                                                         *)
(* A target is read in two statements, a row and what belongs to it (the   *)
(* media of a post or message, the members of a group or conversation).    *)
(* Its states are numbered in the order of their commits.                  *)
(***************************************************************************)
EXTENDS Naturals, Sequences, FiniteSets

CONSTANTS Targets, Tasks,
          States,       \* of a case; it is opened in the state "open"
          MaxVersion,   \* bound: states of one target
          MaxReports,   \* bound: report transactions begun
          MaxAudit      \* bound: audit events

ASSUME StatesAssumption == "open" \in States
ASSUME BoundsAssumption == MaxVersion \in Nat \ {0} /\ MaxReports \in Nat /\ MaxAudit \in Nat

VARIABLES version,   \* target -> the number of its state
          gone,      \* targets deleted
          closed,    \* targets that reporters may not see
          begun,     \* report transactions begun: created_at is the time of BEGIN
          cases,     \* committed rows of moderation_cases
          audit,     \* case.state events
          pc, call,  \* task -> position, request served
          snap,      \* task -> the snapshot of its transaction, its target's part
          found,     \* task -> what it has read
          since      \* task -> the version of its target when its request began

data == <<version, gone, closed>>
log == <<begun, cases, audit>>
vars == <<data, log, pc, call, snap, found, since>>

Versions == 1..MaxVersion
CaseIds == 1..MaxReports
Calls == [op : {"report", "review"}, target : Targets] \union [op : {"state"}, id : CaseIds, to : States]
NoCall == [op |-> "none"]

\* What was read of a target: its row, and then the rest; 0 is nothing.
Readings == [row : 0..MaxVersion, rest : 0..MaxVersion]
Nothing == [row |-> 0, rest |-> 0]

\* asked: how many reports had begun when the evidence was read.
Cases == [id : CaseIds, target : Targets, evidence : Readings, asked : 0..MaxReports, state : States]

Views == [version : Versions, gone : BOOLEAN, cases : SUBSET Cases, asked : 0..MaxReports]
NoView == [version |-> 1, gone |-> FALSE, cases |-> {}, asked |-> 0]

Steps == {"idle", "begin", "begun", "visible", "row", "rest", "insert", "stored",
          "answered", "lock", "update"}

TypeOK == /\ version \in [Targets -> Versions]
          /\ gone \subseteq Targets
          /\ closed \subseteq Targets
          /\ begun \in 0..MaxReports
          /\ cases \subseteq Cases
          /\ \A c, d \in cases : c.id = d.id => c = d
          /\ audit \in Seq([id : CaseIds, from : States, to : States])
          /\ pc \in [Tasks -> Steps]
          /\ call \in [Tasks -> Calls \union {NoCall}]
          /\ snap \in [Tasks -> Views]
          /\ found \in [Tasks -> [reading : Readings, id : 0..MaxReports, state : States]]
          /\ since \in [Tasks -> Versions]

NothingFound == [reading |-> Nothing, id |-> 0, state |-> "open"]

Init == /\ version = [x \in Targets |-> 1]
        /\ gone = {} /\ closed = {} /\ begun = 0 /\ cases = {} /\ audit = <<>>
        /\ pc = [t \in Tasks |-> "idle"]
        /\ call = [t \in Tasks |-> NoCall]
        /\ snap = [t \in Tasks |-> NoView]
        /\ found = [t \in Tasks |-> NothingFound]
        /\ since = [t \in Tasks |-> 1]

-----------------------------------------------------------------------------
(* What other handlers do to targets.                                      *)

\* A comment is edited into a tombstone, a profile updated, members come and go.
Edit(x) == /\ x \notin gone
           /\ version[x] < MaxVersion   \* bound
           /\ version' = [version EXCEPT ![x] = @ + 1]
           /\ UNCHANGED <<gone, closed, log, pc, call, snap, found, since>>

Delete(x) == /\ x \notin gone
             /\ gone' = gone \union {x}
             /\ UNCHANGED <<version, closed, log, pc, call, snap, found, since>>

\* The target is hidden or shown, its author suspended or reinstated, ...
Close(x) == /\ closed' \in {closed \union {x}, closed \ {x}}
            /\ UNCHANGED <<version, gone, log, pc, call, snap, found, since>>

-----------------------------------------------------------------------------
(* Every request.                                                          *)

Goto(t, step) == pc' = [pc EXCEPT ![t] = step]

Begin(t, r) ==
    /\ pc[t] = "idle"
    /\ call' = [call EXCEPT ![t] = r]
    /\ IF r.op = "state" THEN Goto(t, "lock") /\ UNCHANGED since
       ELSE Goto(t, "begin") /\ since' = [since EXCEPT ![t] = version[r.target]]
    /\ UNCHANGED <<data, log, snap, found>>

Reset(t) == /\ Goto(t, "idle")
            /\ call' = [call EXCEPT ![t] = NoCall]
            /\ snap' = [snap EXCEPT ![t] = NoView]
            /\ found' = [found EXCEPT ![t] = NothingFound]
            /\ since' = [since EXCEPT ![t] = 1]

\* A request ends: answered, or refused or failed at any step, which rolls back.
End(t) == pc[t] # "idle" /\ Reset(t) /\ UNCHANGED <<data, log>>

-----------------------------------------------------------------------------
(* What a transaction sees.                                                *)

Now(x) == [version |-> version[x], gone |-> x \in gone,
           cases |-> {c \in cases : c.target = x}, asked |-> begun]

\* Mutant: READ COMMITTED.
Latest(t) == Now(call[t].target)

\* REPEATABLE READ.
View(t) == snap[t]

\* Mutant: one more than the committed cases.
IdAfterCommitted == Cardinality(cases) + 1

\* Uuid::new_v4, in the order of created_at.
FreshId == begun + 1

\* BEGIN of a report, which is its created_at; its id stands for it.
BeginReport(t) ==
    /\ pc[t] = "begin" /\ call[t].op = "report"
    /\ begun < MaxReports   \* bound
    /\ begun' = begun + 1
    /\ found' = [found EXCEPT ![t].id = FreshId]
    /\ Goto(t, "begun")
    /\ UNCHANGED <<data, cases, audit, call, snap, since>>

\* The first statement takes the snapshot: SELECT 1 of a report, the row of a review.
TakeSnapshot(t) ==
    /\ \/ pc[t] = "begun" /\ Goto(t, "visible")
       \/ pc[t] = "begin" /\ call[t].op = "review" /\ Goto(t, "row")
    /\ snap' = [snap EXCEPT ![t] = Now(call[t].target)]
    /\ UNCHANGED <<data, log, call, found, since>>

\* ensure_reportable_target, on another connection.
CheckVisible(t) ==
    /\ pc[t] = "visible"
    /\ call[t].target \notin gone \union closed
    /\ Goto(t, "row")
    /\ UNCHANGED <<data, log, call, snap, found, since>>

\* load_target_snapshot: the row; a report of a target that is not there is refused.
ReadRow(t) ==
    /\ pc[t] = "row"
    /\ ~View(t).gone
    /\ found' = [found EXCEPT ![t].reading.row = View(t).version]
    /\ Goto(t, "rest")
    /\ UNCHANGED <<data, log, call, snap, since>>

RowGone(t) ==
    /\ pc[t] = "row" /\ call[t].op = "review"
    /\ View(t).gone
    /\ Goto(t, "stored")
    /\ UNCHANGED <<data, log, call, snap, found, since>>

\* What belongs to a deleted row is deleted too.
ReadRest(t) ==
    /\ pc[t] = "rest"
    /\ found' = [found EXCEPT ![t].reading.rest = IF View(t).gone THEN 0 ELSE View(t).version]
    /\ Goto(t, IF call[t].op = "report" THEN "insert" ELSE "answered")
    /\ UNCHANGED <<data, log, call, snap, since>>

\* The commit of the case and its report; a repeated key ends with neither (Reports).
StoreCase(t) ==
    /\ pc[t] = "insert"
    /\ cases' = cases \union {[id |-> found[t].id, target |-> call[t].target,
                               evidence |-> found[t].reading, asked |-> snap[t].asked,
                               state |-> "open"]}
    /\ Reset(t)
    /\ UNCHANGED <<data, begun, audit>>

\* Mutant: ORDER BY created_at ASC.
Earliest(S) == CHOOSE c \in S : \A d \in S : c.id <= d.id

\* ORDER BY created_at DESC LIMIT 1.
LastOpened(S) == CHOOSE c \in S : \A d \in S : d.id <= c.id

\* The fallback of a review; without a case it is refused.
ReadStored(t) ==
    /\ pc[t] = "stored"
    /\ View(t).cases # {}
    /\ found' = [found EXCEPT ![t].reading = LastOpened(View(t).cases).evidence]
    /\ Goto(t, "answered")
    /\ UNCHANGED <<data, log, call, snap, since>>

-----------------------------------------------------------------------------
(* set_case_state.                                                         *)

\* Mutant: no FOR UPDATE.
NeverHeld(id) == FALSE

\* The row of a case is locked from SELECT FOR UPDATE to the commit.
CaseLocked(id) == \E t \in Tasks : pc[t] = "update" /\ call[t].id = id

LockCase(t) ==
    /\ pc[t] = "lock"
    /\ ~CaseLocked(call[t].id)
    /\ \E c \in cases : c.id = call[t].id /\ found' = [found EXCEPT ![t].state = c.state]
    /\ Goto(t, "update")
    /\ UNCHANGED <<data, log, call, snap, since>>

\* The state and its audit event; the same state is recorded again only with
\* another note.
SetCase(t) ==
    /\ pc[t] = "update"
    /\ Len(audit) < MaxAudit   \* bound
    /\ \E anotherNote \in BOOLEAN :
         IF found[t].state = call[t].to /\ ~anotherNote
           THEN UNCHANGED <<cases, audit>>
           ELSE /\ cases' = {IF c.id = call[t].id THEN [c EXCEPT !.state = call[t].to] ELSE c
                                 : c \in cases}
                /\ audit' = Append(audit, [id |-> call[t].id, from |-> found[t].state,
                                           to |-> call[t].to])
    /\ Reset(t)
    /\ UNCHANGED <<data, begun>>

Next == \/ \E x \in Targets : Edit(x) \/ Delete(x) \/ Close(x)
        \/ \E t \in Tasks :
             \/ \E r \in Calls : Begin(t, r)
             \/ End(t) \/ BeginReport(t) \/ TakeSnapshot(t) \/ CheckVisible(t)
             \/ ReadRow(t) \/ RowGone(t) \/ ReadRest(t) \/ StoreCase(t) \/ ReadStored(t)
             \/ LockCase(t) \/ SetCase(t)

Spec == Init /\ [][Next]_vars

-----------------------------------------------------------------------------
(* What the evidence is worth.                                             *)

\* The evidence of a case is one state of its target, whole, and a state the
\* target had while the report was under way: edits, arrivals and deletions
\* between the statements that read it leave no mixture, and the case of a
\* target that is deleted meanwhile is as complete as any.
EvidenceIsAMoment ==
    [][\A c \in cases' : c.id \notin {d.id : d \in cases} =>
          \E t \in Tasks : /\ call[t] = [op |-> "report", target |-> c.target]
                           /\ found[t].id = c.id
                           /\ c.evidence.row = c.evidence.rest
                           /\ c.evidence.row \in since[t]..version[c.target]]_vars

\* A review shows the target whole, and of a deleted target the latest evidence
\* stored, not an invented later state (tests/database_moderation_review_regressions.rs:403).
\* Evidence that is newer and not shown belongs to a report that overlapped: it
\* began first and was read after the one shown began.
ReviewTellsTheLatest ==
    \A t \in Tasks : pc[t] = "answered" =>
        LET shown == found[t].reading
        IN  /\ shown.row = shown.rest
            /\ ~snap[t].gone => shown.row \in since[t]..version[call[t].target]
            /\ snap[t].gone =>
                 \E c \in snap[t].cases :
                    /\ c.evidence = shown
                    /\ \A d \in snap[t].cases :
                         d.evidence.row > shown.row => d.id < c.id /\ d.asked >= c.id

\* The state that the first n events of a trail leave a case in.
StateAfter(trail, id, n) ==
    LET events == {i \in 1..n : trail[i].id = id}
    IN  IF events = {} THEN "open"
        ELSE trail[CHOOSE i \in events : \A j \in events : j <= i].to

\* The audit of a case is one chain from its opening to its present state: no
\* event is lost, doubled or recorded from a state that had been left, though
\* moderators move the same case at the same time.
CaseAuditChain ==
    \A c \in cases :
        /\ \A i \in DOMAIN audit :
              audit[i].id = c.id => audit[i].from = StateAfter(audit, c.id, i - 1)
        /\ c.state = StateAfter(audit, c.id, Len(audit))
=============================================================================
