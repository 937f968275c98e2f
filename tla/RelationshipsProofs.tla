------------------------- MODULE RelationshipsProofs -------------------------
(***************************************************************************)
(* Proofs about Relationships, for every set of users and tasks.           *)
(*                                                                         *)
(* Control is the inductive invariant of the handlers: who holds a pair    *)
(* lock, what a handler that passed its block check may still rely on, and *)
(* which rows an accept keeps in place.  Under Control every step of a     *)
(* handler is a step of SocialGraph or leaves the tables alone             *)
(* (Simulation), so the promises about the tables only need proving of the *)
(* indivisible operations (TablesStep).                                    *)
(***************************************************************************)
EXTENDS Relationships, TLAPS

\* Handlers standing where the pair lock of their call is theirs.
HoldsPair(t) ==
    \/ pc[t] \in {"check", "consumed", "linkedOld", "linkedNew"}
    \/ /\ pc[t] = "ready"
       /\ call[t].op # "unfollow"
       /\ call[t].op \in {"follow", "react"} => BlocksEnabled

Accepting(t) == pc[t] \in {"consumed", "linkedOld", "linkedNew"}

\* Past the block check and before the commit.
PastCheck(t) ==
    Accepting(t) \/ (pc[t] = "ready" /\ call[t].op \in CheckedOps)

ControlTypeOK == /\ pc \in [Tasks -> Steps]
                 /\ call \in [Tasks -> Calls \union {NoCall}]
                 /\ userLock \in [Users -> Tasks \union {NoTask}]
                 /\ pairLock \in [Pairs -> Tasks \union {NoTask}]

\* What a handler's position says about the call it serves.
CallsFit ==
    \A t \in Tasks :
        /\ pc[t] # "idle" => call[t] \in Calls
        /\ pc[t] \in {"lockLow", "lockHigh"} => call[t].op \in SafetyOps
        /\ pc[t] = "check" => call[t].op \in CheckedOps
        /\ pc[t] = "lockPair" => call[t].op # "unfollow"
        /\ pc[t] = "unlinked" => call[t].op = "unfollow"
        /\ Accepting(t) => call[t].op = "accept"
        /\ pc[t] # "idle" /\ call[t].op \in SafetyOps => BlocksEnabled
        /\ pc[t] = "lockPair" /\ call[t].op \in {"follow", "react"} => BlocksEnabled

LockHeld == \A t \in Tasks : HoldsPair(t) => pairLock[PairOf(call[t])] = t

CheckStands == \A t \in Tasks : PastCheck(t) => ~SG!Blocked(Edge(t))

RequestStays == \A t \in Tasks : Accepting(t) => Edge(t) \in requests

\* The row lock of an unfollow keeps its row in place, for it alone.
RowLocked ==
    \A t \in Tasks : pc[t] = "unlinked" =>
        /\ Edge(t) \in follows
        /\ \A s \in Tasks \ {t} : pc[s] = "unlinked" => Edge(s) # Edge(t)

Control == /\ ControlTypeOK
           /\ CallsFit
           /\ LockHeld
           /\ CheckStands
           /\ RequestStays
           /\ AcceptedEdgeStays
           /\ RowLocked

-----------------------------------------------------------------------------
(* Facts about calls, edges and pairs.                                     *)

\* A call's edge joins its two users.
LEMMA EdgeOfCall ==
    ASSUME NEW c \in Calls
    PROVE  /\ EdgeOf(c) \in SG!Edges
           /\ PairOf(c) \in Pairs
           /\ PairOf(c) = {EdgeOf(c)[1], EdgeOf(c)[2]}
BY DEF Calls, EdgeOf, PairOf, Pairs, SG!Edges

\* Calls about the same edge, in either direction, need the same pair lock.
LEMMA SamePair ==
    ASSUME NEW c \in Calls, NEW d \in Calls,
           EdgeOf(d) \in SG!Between(EdgeOf(c))
    PROVE  PairOf(c) = PairOf(d)
<1>1. EdgeOf(d) = EdgeOf(c) \/ EdgeOf(d) = <<EdgeOf(c)[2], EdgeOf(c)[1]>>
  BY DEF SG!Between, SG!Reverse
<1>2. {EdgeOf(c)[1], EdgeOf(c)[2]} = {EdgeOf(d)[1], EdgeOf(d)[2]}
  BY <1>1
<1> QED BY <1>2, EdgeOfCall

\* Two handlers cannot both hold the lock of one pair.
LEMMA PairExclusion ==
    ASSUME LockHeld, NEW s \in Tasks, NEW t \in Tasks, s # t,
           HoldsPair(s), HoldsPair(t)
    PROVE  PairOf(call[s]) # PairOf(call[t])
BY DEF LockHeld

\* Hence a handler that holds a pair lock is alone with the edges of its pair.
LEMMA Alone ==
    ASSUME Control, NEW s \in Tasks, NEW t \in Tasks, s # t,
           HoldsPair(s), HoldsPair(t)
    PROVE  /\ Edge(s) \notin SG!Between(Edge(t))
           /\ Edge(t) # Edge(s)
           /\ Edge(t) # SG!Reverse(Edge(s))
<1>1. call[s] \in Calls /\ call[t] \in Calls
  BY DEF Control, CallsFit, HoldsPair
<1>2. PairOf(call[s]) # PairOf(call[t])
  BY PairExclusion DEF Control
<1>3. Edge(s) \notin SG!Between(Edge(t))
  BY <1>1, <1>2, SamePair DEF Edge
<1>4. Edge(t) \notin SG!Between(Edge(s))
  BY <1>1, <1>2, SamePair DEF Edge
<1> QED BY <1>3, <1>4 DEF SG!Between

\* A handler past its check holds its pair lock, unless blocks are disabled.
LEMMA PastCheckHolds ==
    ASSUME NEW t \in Tasks, PastCheck(t), BlocksEnabled \/ Accepting(t)
    PROVE  HoldsPair(t)
BY DEF PastCheck, HoldsPair, Accepting, CheckedOps

-----------------------------------------------------------------------------
(* Control is inductive.                                                   *)

\* Before any request is served, Control holds.
LEMMA ControlInit == Init => Control
BY DEF Init, SG!Init, Control, ControlTypeOK, CallsFit, LockHeld,
   CheckStands, RequestStays, AcceptedEdgeStays, RowLocked, Steps, HoldsPair,
   Accepting, PastCheck

\* Returning keeps the part of Control that speaks of calls and locks.
LEMMA ReturnKeepsLocks ==
    ASSUME Control, NEW t \in Tasks, Return(t)
    PROVE  /\ ControlTypeOK' /\ CallsFit' /\ LockHeld'
           /\ pc'[t] = "idle"
           /\ \A s \in Tasks \ {t} : pc'[s] = pc[s] /\ call'[s] = call[s]
<1> USE DEF Control, Return, Goto
<1>1. ControlTypeOK'
  BY DEF ControlTypeOK, Steps
<1>2. pc'[t] = "idle" /\ \A s \in Tasks \ {t} : pc'[s] = pc[s] /\ call'[s] = call[s]
  BY DEF ControlTypeOK
<1>3. CallsFit'
  BY <1>2 DEF CallsFit, Accepting
<1>4. LockHeld'
  <2> SUFFICES ASSUME NEW s \in Tasks, HoldsPair(s)'
               PROVE  pairLock'[PairOf(call'[s])] = s
    BY DEF LockHeld
  <2>1. s # t /\ HoldsPair(s) /\ call'[s] = call[s]
    BY <1>2 DEF HoldsPair
  <2>2. call[s] \in Calls /\ pairLock[PairOf(call[s])] = s
    BY <2>1 DEF CallsFit, HoldsPair, LockHeld
  <2>3. PairOf(call[s]) \in Pairs
    BY <2>2, EdgeOfCall
  <2> QED BY <2>1, <2>2, <2>3
<1> QED BY <1>1, <1>2, <1>3, <1>4

\* A commit keeps Control if it takes nothing from the other handlers that they
\* still rely on.
LEMMA CommitKeepsControl ==
    ASSUME Control, NEW t \in Tasks, Return(t),
           \A s \in Tasks \ {t} :
              /\ PastCheck(s) /\ BlocksEnabled
                    => Edge(s) \notin blocks' /\ SG!Reverse(Edge(s)) \notin blocks'
              /\ Accepting(s) => Edge(s) \in requests'
              /\ pc[s] \in {"linkedOld", "unlinked"} => Edge(s) \in follows'
    PROVE  Control'
<1>1. /\ ControlTypeOK' /\ CallsFit' /\ LockHeld'
      /\ pc'[t] = "idle"
      /\ \A s \in Tasks \ {t} : pc'[s] = pc[s] /\ call'[s] = call[s]
  BY ReturnKeepsLocks
<1>2. CheckStands'
  BY <1>1 DEF CheckStands, PastCheck, Accepting, Edge, SG!Blocked
<1>3. RequestStays'
  BY <1>1 DEF RequestStays, Accepting, Edge
<1>4. AcceptedEdgeStays'
  BY <1>1 DEF AcceptedEdgeStays, Accepting, Edge
<1>5. RowLocked'
  BY <1>1 DEF Control, RowLocked, Edge
<1> QED BY <1>1, <1>2, <1>3, <1>4, <1>5 DEF Control

\* In particular when it adds no block and removes no request or follow.
LEMMA HarmlessReturn ==
    ASSUME Control, NEW t \in Tasks, Return(t),
           blocks' \subseteq blocks, requests \subseteq requests',
           follows \subseteq follows'
    PROVE  Control'
BY CommitKeepsControl DEF Control, CheckStands, RequestStays, AcceptedEdgeStays,
   RowLocked, SG!Blocked

\* A move inside a transaction changes one handler's position and no row.
LEMMA MoveKeepsControl ==
    ASSUME Control, NEW t \in Tasks, NEW step \in Steps \ {"idle"},
           Goto(t, step), UNCHANGED <<tables, call, userLock>>,
           pairLock' \in [Pairs -> Tasks \union {NoTask}],
           \A s \in Tasks : HoldsPair(s) =>
               pairLock'[PairOf(call[s])] = pairLock[PairOf(call[s])],
           pc[t] # "idle",
           CallsFit',
           HoldsPair(t)' => pairLock'[PairOf(call[t])] = t,
           PastCheck(t)' => ~SG!Blocked(Edge(t)),
           Accepting(t)' => Edge(t) \in requests,
           step = "linkedOld" => Edge(t) \in follows,
           step = "unlinked" => Edge(t) \in follows /\ ~FollowRowBusy(Edge(t), t)
    PROVE  Control'
<1> USE DEF Control, Goto, tables
<1>1. pc'[t] = step /\ \A s \in Tasks \ {t} : pc'[s] = pc[s]
  BY DEF ControlTypeOK
<1>2. ControlTypeOK'
  BY DEF ControlTypeOK
<1>3. LockHeld'
  BY <1>1 DEF LockHeld, HoldsPair
<1>4. CheckStands'
  BY <1>1 DEF CheckStands, PastCheck, Accepting, Edge, SG!Blocked
<1>5. RequestStays'
  BY <1>1 DEF RequestStays, Accepting, Edge
<1>6. AcceptedEdgeStays'
  BY <1>1 DEF AcceptedEdgeStays, Edge
<1>7. RowLocked'
  BY <1>1 DEF RowLocked, FollowRowBusy, Edge
<1> QED BY <1>2, <1>3, <1>4, <1>5, <1>6, <1>7

\* Every step of every handler keeps Control: one case per action.
LEMMA ControlStep ==
    ASSUME Control, [Next]_vars
    PROVE  Control'
<1>1. CASE UNCHANGED vars
  BY <1>1 DEF vars, tables, locks, Control, ControlTypeOK, CallsFit, LockHeld,
     CheckStands, RequestStays, AcceptedEdgeStays, RowLocked, HoldsPair, Accepting,
     PastCheck, Edge, SG!Blocked
<1>2. ASSUME NEW e \in SG!Edges, Unreact(e) PROVE Control'
  BY <1>2 DEF Unreact, tables, locks, Control, ControlTypeOK, CallsFit, LockHeld,
     CheckStands, RequestStays, AcceptedEdgeStays, RowLocked, HoldsPair, Accepting,
     PastCheck, Edge, SG!Blocked
<1>3. ASSUME NEW t \in Tasks, NEW c \in Calls, Begin(t, c) PROVE Control'
  <2>1. /\ pc[t] = "idle" /\ pc' = [pc EXCEPT ![t] = FirstStep(c.op)]
        /\ call' = [call EXCEPT ![t] = c] /\ UNCHANGED <<tables, locks>>
        /\ c.op \in SafetyOps => BlocksEnabled
        /\ c.op \in {"follow", "react"} => ~SG!Blocked(EdgeOf(c))
    BY <1>3 DEF Begin, Goto
  <2>2. /\ c.op \in Ops
        /\ FirstStep(c.op) \in {"lockLow", "ready", "lockPair"}
        /\ FirstStep(c.op) = "lockLow" => c.op \in SafetyOps
        /\ FirstStep(c.op) = "lockPair" => c.op # "unfollow"
        /\ FirstStep(c.op) = "lockPair" /\ c.op \in {"follow", "react"} => BlocksEnabled
        /\ FirstStep(c.op) = "ready" =>
              \/ c.op = "unfollow"
              \/ c.op \in {"follow", "react"} /\ ~BlocksEnabled
    BY DEF FirstStep, Ops, SafetyOps, CheckedOps, PairOps, Calls
  <2>3. /\ pc'[t] = FirstStep(c.op) /\ call'[t] = c
        /\ \A s \in Tasks \ {t} : pc'[s] = pc[s] /\ call'[s] = call[s]
    BY <2>1 DEF Control, ControlTypeOK
  <2>4. ControlTypeOK'
    BY <2>1, <2>2 DEF Control, ControlTypeOK, Steps, locks
  <2>5. CallsFit'
    BY <2>1, <2>2, <2>3 DEF Control, CallsFit, Accepting
  <2>6. ~HoldsPair(t)' /\ ~Accepting(t)' /\ (PastCheck(t)' => ~BlocksEnabled)
    BY <2>2, <2>3 DEF HoldsPair, Accepting, PastCheck, CheckedOps
  <2>7. LockHeld'
    BY <2>1, <2>3, <2>6 DEF Control, LockHeld, HoldsPair, locks
  <2>8. CheckStands'
    BY <2>1, <2>3, <2>6 DEF Control, CheckStands, PastCheck, Accepting, Edge, SG!Blocked, tables
  <2>9. RequestStays' /\ AcceptedEdgeStays'
    BY <2>1, <2>3, <2>6 DEF Control, RequestStays, AcceptedEdgeStays, Accepting, Edge, tables
  <2>10. RowLocked'
    BY <2>1, <2>2, <2>3 DEF Control, RowLocked, Edge, tables
  <2> QED BY <2>10, <2>4, <2>5, <2>7, <2>8, <2>9 DEF Control
<1>4. ASSUME NEW t \in Tasks, LockLow(t) \/ LockHigh(t) PROVE Control'
  <2> DEFINE step == IF pc[t] = "lockLow" THEN "lockHigh" ELSE "lockPair"
  <2>1. /\ pc[t] \in {"lockLow", "lockHigh"}
        /\ Goto(t, step) /\ UNCHANGED <<tables, call, pairLock>>
        /\ \E u : userLock' = [userLock EXCEPT ![u] = t]
    BY <1>4 DEF LockLow, LockHigh, LockUser
  <2>2. /\ pc'[t] = step /\ \A s \in Tasks \ {t} : pc'[s] = pc[s]
        /\ step \in {"lockHigh", "lockPair"}
        /\ call[t].op \in SafetyOps
    BY <2>1 DEF Goto, Control, ControlTypeOK, CallsFit
  <2>3. ControlTypeOK'
    BY <2>1, <2>2 DEF Control, ControlTypeOK, Goto, Steps
  <2>4. CallsFit'
    BY <2>1, <2>2 DEF Control, CallsFit, Accepting, SafetyOps
  <2>5. ~HoldsPair(t)' /\ ~Accepting(t)' /\ ~PastCheck(t)'
    BY <2>2 DEF HoldsPair, Accepting, PastCheck
  <2>6. LockHeld'
    BY <2>1, <2>2, <2>5 DEF Control, LockHeld, HoldsPair
  <2>7. CheckStands'
    BY <2>1, <2>2, <2>5 DEF Control, CheckStands, PastCheck, Accepting, Edge, SG!Blocked, tables
  <2>8. RequestStays' /\ AcceptedEdgeStays'
    BY <2>1, <2>2, <2>5 DEF Control, RequestStays, AcceptedEdgeStays, Accepting, Edge, tables
  <2>9. RowLocked'
    BY <2>1, <2>2 DEF Control, RowLocked, Edge, tables
  <2> QED BY <2>9, <2>3, <2>4, <2>6, <2>7, <2>8 DEF Control
<1>5. ASSUME NEW t \in Tasks, LockPair(t) PROVE Control'
  <2> DEFINE step == AfterPairLock(call[t].op)
             pair == PairOf(call[t])
  <2>1. /\ pc[t] = "lockPair" /\ pairLock[pair] = NoTask
        /\ pairLock' = [pairLock EXCEPT ![pair] = t]
        /\ Goto(t, step) /\ UNCHANGED <<tables, call, userLock>>
    BY <1>5 DEF LockPair
  <2>2. call[t] \in Calls /\ pair \in Pairs
    BY <2>1, EdgeOfCall DEF Control, CallsFit
  <2>3. /\ step \in {"check", "ready"}
        /\ step = "check" => call[t].op \in CheckedOps
        /\ step = "ready" /\ call[t].op \in CheckedOps => ~BlocksEnabled
    BY DEF AfterPairLock
  <2>4. pc'[t] = step /\ \A s \in Tasks \ {t} : pc'[s] = pc[s]
    BY <2>1 DEF Goto, Control, ControlTypeOK
  <2>5. pairLock'[pair] = t /\ pairLock' \in [Pairs -> Tasks \union {NoTask}]
    BY <2>1, <2>2 DEF Control, ControlTypeOK
  <2>6. \A s \in Tasks : HoldsPair(s) =>
             pairLock'[PairOf(call[s])] = pairLock[PairOf(call[s])]
    <3> SUFFICES ASSUME NEW s \in Tasks, HoldsPair(s)
                 PROVE  pairLock'[PairOf(call[s])] = pairLock[PairOf(call[s])]
      OBVIOUS
    <3>1. pairLock[PairOf(call[s])] = s /\ s # NoTask /\ call[s] \in Calls
      BY TasksAssumption DEF Control, LockHeld, CallsFit, HoldsPair
    <3>2. PairOf(call[s]) # pair /\ PairOf(call[s]) \in Pairs
      BY <3>1, <2>1, EdgeOfCall
    <3> QED BY <3>2, <2>1 DEF Control, ControlTypeOK
  <2>7. CallsFit'
    BY <2>1, <2>3, <2>4 DEF Control, CallsFit, Accepting
  <2>8. ~Accepting(t)' /\ (PastCheck(t)' => ~SG!Blocked(Edge(t)))
    BY <2>1, <2>3, <2>4 DEF Accepting, PastCheck, SG!Blocked
  <2> QED BY <2>1, <2>3, <2>5, <2>6, <2>7, <2>8, MoveKeepsControl DEF Steps
<1>6. ASSUME NEW t \in Tasks, Abort(t) \/ RefuseBlocked(t) \/ UnfollowNothing(t) \/ AcceptNothing(t)
      PROVE  Control'
  BY <1>6, HarmlessReturn DEF Abort, RefuseBlocked, UnfollowNothing, AcceptNothing, tables
<1>7. ASSUME NEW t \in Tasks, Unblock(t) \/ Follow(t) \/ Request(t) \/ React(t)
      PROVE  Control'
  BY <1>7, HarmlessReturn DEF Unblock, Follow, Request, React
<1>8. ASSUME NEW t \in Tasks, CheckUnblocked(t) PROVE Control'
  <2>1. /\ pc[t] = "check" /\ Goto(t, "ready") /\ UNCHANGED <<tables, call, locks>>
        /\ ~SG!Blocked(Edge(t))
    BY <1>8 DEF CheckUnblocked
  <2>2. pc'[t] = "ready" /\ \A s \in Tasks \ {t} : pc'[s] = pc[s]
    BY <2>1 DEF Goto, Control, ControlTypeOK
  <2>3. CallsFit'
    BY <2>1, <2>2 DEF Control, CallsFit, Accepting
  <2>4. ~Accepting(t)'
    BY <2>2 DEF Accepting
  <2>5. pairLock[PairOf(call[t])] = t
    BY <2>1 DEF Control, LockHeld, HoldsPair
  <2> QED BY <2>1, <2>3, <2>4, <2>5, MoveKeepsControl
          DEF Steps, locks, Control, ControlTypeOK
<1>9. ASSUME NEW t \in Tasks, UnfollowRow(t) PROVE Control'
  <2>1. /\ pc[t] = "ready" /\ call[t].op = "unfollow"
        /\ Goto(t, "unlinked") /\ UNCHANGED <<tables, call, locks>>
        /\ Edge(t) \in follows /\ ~FollowRowBusy(Edge(t), t)
    BY <1>9 DEF UnfollowRow, Ready
  <2>2. pc'[t] = "unlinked" /\ \A s \in Tasks \ {t} : pc'[s] = pc[s]
    BY <2>1 DEF Goto, Control, ControlTypeOK
  <2>3. CallsFit'
    BY <2>1, <2>2 DEF Control, CallsFit, Accepting
  <2>4. ~Accepting(t)' /\ ~HoldsPair(t)' /\ ~PastCheck(t)'
    BY <2>2 DEF Accepting, HoldsPair, PastCheck
  <2> QED BY <2>1, <2>3, <2>4, MoveKeepsControl
          DEF Steps, locks, Control, ControlTypeOK
<1>10. ASSUME NEW t \in Tasks, AcceptConsume(t) PROVE Control'
  <2>1. /\ pc[t] = "ready" /\ call[t].op = "accept" /\ Edge(t) \in requests
        /\ Goto(t, "consumed") /\ UNCHANGED <<tables, call, locks>>
    BY <1>10 DEF AcceptConsume, Ready
  <2>2. pc'[t] = "consumed" /\ \A s \in Tasks \ {t} : pc'[s] = pc[s]
    BY <2>1 DEF Goto, Control, ControlTypeOK
  <2>3. CallsFit'
    BY <2>1, <2>2 DEF Control, CallsFit, Accepting
  <2>4. PastCheck(t) /\ HoldsPair(t)
    BY <2>1 DEF PastCheck, CheckedOps, HoldsPair
  <2>5. ~SG!Blocked(Edge(t)) /\ pairLock[PairOf(call[t])] = t
    BY <2>4 DEF Control, CheckStands, LockHeld
  <2> QED BY <2>1, <2>3, <2>5, MoveKeepsControl
          DEF Steps, locks, Control, ControlTypeOK
<1>11. ASSUME NEW t \in Tasks, AcceptLink(t) PROVE Control'
  <2> DEFINE step == IF Edge(t) \in follows THEN "linkedOld" ELSE "linkedNew"
  <2>1. /\ pc[t] = "consumed" /\ Goto(t, step) /\ UNCHANGED <<tables, call, locks>>
    BY <1>11 DEF AcceptLink
  <2>2. pc'[t] = step /\ \A s \in Tasks \ {t} : pc'[s] = pc[s]
    BY <2>1 DEF Goto, Control, ControlTypeOK
  <2>3. CallsFit'
    BY <2>1, <2>2 DEF Control, CallsFit, Accepting
  <2>4. Accepting(t) /\ PastCheck(t) /\ HoldsPair(t)
    BY <2>1 DEF Accepting, PastCheck, HoldsPair
  <2>5. ~SG!Blocked(Edge(t)) /\ pairLock[PairOf(call[t])] = t /\ Edge(t) \in requests
    BY <2>4 DEF Control, CheckStands, LockHeld, RequestStays
  <2>6. step \in Steps \ {"idle", "unlinked"} /\ (step = "linkedOld" => Edge(t) \in follows)
    BY DEF Steps
  <2> HIDE DEF step
  <2> QED BY <2>1, <2>3, <2>5, <2>6, MoveKeepsControl
          DEF locks, Control, ControlTypeOK
<1>12. ASSUME NEW t \in Tasks, Block(t) PROVE Control'
  <2>1. /\ pc[t] = "ready" /\ call[t].op = "block" /\ Return(t)
        /\ blocks' = blocks \union {Edge(t)}
        /\ follows' = follows \ SG!Between(Edge(t))
        /\ requests' = requests \ SG!Between(Edge(t))
    BY <1>12 DEF Block, Ready
  <2>2. HoldsPair(t)
    BY <2>1 DEF HoldsPair
  <2>3. ASSUME NEW s \in Tasks \ {t}, HoldsPair(s)
        PROVE  /\ Edge(s) \notin SG!Between(Edge(t))
               /\ Edge(t) # Edge(s) /\ Edge(t) # SG!Reverse(Edge(s))
    BY <2>2, <2>3, Alone
  <2>4. ASSUME NEW s \in Tasks \ {t}, PastCheck(s), BlocksEnabled
        PROVE  Edge(s) \notin blocks' /\ SG!Reverse(Edge(s)) \notin blocks'
    <3>1. HoldsPair(s)
      BY <2>4, PastCheckHolds
    <3> QED BY <3>1, <2>1, <2>3, <2>4 DEF Control, CheckStands, SG!Blocked
  <2>5. ASSUME NEW s \in Tasks \ {t}, Accepting(s)
        PROVE  Edge(s) \in requests' /\ (pc[s] = "linkedOld" => Edge(s) \in follows')
    <3>1. HoldsPair(s)
      BY <2>5 DEF Accepting, HoldsPair
    <3> QED BY <3>1, <2>1, <2>3, <2>5 DEF Control, RequestStays, AcceptedEdgeStays
  <2>6. ASSUME NEW s \in Tasks \ {t}, pc[s] = "unlinked"
        PROVE  Edge(s) \in follows'
    <3>1. Edge(s) \in follows /\ FollowRowBusy(Edge(s), t)
      BY <2>6 DEF Control, RowLocked, FollowRowBusy
    <3>2. Edge(s) \notin SG!Between(Edge(t))
      BY <3>1, <1>12 DEF Block
    <3> QED BY <3>1, <3>2, <2>1
  <2> QED BY <2>1, <2>4, <2>5, <2>6, CommitKeepsControl DEF Accepting
<1>13. ASSUME NEW t \in Tasks, Withdraw(t) \/ Revoke(t) PROVE Control'
  <2>1. /\ pc[t] = "ready" /\ call[t].op \in PairOps /\ Return(t)
        /\ blocks' = blocks
        /\ follows \ {Edge(t)} \subseteq follows'
        /\ requests \ {Edge(t)} \subseteq requests'
    BY <1>13 DEF Withdraw, Revoke, Ready, PairOps
  <2>2. HoldsPair(t)
    BY <2>1 DEF HoldsPair, PairOps
  <2>3. ASSUME NEW s \in Tasks \ {t}, Accepting(s)
        PROVE  Edge(s) \in requests' /\ (pc[s] = "linkedOld" => Edge(s) \in follows')
    <3>1. HoldsPair(s)
      BY <2>3 DEF Accepting, HoldsPair
    <3>2. Edge(s) # Edge(t)
      BY <3>1, <2>2, Alone
    <3> QED BY <3>2, <2>1, <2>3 DEF Control, RequestStays, AcceptedEdgeStays
  <2>4. ASSUME NEW s \in Tasks \ {t}, pc[s] = "unlinked"
        PROVE  Edge(s) \in follows'
    <3>1. Edge(s) \in follows /\ FollowRowBusy(Edge(s), t)
      BY <2>4 DEF Control, RowLocked, FollowRowBusy
    <3> QED BY <3>1, <1>13 DEF Withdraw, Revoke
  <2> QED BY <2>1, <2>3, <2>4, CommitKeepsControl
          DEF Accepting, Control, CheckStands, SG!Blocked
<1>14. ASSUME NEW t \in Tasks, UnfollowCascade(t) PROVE Control'
  <2>1. /\ pc[t] = "unlinked" /\ Return(t) /\ blocks' = blocks
        /\ Edge(t) \in requests => ~RequestRowBusy(Edge(t), t)
        /\ follows' = follows \ {Edge(t)} /\ requests' = requests \ {Edge(t)}
    BY <1>14 DEF UnfollowCascade
  <2>2. ASSUME NEW s \in Tasks \ {t}, Accepting(s)
        PROVE  Edge(s) \in requests' /\ (pc[s] = "linkedOld" => Edge(s) \in follows')
    <3>1. Edge(s) \in requests
      BY <2>2 DEF Control, RequestStays
    <3>2. Edge(s) # Edge(t)
      BY <2>1, <2>2, <3>1 DEF RequestRowBusy, Accepting
    <3> QED BY <2>1, <3>1, <3>2 DEF Control, AcceptedEdgeStays
  <2> QED BY <2>1, <2>2, CommitKeepsControl
          DEF Accepting, Control, CheckStands, RowLocked, SG!Blocked
<1>15. ASSUME NEW t \in Tasks, AcceptCommit(t) PROVE Control'
  <2>1. /\ pc[t] \in {"linkedNew", "linkedOld"} /\ Return(t) /\ blocks' = blocks
        /\ requests' = requests \ {Edge(t)} /\ follows' = follows \union {Edge(t)}
    BY <1>15 DEF AcceptCommit
  <2>2. HoldsPair(t)
    BY <2>1 DEF HoldsPair
  <2>3. ASSUME NEW s \in Tasks \ {t}, Accepting(s)
        PROVE  Edge(s) \in requests' /\ (pc[s] = "linkedOld" => Edge(s) \in follows')
    <3>1. HoldsPair(s)
      BY <2>3 DEF Accepting, HoldsPair
    <3>2. Edge(s) # Edge(t)
      BY <3>1, <2>2, Alone
    <3> QED BY <3>2, <2>1, <2>3 DEF Control, RequestStays, AcceptedEdgeStays
  <2> QED BY <2>1, <2>3, CommitKeepsControl
          DEF Accepting, Control, CheckStands, RowLocked, SG!Blocked
<1> QED
  BY <1>1, <1>2, <1>3, <1>4, <1>5, <1>6, <1>7, <1>8, <1>9, <1>10, <1>11, <1>12,
     <1>13, <1>14, <1>15
  DEF Next, Step, Lock, Statement

-----------------------------------------------------------------------------
(* Every step of a handler is an indivisible operation or a stutter.       *)

\* Under Control a step is an operation of SocialGraph or leaves the rows alone.
LEMMA Simulation ==
    ASSUME Control, [Next]_vars
    PROVE  [SG!Next]_(SG!tables)
<1> SUFFICES ASSUME ~ UNCHANGED tables PROVE SG!Next
  BY DEF tables, SG!tables
<1>1. ASSUME NEW e \in SG!Edges, Unreact(e) PROVE SG!Next
  BY <1>1 DEF Unreact, SG!Next, SG!Unreact
<1>2. ASSUME NEW t \in Tasks, Statement(t) PROVE SG!Next
  <2>1. call[t] \in Calls /\ Edge(t) \in SG!Edges
    <3>1. pc[t] # "idle"
      BY <1>2 DEF Statement, CheckUnblocked, RefuseBlocked, Block, Unblock, Follow,
         UnfollowRow, UnfollowNothing, UnfollowCascade, Request, Withdraw, Revoke,
         AcceptConsume, AcceptNothing, AcceptLink, AcceptCommit, React, Ready
    <3> QED BY <3>1, EdgeOfCall DEF Control, CallsFit, Edge
  <2>2. CASE CheckUnblocked(t) \/ RefuseBlocked(t) \/ UnfollowRow(t)
             \/ UnfollowNothing(t) \/ AcceptConsume(t) \/ AcceptNothing(t) \/ AcceptLink(t)
    BY <2>2 DEF CheckUnblocked, RefuseBlocked, UnfollowRow, UnfollowNothing,
       AcceptConsume, AcceptNothing, AcceptLink
  <2>3. CASE Block(t)
    <3>1. BlocksEnabled
      BY <2>3 DEF Block, Ready, Control, CallsFit, SafetyOps
    <3> QED BY <2>1, <2>3, <3>1 DEF Block, SG!Next, SG!Block
  <2>4. CASE Unblock(t)
    <3>1. BlocksEnabled
      BY <2>4 DEF Unblock, Ready, Control, CallsFit, SafetyOps
    <3> QED BY <2>1, <2>4, <3>1 DEF Unblock, SG!Next, SG!Unblock
  <2>5. CASE Follow(t) \/ Request(t) \/ React(t)
    <3>1. ~SG!Blocked(Edge(t))
      BY <2>5 DEF Follow, Request, React, Ready, Control, CheckStands, PastCheck, CheckedOps
    <3> QED BY <2>1, <2>5, <3>1
            DEF Follow, Request, React, SG!Next, SG!Follow, SG!Request, SG!React, tables
  <2>6. CASE UnfollowCascade(t) \/ Revoke(t)
    <3>1. CASE UnfollowCascade(t)
      BY <2>1, <3>1 DEF UnfollowCascade, SG!Next, SG!Unfollow, Control, RowLocked
    <3>2. CASE Revoke(t)
      BY <2>1, <3>2 DEF Revoke, SG!Next, SG!Unfollow, tables
    <3> QED BY <2>6, <3>1, <3>2
  <2>7. CASE Withdraw(t)
    BY <2>1, <2>7 DEF Withdraw, SG!Next, SG!Withdraw
  <2>8. CASE AcceptCommit(t)
    <3>1. ~SG!Blocked(Edge(t)) /\ Edge(t) \in requests
      BY <2>8 DEF AcceptCommit, Control, CheckStands, RequestStays, PastCheck, Accepting
    <3> QED BY <2>1, <2>8, <3>1 DEF AcceptCommit, SG!Next, SG!Accept
  <2> QED BY <1>2, <2>2, <2>3, <2>4, <2>5, <2>6, <2>7, <2>8 DEF Statement
<1>3. ASSUME NEW t \in Tasks, (\E c \in Calls : Begin(t, c)) \/ Lock(t) \/ Abort(t)
      PROVE  FALSE
  BY <1>3 DEF Begin, Lock, LockLow, LockHigh, LockPair, LockUser, Abort, tables
<1> QED BY <1>1, <1>2, <1>3 DEF Next, Step, vars, tables

-----------------------------------------------------------------------------
(* The promises about the tables, shown for the indivisible operations.    *)

Tables == /\ blocks \subseteq SG!Edges
          /\ follows \subseteq SG!Edges
          /\ requests \subseteq SG!Edges
          /\ approvals \subseteq SG!Edges
          /\ feedback \subseteq SG!Edges
          /\ ~BlocksEnabled => blocks = {}
          /\ NoTieAcrossBlock
          /\ ApprovalCoherent

\* An operation that adds no block and ties together only users that no block
\* separates keeps NoTieAcrossBlock.
LEMMA TieKept ==
    ASSUME Tables, NEW e \in SG!Edges, ~SG!Blocked(e), blocks' = blocks,
           follows' \subseteq follows \union {e},
           requests' \subseteq requests \union {e},
           approvals' \subseteq approvals \union {e},
           feedback' \subseteq feedback \union {e}
    PROVE  NoTieAcrossBlock'
<1>1. \A d \in blocks : e \notin SG!Between(d)
  BY DEF Tables, SG!Blocked, SG!Between, SG!Reverse, SG!Edges
<1> QED BY <1>1 DEF Tables, NoTieAcrossBlock

\* The operations of SocialGraph keep the invariant of its tables.
LEMMA TablesStep ==
    ASSUME Tables, [SG!Next]_(SG!tables)
    PROVE  Tables'
<1>1. CASE UNCHANGED SG!tables
  BY <1>1 DEF SG!tables, Tables, NoTieAcrossBlock, ApprovalCoherent
<1>2. ASSUME NEW e \in SG!Edges, SG!Block(e) PROVE Tables'
  <2>1. NoTieAcrossBlock'
    BY <1>2 DEF SG!Block, Tables, NoTieAcrossBlock
  <2> QED BY <1>2, <2>1 DEF SG!Block, Tables, ApprovalCoherent
<1>3. ASSUME NEW e \in SG!Edges, SG!Unblock(e) \/ SG!Unfollow(e) \/ SG!Withdraw(e) \/ SG!Unreact(e)
      PROVE  Tables'
  <2>1. /\ blocks' \subseteq blocks /\ follows' \subseteq follows
        /\ requests' \subseteq requests /\ approvals' \subseteq approvals
        /\ feedback' \subseteq feedback
    BY <1>3 DEF SG!Unblock, SG!Unfollow, SG!Withdraw, SG!Unreact
  <2>2. NoTieAcrossBlock'
    BY <2>1 DEF Tables, NoTieAcrossBlock
  <2>3. ApprovalCoherent'
    BY <1>3 DEF SG!Unblock, SG!Unfollow, SG!Withdraw, SG!Unreact, Tables, ApprovalCoherent
  <2> QED BY <2>1, <2>2, <2>3 DEF Tables
<1>4. ASSUME NEW e \in SG!Edges, SG!Follow(e) \/ SG!Request(e) \/ SG!React(e) \/ SG!Accept(e)
      PROVE  Tables'
  <2>1. /\ ~SG!Blocked(e) /\ blocks' = blocks
        /\ follows' \subseteq follows \union {e} /\ requests' \subseteq requests \union {e}
        /\ approvals' \subseteq approvals \union {e} /\ feedback' \subseteq feedback \union {e}
    BY <1>4 DEF SG!Follow, SG!Request, SG!React, SG!Accept
  <2>2. NoTieAcrossBlock'
    BY <2>1, TieKept
  <2>3. ApprovalCoherent'
    BY <1>4 DEF SG!Follow, SG!Request, SG!React, SG!Accept, Tables, ApprovalCoherent
  <2> QED BY <2>1, <2>2, <2>3 DEF Tables
<1> QED BY <1>1, <1>2, <1>3, <1>4 DEF SG!Next

\* The empty tables satisfy it.
LEMMA TablesInit == Init => Tables
BY DEF Init, SG!Init, Tables, NoTieAcrossBlock, ApprovalCoherent

-----------------------------------------------------------------------------
(* Theorems.                                                               *)

\* The inductive invariant holds throughout.
LEMMA ControlAlways == Spec => []Control
BY ControlInit, ControlStep, PTL DEF Spec

\* Simulation carries the invariant of the tables over to the handlers.
LEMMA TablesAlways == Spec => []Tables
<1>1. Control /\ Tables /\ [Next]_vars => Tables'
  BY Simulation, TablesStep
<1> QED BY ControlAlways, TablesInit, <1>1, PTL DEF Spec

\* Every state of the handlers and tables is well formed: no user is tied to
\* itself, and every lock is free or held by a task.
THEOREM TypeCorrect == Spec => []TypeOK
<1>1. Control /\ Tables => TypeOK
  BY DEF Control, ControlTypeOK, Tables, TypeOK
<1> QED BY ControlAlways, TablesAlways, <1>1, PTL

\* However many handlers interleave, no follow, request, approval, reaction or
\* vote joins two users while a block separates them.
THEOREM BlockSevers == Spec => []NoTieAcrossBlock
<1>1. Tables => NoTieAcrossBlock
  BY DEF Tables
<1> QED BY TablesAlways, <1>1, PTL

\* An approval always stands on a follow edge and never beside a request.
THEOREM ApprovalsCoherent == Spec => []ApprovalCoherent
<1>1. Tables => ApprovalCoherent
  BY DEF Tables
<1> QED BY TablesAlways, <1>1, PTL

\* The approval an accept inserts never misses the follow edge it references.
THEOREM NoForeignKeyFailure == Spec => []AcceptedEdgeStays
<1>1. Control => AcceptedEdgeStays
  BY DEF Control
<1> QED BY ControlAlways, <1>1, PTL

\* The handlers implement the indivisible operations of SocialGraph.
THEOREM Implements == Spec => ImplementsSocialGraph
<1>1. Init => SG!Init
  BY DEF Init
<1>2. Control /\ [Next]_vars => [SG!Next]_(SG!tables)
  BY Simulation
<1> QED BY ControlAlways, <1>1, <1>2, PTL DEF Spec, ImplementsSocialGraph, SG!Spec

\* An edge becomes approved only by consuming its requester's pending request.
THEOREM ApprovalNeedsRequest == Spec => ApprovalConsumesRequest
<1> DEFINE A == \A e \in SG!Edges :
                   e \in approvals' /\ e \notin approvals
                     => e \in requests /\ e \notin requests' /\ e \in follows'
<1>1. ASSUME [SG!Next]_(SG!tables) PROVE A
  BY <1>1 DEF SG!Next, SG!tables, SG!Block, SG!Unblock, SG!Follow, SG!Unfollow,
     SG!Request, SG!Withdraw, SG!Accept, SG!React, SG!Unreact
<1>2. Control /\ [Next]_vars => [A]_vars
  BY <1>1, Simulation
<1> QED BY ControlAlways, <1>2, PTL DEF Spec, ApprovalConsumesRequest
=============================================================================
