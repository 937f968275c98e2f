---------------------------- MODULE Relationships ----------------------------
(***************************************************************************)
(* The handlers that change how two users relate: blocks, follows, follow  *)
(* requests and approvals, reactions and votes.  A task is one in-flight   *)
(* HTTP request with its own READ COMMITTED transaction; its statements    *)
(* are separate steps wherever another task's commit may fall in between.  *)
(* The rows a transaction wrote are invisible until it commits, so the     *)
(* last statement and the commit are one step, which also releases every   *)
(* lock (advisory transaction locks and row locks end with the             *)
(* transaction).                                                           *)
(*                                                                         *)
(* Advisory locks are pairLock (social_lock_user_pair) and userLock        *)
(* (lock_users).  Row locks follow from what a task has already deleted:   *)
(* see FollowRowBusy and RequestRowBusy.                                   *)
(***************************************************************************)
EXTENDS Naturals

CONSTANTS Users, Tasks, NoTask, BlocksEnabled

\* User ids are ordered: lock_users sorts them.
ASSUME UsersAssumption == Users \subseteq Nat
ASSUME TasksAssumption == NoTask \notin Tasks
ASSUME BlocksAssumption == BlocksEnabled \in BOOLEAN

VARIABLES blocks, follows, requests, approvals, feedback,  \* committed rows
          pc,        \* task -> where its handler stands
          call,      \* task -> the operation it serves, with its two users
          userLock,  \* user -> the task holding the user's advisory lock
          pairLock   \* pair -> the task holding the pair's advisory lock

tables == <<blocks, follows, requests, approvals, feedback>>
locks == <<userLock, pairLock>>
vars == <<tables, pc, call, locks>>

SG == INSTANCE SocialGraph

Pairs == {{e[1], e[2]} : e \in SG!Edges}

SafetyOps == {"block", "unblock"}
CheckedOps == {"follow", "react", "request", "accept"}
PairOps == {"cancel", "decline", "revoke"}
Ops == SafetyOps \union CheckedOps \union PairOps \union {"unfollow"}

Calls == {c \in [op : Ops, actor : Users, other : Users] : c.actor # c.other}
NoCall == [op |-> "none"]

Steps == {"idle", "lockLow", "lockHigh", "lockPair", "check", "ready",
          "unlinked", "consumed", "linkedOld", "linkedNew"}

PairOf(c) == {c.actor, c.other}

\* Mutant: the same user bound to both parameters of the statement.
EdgeBoundTwice(c) == <<c.actor, c.actor>>

\* The directed edge a call is about: the target of a follow request accepts,
\* declines or revokes the edge that points at itself.
EdgeOf(c) == IF c.op \in {"accept", "decline", "revoke"}
               THEN <<c.other, c.actor>> ELSE <<c.actor, c.other>>

Edge(t) == EdgeOf(call[t])

\* Mutant: users locked in the order given.
GivenOrder(c) == <<c.actor, c.other>>

\* lock_users sorts the users it locks.
UserOrder(c) == IF c.actor < c.other THEN <<c.actor, c.other>>
                                     ELSE <<c.other, c.actor>>

TypeOK == /\ blocks \subseteq SG!Edges
          /\ follows \subseteq SG!Edges
          /\ requests \subseteq SG!Edges
          /\ approvals \subseteq SG!Edges
          /\ feedback \subseteq SG!Edges
          /\ pc \in [Tasks -> Steps]
          /\ call \in [Tasks -> Calls \union {NoCall}]
          /\ userLock \in [Users -> Tasks \union {NoTask}]
          /\ pairLock \in [Pairs -> Tasks \union {NoTask}]

Init == /\ SG!Init
        /\ pc = [t \in Tasks |-> "idle"]
        /\ call = [t \in Tasks |-> NoCall]
        /\ userLock = [u \in Users |-> NoTask]
        /\ pairLock = [p \in Pairs |-> NoTask]

-----------------------------------------------------------------------------
(* Row locks held by uncommitted deletions.                                *)

\* An unfollow that has deleted the follow row and not yet its request, or an
\* accept that has inserted the row: others wait for the outcome.
FollowRowBusy(e, t) ==
    \E s \in Tasks \ {t} : pc[s] \in {"unlinked", "linkedNew"} /\ Edge(s) = e

\* An accept that has deleted the request row and not yet committed.
RequestRowBusy(e, t) ==
    \E s \in Tasks \ {t} :
        pc[s] \in {"consumed", "linkedOld", "linkedNew"} /\ Edge(s) = e

-----------------------------------------------------------------------------
(* Control: start, locks, the block check, return.                         *)

\* Block and unblock lock both users and then the pair; unfollow runs one
\* statement without locks; follow, reaction and vote lock the pair only when
\* blocks are enabled; the follow-request handlers always lock it.
FirstStep(op) ==
    CASE op \in SafetyOps -> "lockLow"
      [] op = "unfollow" -> "ready"
      [] op \in {"follow", "react"} /\ ~BlocksEnabled -> "ready"
      [] OTHER -> "lockPair"

\* Mutant: follow trusts the check made before its transaction.
FollowWithoutRecheck(op) ==
    IF BlocksEnabled /\ op \in CheckedOps \ {"follow"} THEN "check" ELSE "ready"

AfterPairLock(op) ==
    IF BlocksEnabled /\ op \in CheckedOps THEN "check" ELSE "ready"

Goto(t, step) == pc' = [pc EXCEPT ![t] = step]

\* The checks a handler makes on the pool, before its transaction, may be
\* stale by the time it holds a lock.  Follow and feedback check for a block
\* there too.
Begin(t, c) ==
    /\ pc[t] = "idle"
    /\ c.op \in SafetyOps => BlocksEnabled
    /\ c.op \in {"follow", "react"} => ~SG!Blocked(EdgeOf(c))
    /\ Goto(t, FirstStep(c.op))
    /\ call' = [call EXCEPT ![t] = c]
    /\ UNCHANGED <<tables, locks>>

\* lock_users takes the locks of both users one after the other.
LockUser(t, u, next) ==
    /\ userLock[u] = NoTask
    /\ userLock' = [userLock EXCEPT ![u] = t]
    /\ Goto(t, next)
    /\ UNCHANGED <<tables, call, pairLock>>

LockLow(t) == /\ pc[t] = "lockLow"
              /\ LockUser(t, UserOrder(call[t])[1], "lockHigh")
LockHigh(t) == /\ pc[t] = "lockHigh"
               /\ LockUser(t, UserOrder(call[t])[2], "lockPair")

LockPair(t) ==
    /\ pc[t] = "lockPair"
    /\ pairLock[PairOf(call[t])] = NoTask
    /\ pairLock' = [pairLock EXCEPT ![PairOf(call[t])] = t]
    /\ Goto(t, AfterPairLock(call[t].op))
    /\ UNCHANGED <<tables, call, userLock>>

\* The transaction ends, by commit or rollback: its locks are free again.
Return(t) ==
    /\ Goto(t, "idle")
    /\ call' = [call EXCEPT ![t] = NoCall]
    /\ userLock' = [u \in Users |-> IF userLock[u] = t THEN NoTask ELSE userLock[u]]
    /\ pairLock' = [p \in Pairs |-> IF pairLock[p] = t THEN NoTask ELSE pairLock[p]]

\* users_are_blocked_in_transaction, under the pair lock.
CheckUnblocked(t) ==
    /\ pc[t] = "check"
    /\ ~SG!Blocked(Edge(t))
    /\ Goto(t, "ready")
    /\ UNCHANGED <<tables, call, locks>>

RefuseBlocked(t) ==
    /\ pc[t] = "check"
    /\ SG!Blocked(Edge(t))
    /\ Return(t)
    /\ UNCHANGED tables

\* A failed check, a lost connection, a dropped client: the transaction rolls
\* back wherever it stands.
Abort(t) == /\ pc[t] # "idle"
            /\ Return(t)
            /\ UNCHANGED tables

-----------------------------------------------------------------------------
(* Statements.                                                             *)

Ready(t, op) == pc[t] = "ready" /\ call[t].op = op

\* Mutant: reactions and votes deleted in one direction only.
BlockKeepsTheirFeedback(t) ==
    LET e == Edge(t) IN
    /\ Ready(t, "block")
    /\ \A d \in SG!Between(e) \intersect follows : ~FollowRowBusy(d, t)
    /\ blocks' = blocks \union {e}
    /\ follows' = follows \ SG!Between(e)
    /\ requests' = requests \ SG!Between(e)
    /\ approvals' = approvals \ SG!Between(e)
    /\ feedback' = feedback \ {e}
    /\ Return(t)

\* block_user, with the cascade of approvals and the unfollow trigger.
Block(t) ==
    LET e == Edge(t) IN
    /\ Ready(t, "block")
    /\ \A d \in SG!Between(e) \intersect follows : ~FollowRowBusy(d, t)
    /\ blocks' = blocks \union {e}
    /\ follows' = follows \ SG!Between(e)
    /\ requests' = requests \ SG!Between(e)
    /\ approvals' = approvals \ SG!Between(e)
    /\ feedback' = feedback \ SG!Between(e)
    /\ Return(t)

Unblock(t) ==
    /\ Ready(t, "unblock")
    /\ blocks' = blocks \ {Edge(t)}
    /\ UNCHANGED <<follows, requests, approvals, feedback>>
    /\ Return(t)

Follow(t) ==
    /\ Ready(t, "follow")
    /\ ~FollowRowBusy(Edge(t), t)
    /\ follows' = follows \union {Edge(t)}
    /\ UNCHANGED <<blocks, requests, approvals, feedback>>
    /\ Return(t)

\* unfollow_user deletes the follow row, which it then keeps locked ...
UnfollowRow(t) ==
    /\ Ready(t, "unfollow")
    /\ Edge(t) \in follows
    /\ ~FollowRowBusy(Edge(t), t)
    /\ Goto(t, "unlinked")
    /\ UNCHANGED <<tables, call, locks>>

UnfollowNothing(t) ==
    /\ Ready(t, "unfollow")
    /\ Edge(t) \notin follows
    /\ Return(t)
    /\ UNCHANGED tables

\* Mutant: no trigger on follows.
UnfollowWithoutTrigger(t) ==
    /\ pc[t] = "unlinked"
    /\ follows' = follows \ {Edge(t)}
    /\ approvals' = approvals \ {Edge(t)}
    /\ UNCHANGED <<blocks, requests, feedback>>
    /\ Return(t)

\* ... while the foreign key cascades to the approval and the trigger deletes
\* the request row, waiting for an accept that has deleted it.
UnfollowCascade(t) ==
    /\ pc[t] = "unlinked"
    /\ Edge(t) \in requests => ~RequestRowBusy(Edge(t), t)
    /\ follows' = follows \ {Edge(t)}
    /\ requests' = requests \ {Edge(t)}
    /\ approvals' = approvals \ {Edge(t)}
    /\ UNCHANGED <<blocks, feedback>>
    /\ Return(t)

\* Mutant: a request inserted beside an approval.
RequestBesideApproval(t) ==
    /\ Ready(t, "request")
    /\ requests' = requests \union {Edge(t)}
    /\ UNCHANGED <<blocks, follows, approvals, feedback>>
    /\ Return(t)

\* request_follow: nothing is inserted beside an existing approval.
Request(t) ==
    /\ Ready(t, "request")
    /\ requests' = IF Edge(t) \in approvals THEN requests
                                            ELSE requests \union {Edge(t)}
    /\ UNCHANGED <<blocks, follows, approvals, feedback>>
    /\ Return(t)

\* cancel_follow_request and decline_follow_request.
Withdraw(t) ==
    /\ Ready(t, "cancel") \/ Ready(t, "decline")
    /\ requests' = requests \ {Edge(t)}
    /\ UNCHANGED <<blocks, follows, approvals, feedback>>
    /\ Return(t)

\* revoke_follow_approval deletes the follow edge if it is an approved one.
Revoke(t) ==
    LET gone == {Edge(t)} \intersect follows \intersect approvals IN
    /\ Ready(t, "revoke")
    /\ \A e \in gone : ~FollowRowBusy(e, t)
    /\ follows' = follows \ gone
    /\ requests' = requests \ gone
    /\ approvals' = approvals \ gone
    /\ UNCHANGED <<blocks, feedback>>
    /\ Return(t)

\* accept_follow_request: delete the request row, then insert the follow row,
\* then the approval row.
AcceptConsume(t) ==
    /\ Ready(t, "accept")
    /\ Edge(t) \in requests
    /\ Goto(t, "consumed")
    /\ UNCHANGED <<tables, call, locks>>

\* No such request: already approved, or NotFound.
AcceptNothing(t) ==
    /\ Ready(t, "accept")
    /\ Edge(t) \notin requests
    /\ Return(t)
    /\ UNCHANGED tables

\* ON CONFLICT DO NOTHING waits for a row in doubt and leaves an existing row
\* unlocked.
AcceptLink(t) ==
    /\ pc[t] = "consumed"
    /\ ~FollowRowBusy(Edge(t), t)
    /\ Goto(t, IF Edge(t) \in follows THEN "linkedOld" ELSE "linkedNew")
    /\ UNCHANGED <<tables, call, locks>>

\* The approval's foreign key needs the follow row: its own, or one that is
\* still there.
AcceptCommit(t) ==
    /\ \/ pc[t] = "linkedNew"
       \/ pc[t] = "linkedOld" /\ ~FollowRowBusy(Edge(t), t) /\ Edge(t) \in follows
    /\ requests' = requests \ {Edge(t)}
    /\ follows' = follows \union {Edge(t)}
    /\ approvals' = approvals \union {Edge(t)}
    /\ UNCHANGED <<blocks, feedback>>
    /\ Return(t)

\* put_reaction and put_vote on content of the other user.
React(t) ==
    /\ Ready(t, "react")
    /\ feedback' = feedback \union {Edge(t)}
    /\ UNCHANGED <<blocks, follows, requests, approvals>>
    /\ Return(t)

\* delete_reaction and delete_vote: one statement, no lock, no transaction.
Unreact(e) ==
    /\ e \in feedback
    /\ feedback' = feedback \ {e}
    /\ UNCHANGED <<blocks, follows, requests, approvals, pc, call, locks>>

-----------------------------------------------------------------------------
\* PostgreSQL's deadlock detector: two transactions wait for each other's row
\* and one of them is chosen as the victim.
Deadlocked(t) ==
    \E s \in Tasks \ {t} :
        LET waits(x, y) ==
              /\ pc[x] = "unlinked"
              /\ pc[y] = "linkedOld" \/ pc[y] = "consumed"
              /\ Edge(x) = Edge(y)
        IN  waits(s, t) \/ waits(t, s)

DeadlockVictim(t) == Deadlocked(t) /\ Abort(t)

Lock(t) == LockLow(t) \/ LockHigh(t) \/ LockPair(t)

Statement(t) ==
    \/ CheckUnblocked(t) \/ RefuseBlocked(t)
    \/ Block(t) \/ Unblock(t)
    \/ Follow(t) \/ UnfollowRow(t) \/ UnfollowNothing(t) \/ UnfollowCascade(t)
    \/ Request(t) \/ Withdraw(t) \/ Revoke(t)
    \/ AcceptConsume(t) \/ AcceptNothing(t) \/ AcceptLink(t) \/ AcceptCommit(t)
    \/ React(t)

Step(t) == Lock(t) \/ Statement(t)

Next == \/ \E t \in Tasks : \/ \E c \in Calls : Begin(t, c)
                            \/ Step(t)
                            \/ Abort(t)
        \/ \E e \in SG!Edges : Unreact(e)

Spec == Init /\ [][Next]_vars

\* PostgreSQL runs every statement it accepted, grants an advisory lock or a row
\* to its waiters in the order they came (so what keeps being freed is obtained:
\* strong fairness), and breaks deadlocks.  Nothing makes a client send a
\* request, and nothing makes a transaction fail.
Fairness == \A t \in Tasks : SF_vars(Step(t)) /\ WF_vars(DeadlockVictim(t))

FairSpec == Spec /\ Fairness

-----------------------------------------------------------------------------
(* Properties.                                                             *)

\* Nothing ties two users together while a block separates them: no follow, no
\* pending request, no approval and no reaction or vote, in either direction,
\* whichever handlers were in flight when the block committed (README.md:112).
NoTieAcrossBlock ==
    \A e \in blocks : /\ SG!Between(e) \intersect follows = {}
                      /\ SG!Between(e) \intersect requests = {}
                      /\ SG!Between(e) \intersect approvals = {}
                      /\ SG!Between(e) \intersect feedback = {}

\* An approval stands on a follow edge, and never beside a pending request of
\* the same direction, though unfollow_user takes no pair lock
\* (docs/social-capabilities.md:46).
ApprovalCoherent == /\ approvals \subseteq follows
                    /\ approvals \intersect requests = {}

\* An accept that found the follow edge already there still finds it when it
\* inserts the approval that references it: the request row it has deleted
\* keeps a concurrent unfollow from committing.
AcceptedEdgeStays ==
    \A t \in Tasks : pc[t] = "linkedOld" => Edge(t) \in follows

\* A follow edge becomes approved only by consuming the pending request of its
\* requester, and a request is never turned into an edge without an approval
\* when its row disappears because of an accept.
ApprovalConsumesRequest ==
    [][\A e \in SG!Edges :
          e \in approvals' /\ e \notin approvals
             => e \in requests /\ e \notin requests' /\ e \in follows']_vars

\* Every step of every handler is one indivisible operation of SocialGraph or
\* changes no committed row: what concurrent handlers do is what some order of
\* atomic operations would do.
ImplementsSocialGraph == SG!Spec

\* Every handler returns: the order in which advisory locks are taken leaves no
\* cycle, and the only row-lock cycle (accept against unfollow) is broken.
EveryCallReturns == \A t \in Tasks : pc[t] # "idle" ~> pc[t] = "idle"
=============================================================================
