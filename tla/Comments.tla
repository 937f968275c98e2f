------------------------------ MODULE Comments ------------------------------
(***************************************************************************)
(* The handlers of the comments under one post: create_comment,            *)
(* create_reply, delete_comment, and delete_post with its cascade.  A task *)
(* is one in-flight request; row locks follow from where it stands.        *)
(*                                                                         *)
(* A reply locks its parent's row, and its insertion locks the post's row  *)
(* against deletion.  delete_post takes the same locks the other way       *)
(* round: the post's row first and then, by the cascade of the foreign     *)
(* key, the rows of the comments one after the other.                      *)
(***************************************************************************)
CONSTANTS Comments, NoComment, Tasks

ASSUME NoCommentAssumption == NoComment \notin Comments

VARIABLES posted, live, tombs, parent, used,   \* committed rows, as in CommentTree
          pc, call,   \* task -> where its handler stands, what it was asked
          counted,    \* task -> has_children, as delete_comment read it
          taken       \* task -> the rows its cascade has deleted so far

tree == <<posted, live, tombs, parent, used>>
vars == <<tree, pc, call, counted, taken>>

CT == INSTANCE CommentTree

Calls ==      [op : {"comment", "deletePost"}, target : {NoComment}]
       \union [op : {"reply", "delete"}, target : Comments]
NoCall == [op |-> "none"]

Steps == {"idle", "ready", "insert", "children", "remove", "cascade"}

TypeOK == /\ posted \in BOOLEAN
          /\ live \subseteq Comments
          /\ tombs \subseteq Comments
          /\ parent \in [Comments -> Comments \union {NoComment}]
          /\ used \subseteq Comments
          /\ pc \in [Tasks -> Steps]
          /\ call \in [Tasks -> Calls \union {NoCall}]
          /\ counted \in [Tasks -> BOOLEAN]
          /\ taken \in [Tasks -> SUBSET Comments]

Init == /\ CT!Init
        /\ pc = [t \in Tasks |-> "idle"]
        /\ call = [t \in Tasks |-> NoCall]
        /\ counted = [t \in Tasks |-> FALSE]
        /\ taken = [t \in Tasks |-> {}]

Goto(t, step) == pc' = [pc EXCEPT ![t] = step]

Target(t) == call[t].target

-----------------------------------------------------------------------------
(* Row locks.                                                              *)

\* The row of comment c is locked by another transaction: by a reply under it,
\* by its deletion, or by a cascade that has deleted it.
RowBusy(c, t) ==
    \E s \in Tasks \ {t} :
        \/ pc[s] \in {"insert", "children", "remove"} /\ Target(s) = c
        \/ c \in taken[s]

\* The post's row is deleted by a transaction that has not committed.
PostBusy(t) == \E s \in Tasks \ {t} : pc[s] = "cascade"

-----------------------------------------------------------------------------
(* Control.                                                                *)

\* Adding a comment requires a visible post, checked on the pool; an id that a
\* request names has been given out.
Begin(t, c) ==
    /\ pc[t] = "idle"
    /\ c.op \in {"comment", "reply"} => posted
    /\ c.op \in {"reply", "delete"} => c.target \in used
    /\ Goto(t, IF c.op = "comment" THEN "insert" ELSE "ready")
    /\ call' = [call EXCEPT ![t] = c]
    /\ UNCHANGED <<tree, counted, taken>>

Return(t) ==
    /\ Goto(t, "idle")
    /\ call' = [call EXCEPT ![t] = NoCall]
    /\ counted' = [counted EXCEPT ![t] = FALSE]
    /\ taken' = [taken EXCEPT ![t] = {}]

\* A refused, failed or dropped request rolls back, wherever it stands.
Abort(t) == pc[t] # "idle" /\ Return(t) /\ UNCHANGED tree

Ready(t, op) == pc[t] = "ready" /\ call[t].op = op

-----------------------------------------------------------------------------
(* create_comment and create_reply.                                        *)

\* Mutant: the parent is read without FOR UPDATE.
ReadParent(t) ==
    /\ Ready(t, "reply")
    /\ Target(t) \in live
    /\ Goto(t, "insert")
    /\ UNCHANGED <<tree, call, counted, taken>>

\* SELECT .. FOR UPDATE of the parent waits for its row, and then finds it only
\* if it is not a tombstone.
LockParent(t) ==
    /\ Ready(t, "reply")
    /\ Target(t) \in live
    /\ ~RowBusy(Target(t), t)
    /\ Goto(t, "insert")
    /\ UNCHANGED <<tree, call, counted, taken>>

NoParent(t) ==
    /\ Ready(t, "reply")
    /\ Target(t) \notin live
    /\ Return(t)
    /\ UNCHANGED tree

\* Mutant: the post bound where the parent belongs.
InsertUnderPost(t) ==
    /\ pc[t] = "insert"
    /\ ~PostBusy(t)
    /\ posted
    /\ \E c \in CT!Fresh :
          /\ live' = live \union {c}
          /\ parent' = [parent EXCEPT ![c] = posted]
          /\ used' = used \union {c}
    /\ UNCHANGED <<posted, tombs>>
    /\ Return(t)

\* The insertion, which waits for the post's row, and the commit.
Insert(t) ==
    /\ pc[t] = "insert"
    /\ ~PostBusy(t)
    /\ posted
    /\ \E c \in CT!Fresh :
          /\ live' = live \union {c}
          /\ parent' = [parent EXCEPT ![c] = Target(t)]
          /\ used' = used \union {c}
    /\ UNCHANGED <<posted, tombs>>
    /\ Return(t)

\* Mutant: a handler that waits for a post that has gone.
InsertNeverFails(t) == FALSE

\* The post has gone: its foreign key refuses the comment.  (The ids of this
\* instance may also be used up.)
InsertFails(t) ==
    /\ pc[t] = "insert"
    /\ ~PostBusy(t)
    /\ ~posted \/ CT!Fresh = {}
    /\ Return(t)
    /\ UNCHANGED tree

-----------------------------------------------------------------------------
(* delete_comment.                                                         *)

\* SELECT .. FOR UPDATE of the comment to delete.
LockComment(t) ==
    /\ Ready(t, "delete")
    /\ Target(t) \in live
    /\ ~RowBusy(Target(t), t)
    /\ Goto(t, "children")
    /\ UNCHANGED <<tree, call, counted, taken>>

\* Deleted already, whether it left a tombstone or nothing.
AlreadyDeleted(t) ==
    /\ Ready(t, "delete")
    /\ Target(t) \notin live
    /\ Return(t)
    /\ UNCHANGED tree

\* The statement that looks for children, tombstones among them.
CountChildren(t) ==
    /\ pc[t] = "children"
    /\ counted' = [counted EXCEPT ![t] = CT!Children(Target(t)) # {}]
    /\ Goto(t, "remove")
    /\ UNCHANGED <<tree, call, taken>>

\* The tombstone or the removal, and the commit.
Remove(t) ==
    /\ pc[t] = "remove"
    /\ live' = live \ {Target(t)}
    /\ tombs' = IF counted[t] THEN tombs \union {Target(t)} ELSE tombs
    /\ UNCHANGED <<posted, parent, used>>
    /\ Return(t)

-----------------------------------------------------------------------------
(* delete_post: one statement, whose cascade takes the comments' rows.     *)

DeletePostRow(t) ==
    /\ Ready(t, "deletePost")
    /\ posted
    /\ ~PostBusy(t)
    /\ Goto(t, "cascade")
    /\ UNCHANGED <<tree, call, counted, taken>>

NoPost(t) ==
    /\ Ready(t, "deletePost")
    /\ ~posted
    /\ Return(t)
    /\ UNCHANGED tree

\* The next row of the cascade, in the order of a scan nobody prescribes.
TakeRow(t) ==
    /\ pc[t] = "cascade"
    /\ \E c \in CT!Rows \ taken[t] :
          /\ ~RowBusy(c, t)
          /\ taken' = [taken EXCEPT ![t] = @ \union {c}]
    /\ UNCHANGED <<tree, pc, call, counted>>

CommitPost(t) ==
    /\ pc[t] = "cascade"
    /\ CT!Rows \subseteq taken[t]
    /\ posted' = FALSE
    /\ live' = {}
    /\ tombs' = {}
    /\ UNCHANGED <<parent, used>>
    /\ Return(t)

-----------------------------------------------------------------------------
\* A reply that holds a row which the cascade needs waits for the post's row,
\* which the cascade holds: PostgreSQL aborts one of the two.
Deadlocked(t) ==
    \E s \in Tasks \ {t} :
        LET cycle(x, y) == /\ pc[x] = "insert" /\ call[x].op = "reply"
                           /\ pc[y] = "cascade"
        IN  cycle(s, t) \/ cycle(t, s)

DeadlockVictim(t) == Deadlocked(t) /\ Abort(t)

Step(t) == \/ LockParent(t) \/ NoParent(t) \/ Insert(t) \/ InsertFails(t)
           \/ LockComment(t) \/ AlreadyDeleted(t) \/ CountChildren(t) \/ Remove(t)
           \/ DeletePostRow(t) \/ NoPost(t) \/ TakeRow(t) \/ CommitPost(t)

Next == \E t \in Tasks : (\E c \in Calls : Begin(t, c)) \/ Step(t) \/ Abort(t)

Spec == Init /\ [][Next]_vars

\* PostgreSQL runs what it accepted, serves the waiters of a row in turn (strong
\* fairness) and breaks deadlocks.
FairSpec == Spec /\ \A t \in Tasks : SF_vars(Step(t)) /\ WF_vars(DeadlockVictim(t))

-----------------------------------------------------------------------------
(* Properties.                                                             *)

\* Deleting a comment never destroys a branch: the parent of every comment is
\* still there, alive or as a tombstone (docs/social-capabilities.md:21).
ParentStands == \A c \in CT!Rows : parent[c] \in CT!Rows \union {NoComment}

\* Between the insertion of a reply and its commit nothing deletes or empties the
\* comment it answers, so the deferred foreign key never refuses a reply.
AnsweredCommentStays ==
    \A t \in Tasks : pc[t] = "insert" /\ call[t].op = "reply" => Target(t) \in live

\* delete_comment decides between removal and tombstone on what is still true
\* when it acts: no reply arrives in between, and no child disappears unnoticed
\* in a way that would remove a comment with children.
CountStillTrue ==
    \A t \in Tasks : pc[t] = "remove" /\ ~counted[t] => CT!Children(Target(t)) = {}

\* Every step of the handlers is one operation of CommentTree, or none.
ImplementsCommentTree == CT!Spec

\* Every request returns, though replies and delete_post lock in opposite orders.
EveryCallReturns == \A t \in Tasks : pc[t] # "idle" ~> pc[t] = "idle"
=============================================================================
