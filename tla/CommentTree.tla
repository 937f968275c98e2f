----------------------------- MODULE CommentTree -----------------------------
(***************************************************************************)
(* What the service promises about the comments under one post: a forest   *)
(* that grows under live comments and loses only leaves, one indivisible   *)
(* operation at a time.  Comments refines this specification.              *)
(***************************************************************************)
CONSTANTS Comments,   \* comment ids; each is given out once
          NoComment   \* the parent of a root comment

VARIABLES posted,   \* the post exists
          live,     \* comments that can be read and answered
          tombs,    \* tombstones: deleted_at is set and the body is empty
          parent,   \* parent_comment_id of every id given out
          used      \* ids given out so far

tree == <<posted, live, tombs, parent, used>>

Rows == live \union tombs
Children(c) == {d \in Rows : parent[d] = c}
Fresh == Comments \ used

\* c has been answered at some time.
Answered(c) == \E d \in used : parent[d] = c

Init == /\ posted = TRUE
        /\ live = {}
        /\ tombs = {}
        /\ parent = [c \in Comments |-> NoComment]
        /\ used = {}

\* A comment is added under p, or as a root when p is NoComment.
Add(c, p) == /\ posted
             /\ c \in Fresh
             /\ p \in live \union {NoComment}
             /\ live' = live \union {c}
             /\ parent' = [parent EXCEPT ![c] = p]
             /\ used' = used \union {c}
             /\ UNCHANGED <<posted, tombs>>

\* A comment with replies leaves a tombstone, one never answered disappears.
\* One whose replies have all gone may do either: its deletion may have looked
\* before the last of them went.
Delete(c) == /\ c \in live
             /\ live' = live \ {c}
             /\ \/ Children(c) = {} /\ tombs' = tombs
                \/ Answered(c) /\ tombs' = tombs \union {c}
             /\ UNCHANGED <<posted, parent, used>>

DeletePost == /\ posted
              /\ posted' = FALSE
              /\ live' = {}
              /\ tombs' = {}
              /\ UNCHANGED <<parent, used>>

Next == \/ \E c \in Comments : Delete(c) \/ \E p \in Comments \union {NoComment} : Add(c, p)
        \/ DeletePost

Spec == Init /\ [][Next]_tree
=============================================================================
