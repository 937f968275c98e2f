----------------------------- MODULE SocialGraph -----------------------------
(***************************************************************************)
(* What the service promises about relationships between users: the five   *)
(* committed relations, each changed by one indivisible operation.         *)
(* Relationships refines this specification: whatever handlers interleave, *)
(* their commits look like these steps.                                    *)
(*                                                                         *)
(* An edge is an ordered pair <<from, to>>.  feedback holds <<u, a>> when  *)
(* user u has a reaction or a vote on content written by a.                *)
(***************************************************************************)
CONSTANTS Users,          \* the users of one app (rows are scoped by app_id)
          BlocksEnabled   \* whether SOCIAL_FEATURES enables `blocks'

VARIABLES blocks,      \* user_blocks: <<blocker, blocked>>
          follows,     \* follows: <<follower, followed>>
          requests,    \* follow_requests: <<requester, target>>
          approvals,   \* follow_approvals: <<requester, target>>
          feedback     \* reactions and votes: <<user, author>>

tables == <<blocks, follows, requests, approvals, feedback>>

Edges == {e \in Users \X Users : e[1] # e[2]}

Reverse(e) == <<e[2], e[1]>>

\* The four ordered and unordered ways two users are tied together.
Between(e) == {e, Reverse(e)}

\* social_users_blocked: a block in either direction separates the pair.
Blocked(e) == BlocksEnabled /\ (e \in blocks \/ Reverse(e) \in blocks)

Init == /\ blocks = {}
        /\ follows = {}
        /\ requests = {}
        /\ approvals = {}
        /\ feedback = {}

-----------------------------------------------------------------------------
\* Blocking severs everything between the two users, in both directions.
Block(e) == /\ BlocksEnabled
            /\ blocks' = blocks \union {e}
            /\ follows' = follows \ Between(e)
            /\ requests' = requests \ Between(e)
            /\ approvals' = approvals \ Between(e)
            /\ feedback' = feedback \ Between(e)

\* Unblocking restores nothing.
Unblock(e) == /\ BlocksEnabled
              /\ blocks' = blocks \ {e}
              /\ UNCHANGED <<follows, requests, approvals, feedback>>

Follow(e) == /\ ~Blocked(e)
             /\ follows' = follows \union {e}
             /\ UNCHANGED <<blocks, requests, approvals, feedback>>

\* Unfollowing takes the approval and a pending request along.  Revoking an
\* approval removes the same edge, on behalf of the followed user.
Unfollow(e) == /\ e \in follows
               /\ follows' = follows \ {e}
               /\ requests' = requests \ {e}
               /\ approvals' = approvals \ {e}
               /\ UNCHANGED <<blocks, feedback>>

Request(e) == /\ ~Blocked(e)
              /\ e \notin approvals
              /\ requests' = requests \union {e}
              /\ UNCHANGED <<blocks, follows, approvals, feedback>>

\* Cancelled by the requester or declined by the target.
Withdraw(e) == /\ requests' = requests \ {e}
               /\ UNCHANGED <<blocks, follows, approvals, feedback>>

\* Accepting consumes the request and makes a durable, approved follow edge.
Accept(e) == /\ ~Blocked(e)
             /\ e \in requests
             /\ requests' = requests \ {e}
             /\ follows' = follows \union {e}
             /\ approvals' = approvals \union {e}
             /\ UNCHANGED <<blocks, feedback>>

React(e) == /\ ~Blocked(e)
            /\ feedback' = feedback \union {e}
            /\ UNCHANGED <<blocks, follows, requests, approvals>>

Unreact(e) == /\ feedback' = feedback \ {e}
              /\ UNCHANGED <<blocks, follows, requests, approvals>>

Next == \E e \in Edges :
          \/ Block(e) \/ Unblock(e)
          \/ Follow(e) \/ Unfollow(e)
          \/ Request(e) \/ Withdraw(e) \/ Accept(e)
          \/ React(e) \/ Unreact(e)

Spec == Init /\ [][Next]_tables
=============================================================================
