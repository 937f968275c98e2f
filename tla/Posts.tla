--------------------------------- MODULE Posts ---------------------------------
(***************************************************************************)
(* Posts of one app and who may read them.  A task is one in-flight        *)
(* request that has to see a post: it reads the post, loads it, lists its  *)
(* comments, saves it or comments on it.  The visibility checks are        *)
(* statements on the pool, one after the other, without locks.             *)
(*                                                                         *)
(* What the checks read is changed by the other handlers, each one step    *)
(* here: relationships (module Relationships shows that they commit as     *)
(* one), account and content states (ModerationAuthority), posts and saves.*)
(* A restart may change the capabilities of the deployment; it keeps every *)
(* row and ends every request.                                             *)
(***************************************************************************)
EXTENDS Naturals, FiniteSets

CONSTANTS Users, Posts, Comments, Media, Tasks,
          Nobody,       \* the viewer of a request without a user
          Author,       \* post -> its author: ids are fresh, so each has its own
          Owner,        \* media -> the user who registered it
          Edges,        \* whom users ask to follow, and mute: <<from, to>>
          BlockEdges,   \* whom users ask to block: <<from, to>>
          Suspects,     \* the users whom moderators suspend
          Deployments,  \* the sets of optional capabilities deployed
          Requests      \* the requests that tasks serve

Capabilities == {"follow_requests", "blocks", "mutes", "moderation"}
Pairs == {e \in Users \X Users : e[1] # e[2]}

ASSUME NobodyAssumption == Nobody \notin Users
ASSUME AuthorAssumption == Author \in [Posts -> Users]
ASSUME OwnerAssumption == Owner \in [Media -> Users]
ASSUME EdgesAssumption == Edges \subseteq Pairs /\ BlockEdges \subseteq Pairs
ASSUME SuspectsAssumption == Suspects \subseteq Users
ASSUME DeploymentsAssumption == Deployments \subseteq SUBSET Capabilities

VARIABLES deployed,   \* the capabilities enabled
          audience,   \* post -> its audience, or "none" before it exists
          deleted,    \* the posts deleted
          attached,   \* post_media: <<post, media>>
          comments,   \* comments of posts that exist
          saves,      \* post_saves: <<user, post>>
          follows, approvals, blocks, mutes,   \* <<from, to>>
          suspended,  \* moderation_account_states: suspended or banned
          hidden,     \* moderation_content_states: posts, comments and media not active
          pc, call    \* task -> position, request served

posts == <<audience, deleted, attached, comments, saves>>
ties == <<follows, approvals, blocks, mutes>>
states == <<suspended, hidden>>
vars == <<deployed, posts, ties, states, pc, call>>

Audiences == {"public", "owner_only", "approved_followers"}
Content == Posts \union Comments \union Media

\* "read": get_post, or list_root_comments.
Reads == [op : {"read"}, viewer : Users \union {Nobody}, post : Posts]
Writes == [op : {"save", "comment"}, viewer : Users, post : Posts]
NoCall == [op |-> "none"]

ASSUME RequestsAssumption == Requests \subseteq Reads \union Writes

Steps == {"idle", "user", "load", "audience", "blocked", "account", "content", "act", "answered"}

TypeOK == /\ deployed \in Deployments
          /\ audience \in [Posts -> Audiences \union {"none"}]
          /\ deleted \subseteq Posts
          /\ attached \subseteq Posts \X Media
          /\ comments \subseteq [id : Comments, post : Posts, author : Users]
          /\ saves \subseteq Users \X Posts
          /\ follows \subseteq Edges
          /\ approvals \subseteq follows
          /\ blocks \subseteq BlockEdges
          /\ mutes \subseteq Edges
          /\ suspended \subseteq Suspects
          /\ hidden \subseteq Content
          /\ pc \in [Tasks -> Steps]
          /\ call \in [Tasks -> Requests \union {NoCall}]

Init == /\ deployed \in Deployments
        /\ audience = [p \in Posts |-> "none"]
        /\ deleted = {} /\ attached = {} /\ comments = {} /\ saves = {}
        /\ follows = {} /\ approvals = {} /\ blocks = {} /\ mutes = {}
        /\ suspended = {} /\ hidden = {}
        /\ pc = [t \in Tasks |-> "idle"]
        /\ call = [t \in Tasks |-> NoCall]

Enabled(capability) == capability \in deployed

-----------------------------------------------------------------------------
(* What each check asks.                                                   *)

Exists(p) == audience[p] # "none" /\ p \notin deleted

\* ensure_post_audience.
AudienceAllows(v, p) ==
    \/ v = Author[p]
    \/ audience[p] = "public"
    \/ /\ audience[p] = "approved_followers"
       /\ Enabled("follow_requests")
       /\ <<v, Author[p]>> \in approvals

\* social_users_blocked.
Blocked(u, w) == <<u, w>> \in blocks \/ <<w, u>> \in blocks

\* Mutant: the blocks of one's own only.
OwnBlocksOnly(v, u) == Enabled("blocks") => <<v, u>> \notin blocks

\* ensure_not_blocked.
NotBlocked(v, u) == Enabled("blocks") /\ v # Nobody /\ v # u => ~Blocked(v, u)

\* ensure_account_visible.
AccountVisible(u) == Enabled("moderation") => u \notin suspended

\* ensure_content_visible.
ContentVisible(x) == Enabled("moderation") => x \notin hidden

\* ensure_user_can, but for restrictions, which refuse like any failure.
UserCan(u) == Enabled("moderation") => u \notin suspended

Grounds == {"exists", "audience", "unblocked", "account", "content"}

\* The ground g of viewer v for post p.
Holds(g, v, p) ==
    CASE g = "exists"    -> Exists(p)
      [] g = "audience"  -> AudienceAllows(v, p)
      [] g = "unblocked" -> NotBlocked(v, Author[p])
      [] g = "account"   -> AccountVisible(Author[p])
      [] g = "content"   -> ContentVisible(p)

\* get_post answers, if nothing changes while it asks.
PostReadable(v, p) == \A g \in Grounds : Holds(g, v, p)

-----------------------------------------------------------------------------
(* What each list shows: the WHERE clauses, one conjunct each.             *)

\* The posts of a list that repeats the policy in its statement.
ListAllows(v, p) ==
    /\ Exists(p)
    /\ \/ v = Author[p]
       \/ audience[p] = "public"
       \/ /\ Enabled("follow_requests")
          /\ audience[p] = "approved_followers"
          /\ <<v, Author[p]>> \in approvals
    /\ Enabled("moderation") => p \notin hidden /\ Author[p] \notin suspended
    /\ Enabled("blocks") => ~Blocked(v, Author[p])

\* list_saved_posts.
SavedList(v) == {p \in Posts : <<v, p>> \in saves /\ ListAllows(v, p)}

\* timeline.
Timeline(v) ==
    {p \in Posts : /\ v = Author[p] \/ <<v, Author[p]>> \in follows
                   /\ ListAllows(v, p)
                   /\ Enabled("mutes") => <<v, Author[p]>> \notin mutes}

\* Mutant: comments of suspended authors stay listed.
CommentsOfAll(v, p) ==
    {c \in comments : /\ c.post = p
                      /\ Enabled("moderation") => c.id \notin hidden
                      /\ Enabled("blocks") => ~Blocked(v, c.author)
                      /\ Enabled("mutes") => <<v, c.author>> \notin mutes}

\* list_root_comments, after its checks of the post.
CommentsShown(v, p) ==
    {c \in comments : /\ c.post = p
                      /\ Enabled("moderation") => c.id \notin hidden /\ c.author \notin suspended
                      /\ Enabled("blocks") => ~Blocked(v, c.author)
                      /\ Enabled("mutes") => <<v, c.author>> \notin mutes}

\* load_media_ids.
MediaShown(p) == {m \in Media : /\ <<p, m>> \in attached
                                /\ Enabled("moderation") => m \notin hidden}

\* ensure_reportable_target of a comment: it asks neither blocks nor mutes of
\* the comment's author.
ReportableComment(v, c) == /\ c.author \notin suspended
                           /\ c.id \notin hidden
                           /\ PostReadable(v, c.post)

\* media_visible_to_reporter, for media of no message.
ReportableMedia(v, m) ==
    /\ m \notin hidden
    /\ \/ Owner[m] = v
       \/ \E p \in Posts : <<p, m>> \in attached /\ PostReadable(v, p)

-----------------------------------------------------------------------------
(* The requests of the tasks.                                              *)

Begin(t) == /\ pc[t] = "idle"
            /\ \E r \in Requests :
                 /\ call' = [call EXCEPT ![t] = r]
                 /\ pc' = [pc EXCEPT ![t] = IF r.op = "comment" THEN "user" ELSE "load"]
            /\ UNCHANGED <<deployed, posts, ties, states>>

EnsureUserCan(t) == /\ pc[t] = "user"
                    /\ UserCan(call[t].viewer)
                    /\ pc' = [pc EXCEPT ![t] = "load"]
                    /\ UNCHANGED <<deployed, posts, ties, states, call>>

\* The ground a step asks for.
GroundOf == [load |-> "exists", audience |-> "audience", blocked |-> "unblocked",
             account |-> "account", content |-> "content"]

\* Mutant: the state of the author's account is not asked for.
FollowingButAccount == [load |-> "audience", audience |-> "blocked", blocked |-> "content",
                        account |-> "content", content |-> "act"]

Following == [load |-> "audience", audience |-> "blocked", blocked |-> "account",
              account |-> "content", content |-> "act"]

\* One statement of load_post, ensure_post_visible, ensure_post_record_visible.
Check(t) == /\ pc[t] \in DOMAIN Following
            /\ Holds(GroundOf[pc[t]], call[t].viewer, call[t].post)
            /\ pc' = [pc EXCEPT ![t] = Following[@]]
            /\ UNCHANGED <<deployed, posts, ties, states, call>>

\* The read of the media or the comments.
Read(t) == /\ pc[t] = "act"
           /\ call[t].op = "read"
           /\ pc' = [pc EXCEPT ![t] = "answered"]
           /\ UNCHANGED <<deployed, posts, ties, states, call>>

\* The rows refer to the post: the insertion fails when it is gone.
Save(t) == /\ pc[t] = "act"
           /\ call[t].op = "save"
           /\ Exists(call[t].post)
           /\ saves' = saves \union {<<call[t].viewer, call[t].post>>}
           /\ pc' = [pc EXCEPT ![t] = "answered"]
           /\ UNCHANGED <<deployed, audience, deleted, attached, comments, ties, states, call>>

Comment(t) == /\ pc[t] = "act"
              /\ call[t].op = "comment"
              /\ Exists(call[t].post)
              /\ \E c \in Comments \ ({k.id : k \in comments} \union hidden) :
                   comments' = comments \union
                       {[id |-> c, post |-> call[t].post, author |-> call[t].viewer]}
              /\ pc' = [pc EXCEPT ![t] = "answered"]
              /\ UNCHANGED <<deployed, audience, deleted, attached, saves, ties, states, call>>

\* A request ends at any step: answered, refused by its check, or failed.
Finish(t) == /\ pc[t] # "idle"
             /\ pc' = [pc EXCEPT ![t] = "idle"]
             /\ call' = [call EXCEPT ![t] = NoCall]
             /\ UNCHANGED <<deployed, posts, ties, states>>

-----------------------------------------------------------------------------
(* The other handlers, each with the effect of its commit.                 *)

\* resolve_post_audience: the audience asked for, and whether it is taken;
\* "none" stands for a field left out.
ResolvedAudience(visibility, asked) ==
    CASE asked # "none"         -> asked
      [] visibility = "private" -> "owner_only"
      [] OTHER                  -> "public"

AudienceTaken(visibility, asked) ==
    LET a == ResolvedAudience(visibility, asked)
    IN  /\ a = "approved_followers" => Enabled("follow_requests")
        /\ visibility = "public" => a = "public"
        /\ visibility = "private" => a # "public"

CreatePost(p, visibility, asked, S) ==
    /\ audience[p] = "none"
    /\ UserCan(Author[p])
    /\ AudienceTaken(visibility, asked)
    /\ \A m \in S : Owner[m] = Author[p]
    /\ audience' = [audience EXCEPT ![p] = ResolvedAudience(visibility, asked)]
    /\ attached' = attached \union ({p} \X S)
    /\ UNCHANGED <<deployed, deleted, comments, saves, ties, states, pc, call>>

\* The rows that refer to the post go with it; its content state stays.
DeletePost(p) ==
    /\ Exists(p)
    /\ UserCan(Author[p])
    /\ deleted' = deleted \union {p}
    /\ attached' = {a \in attached : a[1] # p}
    /\ comments' = {c \in comments : c.post # p}
    /\ saves' = {s \in saves : s[2] # p}
    /\ UNCHANGED <<deployed, audience, ties, states, pc, call>>

Unsave(v, p) ==
    /\ saves' = saves \ {<<v, p>>}
    /\ UNCHANGED <<deployed, audience, deleted, attached, comments, ties, states, pc, call>>

Tie == UNCHANGED <<deployed, posts, states, pc, call>>

Follow(e) == /\ UserCan(e[1])
             /\ NotBlocked(e[1], e[2])
             /\ AccountVisible(e[2])
             /\ follows' = follows \union {e}
             /\ UNCHANGED <<approvals, blocks, mutes>> /\ Tie

\* Mutant: the approval stays.
UnfollowOnly(e) == /\ UserCan(e[1])
                   /\ follows' = follows \ {e}
                   /\ UNCHANGED <<approvals, blocks, mutes>> /\ Tie

\* The approval refers to the follow and goes with it.
Unfollow(e) == /\ UserCan(e[1])
               /\ follows' = follows \ {e}
               /\ approvals' = approvals \ {e}
               /\ UNCHANGED <<blocks, mutes>> /\ Tie

\* e[2] accepts a request e[1] has made.
Accept(e) == /\ Enabled("follow_requests")
             /\ UserCan(e[2]) /\ UserCan(e[1])
             /\ NotBlocked(e[1], e[2])
             /\ follows' = follows \union {e}
             /\ approvals' = approvals \union {e}
             /\ UNCHANGED <<blocks, mutes>> /\ Tie

Revoke(e) == /\ Enabled("follow_requests")
             /\ e \in approvals
             /\ follows' = follows \ {e}
             /\ approvals' = approvals \ {e}
             /\ UNCHANGED <<blocks, mutes>> /\ Tie

Block(e) == LET between == {e, <<e[2], e[1]>>}
            IN  /\ Enabled("blocks")
                /\ blocks' = blocks \union {e}
                /\ follows' = follows \ between
                /\ approvals' = approvals \ between
                /\ UNCHANGED mutes /\ Tie

Unblock(e) == /\ Enabled("blocks")
              /\ blocks' = blocks \ {e}
              /\ UNCHANGED <<follows, approvals, mutes>> /\ Tie

Mute(e) == /\ Enabled("mutes")
           /\ mutes' = mutes \union {e}
           /\ UNCHANGED <<follows, approvals, blocks>> /\ Tie

Unmute(e) == /\ Enabled("mutes")
             /\ mutes' = mutes \ {e}
             /\ UNCHANGED <<follows, approvals, blocks>> /\ Tie

SetAccountState(u) ==
    /\ Enabled("moderation")
    /\ suspended' \in {suspended \union {u}, suspended \ {u}}
    /\ UNCHANGED <<deployed, posts, ties, hidden, pc, call>>

\* target_exists: media stay once registered.
TargetExists(x) == \/ x \in Media
                   \/ x \in Posts /\ Exists(x)
                   \/ \E c \in comments : c.id = x

SetContentState(x) ==
    /\ Enabled("moderation")
    /\ TargetExists(x)
    /\ hidden' \in {hidden \union {x}, hidden \ {x}}
    /\ UNCHANGED <<deployed, posts, ties, suspended, pc, call>>

Restart(D) == /\ deployed' = D
              /\ pc' = [t \in Tasks |-> "idle"]
              /\ call' = [t \in Tasks |-> NoCall]
              /\ UNCHANGED <<posts, ties, states>>

World ==
    \/ \E p \in Posts :
         \/ \E visibility \in {"none", "public", "private"}, asked \in Audiences \union {"none"},
              S \in SUBSET Media : CreatePost(p, visibility, asked, S)
         \/ DeletePost(p)
         \/ \E v \in Users : Unsave(v, p)
    \/ \E e \in Edges : Follow(e) \/ Unfollow(e) \/ Accept(e) \/ Revoke(e) \/ Mute(e) \/ Unmute(e)
    \/ \E e \in BlockEdges : Block(e) \/ Unblock(e)
    \/ \E u \in Suspects : SetAccountState(u)
    \/ \E x \in Content : SetContentState(x)
    \/ \E D \in Deployments : Restart(D)

Next == \/ \E t \in Tasks : \/ Begin(t) \/ EnsureUserCan(t) \/ Check(t)
                           \/ Read(t) \/ Save(t) \/ Comment(t) \/ Finish(t)
        \/ World

Spec == Init /\ [][Next]_vars

-----------------------------------------------------------------------------
(* What the reads promise.                                                 *)

\* Four statements repeat the policy of posts: the chain of checks, the saved
\* posts, the timeline, each in its own words.  Whatever was saved, followed
\* or approved before, a list shows a post exactly when its single read would
\* be answered: also while a capability that granted or refused access is
\* switched off and on again (docs/social-capabilities.md:62).
ReadsAgree ==
    \A v \in Users, p \in Posts :
        /\ p \in SavedList(v) <=> <<v, p>> \in saves /\ PostReadable(v, p)
        /\ p \in Timeline(v) <=>
              /\ PostReadable(v, p)
              /\ v = Author[p] \/ <<v, Author[p]>> \in follows
              /\ Enabled("mutes") => <<v, Author[p]>> \notin mutes

\* Whatever a user is shown can be reported by that user: the checks of a
\* report, written once more in routes/moderation.rs, refuse no comment and no
\* media of a post that the user reads.
ShownIsReportable ==
    Enabled("moderation") =>
        \A v \in Users, p \in Posts : PostReadable(v, p) =>
            /\ \A c \in CommentsShown(v, p) : ReportableComment(v, c)
            /\ \A m \in MediaShown(p) : ReportableMedia(v, m)

-----------------------------------------------------------------------------
(* The refinement of PostGate.                                             *)

\* The grounds that the checks before a step have found.
Cleared(step) == CASE step = "audience" -> {"exists"}
                   [] step = "blocked"  -> {"exists", "audience"}
                   [] step = "account"  -> {"exists", "audience", "unblocked"}
                   [] step = "content"  -> {"exists", "audience", "unblocked", "account"}
                   [] step = "act"      -> Grounds
                   [] OTHER             -> {}

GateStatus(t) == CASE pc[t] = "idle"     -> "idle"
                   [] pc[t] = "answered" -> "answered"
                   [] OTHER              -> "asking"

\* The grounds that hold now for the request of t.
OpenTo(t) == IF pc[t] = "idle" THEN {}
             ELSE {g \in Grounds : Holds(g, call[t].viewer, call[t].post)}

Gate == INSTANCE PostGate WITH status <- [t \in Tasks |-> GateStatus(t)],
                               open <- [t \in Tasks |-> OpenTo(t)],
                               seen <- [t \in Tasks |-> Cleared(pc[t])]

\* No read, save or comment is answered on a ground that did not hold at a
\* moment of its own request, however ties, states and deployments change
\* between the five statements: what was revoked before the request began
\* grants nothing.
GateRespected == Gate!Spec
=============================================================================
