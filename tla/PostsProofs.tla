------------------------------ MODULE PostsProofs ------------------------------
(***************************************************************************)
(* Posts and the features that decide what is deployed.  For any users,    *)
(* posts, requests and deployments: the reads of posts agree, what is      *)
(* shown can be reported, and the checks implement PostGate.  For any      *)
(* feature requests: what resolve returns is closed, minimal and bounded.  *)
(***************************************************************************)
EXTENDS Posts, Features, TLAPS

\* The environment of the requests keeps types.
LEMMA WorldTypes == ASSUME TypeOK, World PROVE TypeOK'
<1> USE DEF TypeOK, posts, ties, states, Tie
<1>1. CASE \E p \in Posts, visibility \in {"none", "public", "private"},
              asked \in Audiences \union {"none"}, S \in SUBSET Media :
              CreatePost(p, visibility, asked, S)
  <2>1. PICK p \in Posts, visibility \in {"none", "public", "private"},
             asked \in Audiences \union {"none"}, S \in SUBSET Media :
             CreatePost(p, visibility, asked, S)
    BY <1>1
  <2>2. ResolvedAudience(visibility, asked) \in Audiences
    BY DEF ResolvedAudience, Audiences
  <2> QED BY <2>1, <2>2 DEF CreatePost
<1>2. CASE \E p \in Posts : DeletePost(p) \/ \E v \in Users : Unsave(v, p)
  BY <1>2 DEF DeletePost, Unsave
<1>3. CASE \E e \in Edges : Follow(e) \/ Unfollow(e) \/ Accept(e) \/ Revoke(e)
  BY <1>3 DEF Follow, Unfollow, Accept, Revoke
<1>4. CASE \E e \in Edges : Mute(e) \/ Unmute(e)
  BY <1>4 DEF Mute, Unmute
<1>5. CASE \E e \in BlockEdges : Block(e) \/ Unblock(e)
  BY <1>5 DEF Block, Unblock
<1>6. CASE \E u \in Suspects : SetAccountState(u)
  BY <1>6 DEF SetAccountState
<1>7. CASE \E x \in Content : SetContentState(x)
  BY <1>7 DEF SetContentState
<1>8. CASE \E D \in Deployments : Restart(D)
  BY <1>8 DEF Restart, Steps
<1> QED BY <1>1, <1>2, <1>3, <1>4, <1>5, <1>6, <1>7, <1>8 DEF World

\* A step of a request keeps types.
LEMMA TaskTypes ==
    ASSUME TypeOK, NEW t \in Tasks,
           \/ Begin(t) \/ EnsureUserCan(t) \/ Check(t)
           \/ Read(t) \/ Save(t) \/ Comment(t) \/ Finish(t)
    PROVE  TypeOK'
<1> USE DEF TypeOK, posts, ties, states, Steps
<1>1. CASE Begin(t) BY <1>1 DEF Begin
<1>2. CASE EnsureUserCan(t) BY <1>2 DEF EnsureUserCan
<1>3. CASE Check(t)
  <2>1. Following[pc[t]] \in Steps BY <1>3 DEF Check, Following
  <2> QED BY <1>3, <2>1 DEF Check
<1>4. CASE Read(t) BY <1>4 DEF Read
<1>5. CASE Save(t)
  <2>1. call[t] \in Writes BY <1>5, RequestsAssumption DEF Save, Reads, Writes, NoCall
  <2>2. <<call[t].viewer, call[t].post>> \in Users \X Posts BY <2>1 DEF Writes
  <2> QED BY <1>5, <2>2 DEF Save
<1>6. CASE Comment(t)
  <2>1. call[t] \in Writes BY <1>6, RequestsAssumption DEF Comment, Reads, Writes, NoCall
  <2>2. PICK c \in Comments : comments' = comments \union
            {[id |-> c, post |-> call[t].post, author |-> call[t].viewer]}
    BY <1>6 DEF Comment
  <2>3. comments' \subseteq [id : Comments, post : Posts, author : Users]
    BY <2>1, <2>2 DEF Writes
  <2> QED BY <1>6, <2>3 DEF Comment
<1>7. CASE Finish(t) BY <1>7 DEF Finish
<1> QED BY <1>1, <1>2, <1>3, <1>4, <1>5, <1>6, <1>7

\* Every row refers to users and posts of the app, and an approval to its
\* follow: the ON DELETE CASCADE of migrations/0011_follow_requests.sql.
THEOREM TypeCorrect == Spec => []TypeOK
<1>1. Init => TypeOK BY DEF Init, TypeOK, Steps, Audiences
<1>2. ASSUME TypeOK, [Next]_vars PROVE TypeOK'
  <2>1. CASE UNCHANGED vars BY <1>2, <2>1 DEF TypeOK, vars, posts, ties, states
  <2>2. CASE World BY <1>2, <2>2, WorldTypes
  <2>3. CASE \E t \in Tasks : \/ Begin(t) \/ EnsureUserCan(t) \/ Check(t)
                              \/ Read(t) \/ Save(t) \/ Comment(t) \/ Finish(t)
    BY <1>2, <2>3, TaskTypes
  <2> QED BY <1>2, <2>1, <2>2, <2>3 DEF Next
<1> QED BY <1>1, <1>2, PTL DEF Spec

-----------------------------------------------------------------------------

\* No user blocks oneself, so the lists need no exception for the author.
LEMMA NoSelfBlock == ASSUME TypeOK, NEW u \in Users PROVE ~Blocked(u, u)
BY EdgesAssumption DEF TypeOK, Blocked, Pairs

\* What the chain of checks asks, ground by ground.
LEMMA ReadableMeans ==
    ASSUME NEW v, NEW p
    PROVE  PostReadable(v, p) <=>
             /\ Exists(p)
             /\ AudienceAllows(v, p)
             /\ NotBlocked(v, Author[p])
             /\ AccountVisible(Author[p])
             /\ ContentVisible(p)
BY DEF PostReadable, Grounds, Holds

\* The statements of the lists ask the same of a user.
LEMMA ListsAskTheSame ==
    ASSUME TypeOK, NEW v \in Users, NEW p \in Posts
    PROVE  ListAllows(v, p) <=> PostReadable(v, p)
<1>1. Author[p] \in Users BY AuthorAssumption
<1>2. v # Nobody BY NobodyAssumption
<1>3. NotBlocked(v, Author[p]) <=> (Enabled("blocks") => ~Blocked(v, Author[p]))
  BY <1>1, <1>2, NoSelfBlock DEF NotBlocked
<1> QED BY <1>3, ReadableMeans
      DEF ListAllows, AudienceAllows, AccountVisible, ContentVisible

\* The saved posts and the timeline show what a single read would answer.
THEOREM ListsAgree == Spec => []ReadsAgree
<1>1. TypeOK => ReadsAgree
  BY ListsAskTheSame DEF ReadsAgree, SavedList, Timeline
<1> QED BY <1>1, TypeCorrect, PTL

\* The comments and media shown with a post can be reported by its reader.
THEOREM ShownReportable == Spec => []ShownIsReportable
<1>1. ShownIsReportable
  BY DEF ShownIsReportable, CommentsShown, MediaShown, ReportableComment, ReportableMedia
<1> QED BY <1>1, PTL

-----------------------------------------------------------------------------

\* What a task cannot see changes nothing of its status and its grounds found.
LEMMA OthersStep ==
    ASSUME UNCHANGED pc
    PROVE  [Gate!Next]_(Gate!vars)
<1>1. [t \in Tasks |-> OpenTo(t)]' \in [Tasks -> SUBSET Grounds]
  BY DEF OpenTo
<1>2. Gate!World BY <1>1 DEF Gate!World
<1>3. Gate!End({}) BY <1>2 DEF Gate!End, GateStatus, Cleared
<1> QED BY <1>3 DEF Gate!Next

\* The checks of every request implement PostGate.
THEOREM GateImplemented == Spec => GateRespected
<1> USE DEF posts, ties, states
<1>1. Init => Gate!Init
  BY DEF Init, Gate!Init, GateStatus, Cleared, OpenTo
<1>2. ASSUME TypeOK, [Next]_vars PROVE [Gate!Next]_(Gate!vars)
  <2> DEFINE Now == [t \in Tasks |-> OpenTo(t)]
  <2>0. Now' \in [Tasks -> SUBSET Grounds] BY DEF OpenTo
  <2>1. CASE UNCHANGED pc BY <2>1, OthersStep
  <2>2. CASE \E D \in Deployments : Restart(D)
    <3>1. Gate!End(Tasks) BY <2>0, <2>2 DEF Restart, Gate!End, Gate!World, GateStatus, Cleared
    <3> QED BY <3>1 DEF Gate!Next
  <2>3. ASSUME NEW t \in Tasks, Begin(t) PROVE Gate!Next
    <3>1. Gate!Ask(t)
      BY <1>2, <2>0, <2>3 DEF Begin, Gate!Ask, Gate!World, GateStatus, Cleared, TypeOK
    <3> QED BY <3>1 DEF Gate!Next
  <2>4. ASSUME NEW t \in Tasks, EnsureUserCan(t) PROVE UNCHANGED Gate!vars
    <3>1. /\ pc[t] = "user" /\ pc' = [pc EXCEPT ![t] = "load"] /\ call' = call
          /\ pc \in [Tasks -> Steps]
      BY <1>2, <2>4 DEF EnsureUserCan, TypeOK
    <3>2. \A s \in Tasks : /\ GateStatus(s)' = GateStatus(s)
                           /\ Cleared(pc'[s]) = Cleared(pc[s])
                           /\ (pc'[s] = "idle") <=> (pc[s] = "idle")
      BY <3>1 DEF GateStatus, Cleared
    <3>3. \A x, v, q : Holds(x, v, q)' <=> Holds(x, v, q)
      BY <2>4 DEF EnsureUserCan, Holds, Exists, AudienceAllows, NotBlocked, Blocked,
           AccountVisible, ContentVisible, Enabled
    <3>4. \A s \in Tasks : OpenTo(s)' = OpenTo(s)
      BY <3>1, <3>2, <3>3 DEF OpenTo
    <3> QED BY <3>2, <3>4 DEF Gate!vars
  <2>5. ASSUME NEW t \in Tasks, Check(t) PROVE Gate!Next
    <3> DEFINE g == GroundOf[pc[t]]
               Found == [s \in Tasks |-> Cleared(pc[s])]
    <3>1. pc[t] \in {"load", "audience", "blocked", "account", "content"}
      BY <2>5 DEF Check, Following
    <3>2. g \in Grounds BY <3>1 DEF GroundOf, Grounds
    <3>3. g \in Now[t] BY <2>5, <3>1, <3>2 DEF Check, OpenTo
    <3>4. Cleared(Following[pc[t]]) = Cleared(pc[t]) \union {g}
      BY <3>1 DEF GroundOf, Following, Cleared, Grounds
    <3>5. pc' = [pc EXCEPT ![t] = Following[pc[t]]] /\ pc \in [Tasks -> Steps]
      BY <1>2, <2>5 DEF Check, TypeOK
    <3>6. Found' = [Found EXCEPT ![t] = @ \union {g}]
      BY <3>4, <3>5
    <3>7. [s \in Tasks |-> GateStatus(s)]' = [s \in Tasks |-> GateStatus(s)]
      BY <3>1, <3>5 DEF GateStatus, Following
    <3>8. \A s \in Tasks : (pc'[s] = "idle") <=> (pc[s] = "idle")
      BY <3>1, <3>5 DEF Following
    <3>9. Now' = Now
      <4>1. \A x, v, q : Holds(x, v, q)' <=> Holds(x, v, q)
        BY <2>5 DEF Check, Holds, Exists, AudienceAllows, NotBlocked, Blocked,
             AccountVisible, ContentVisible, Enabled
      <4>2. call' = call BY <2>5 DEF Check
      <4> QED BY <3>8, <4>1, <4>2 DEF OpenTo
    <3>10. GateStatus(t) = "asking" BY <3>1 DEF GateStatus
    <3>11. Gate!See(t, g)
      BY <3>3, <3>6, <3>7, <3>9, <3>10 DEF Gate!See
    <3> QED BY <3>2, <3>11 DEF Gate!Next
  <2>6. ASSUME NEW t \in Tasks, Read(t) \/ Save(t) \/ Comment(t) PROVE Gate!Next
    <3>1. /\ pc[t] = "act" /\ pc' = [pc EXCEPT ![t] = "answered"]
          /\ pc \in [Tasks -> Steps]
      BY <1>2, <2>6 DEF Read, Save, Comment, TypeOK
    <3>2. [s \in Tasks |-> GateStatus(s)]' =
            [[s \in Tasks |-> GateStatus(s)] EXCEPT ![t] = "answered"]
      BY <3>1 DEF GateStatus
    <3>3. [s \in Tasks |-> Cleared(pc[s])]' =
            [[s \in Tasks |-> Cleared(pc[s])] EXCEPT ![t] = {}]
      BY <3>1 DEF Cleared
    <3>4. GateStatus(t) = "asking" /\ Cleared(pc[t]) = Grounds
      BY <3>1 DEF GateStatus, Cleared
    <3>5. Gate!World BY <2>0 DEF Gate!World
    <3>6. Gate!Answer(t) BY <3>2, <3>3, <3>4, <3>5 DEF Gate!Answer
    <3> QED BY <3>6 DEF Gate!Next
  <2>7. ASSUME NEW t \in Tasks, Finish(t) PROVE Gate!Next
    <3>1. pc' = [pc EXCEPT ![t] = "idle"] /\ pc \in [Tasks -> Steps]
      BY <1>2, <2>7 DEF Finish, TypeOK
    <3>2. Gate!End({t})
      BY <2>0, <3>1 DEF Gate!End, Gate!World, GateStatus, Cleared
    <3> QED BY <3>2 DEF Gate!Next
  <2>8. CASE UNCHANGED vars BY <2>1, <2>8 DEF vars
  <2>9. ASSUME World PROVE UNCHANGED pc \/ \E D \in Deployments : Restart(D)
    BY <2>9 DEF World, CreatePost, DeletePost, Unsave, Follow, Unfollow, Accept, Revoke,
         Mute, Unmute, Block, Unblock, SetAccountState, SetContentState, Tie
  <2> QED BY <1>2, <2>1, <2>2, <2>3, <2>4, <2>5, <2>6, <2>7, <2>8, <2>9 DEF Next
<1> QED BY <1>1, <1>2, TypeCorrect, PTL DEF Spec, GateRespected, Gate!Spec

-----------------------------------------------------------------------------
(* Features: Resolving is the inductive invariant of the loop of resolve:  *)
(* what a pass without a change has established of the features it         *)
(* visited, and that the loop adds only what every closed superset of the  *)
(* request has anyway.                                                     *)


Looping == status \in {"scan", "ok"}

Within == Looping => requested \subseteq effective /\ effective \subseteq available

\* A pass that has changed nothing so far found nothing missing.
PassClosed ==
    status = "scan" /\ ~changed =>
        \A k \in 1..(i - 1) :
            FeatureOrder[k] \in effective => Requires(FeatureOrder[k]) \subseteq effective

EndClosed == status = "ok" => Closed(effective)

Needed == Looping => \A f \in effective \ requested : \E g \in effective : f \in Requires(g)

AvailableClosed == /\ Closed(available)
                   /\ IF phase = "deployment" THEN available = Names
                                              ELSE available = supported

\* S is what a request may not exceed if S contains it.
Bounds(S) == S \subseteq Names /\ requested \subseteq S /\ Closed(S)

Least == /\ phase = "deployment" /\ Looping => \A S : Bounds(S) => effective \subseteq S
         /\ phase = "default" => \A S : Bounds(S) => supported \subseteq S

Resolving == /\ ResolverTypeOK
             /\ Within
             /\ PassClosed
             /\ EndClosed
             /\ Needed
             /\ AvailableClosed
             /\ Least
             /\ DependencyNeverMissing

-----------------------------------------------------------------------------
(* The table of requirements.                                              *)

\* Every requirement names a feature.
LEMMA RequiresNames == \A f : Requires(f) \subseteq Names
<1>1. FeatureOrder[1] = "profiles" /\ FeatureOrder[3] = "posts" /\ FeatureOrder[7] = "follows"
  BY DEF FeatureOrder
<1>2. {1, 3, 7} \subseteq 1..Len(FeatureOrder)
  BY DEF FeatureOrder
<1>3. {"profiles", "posts", "follows"} \subseteq Names
  BY <1>1, <1>2 DEF Names
<1> SUFFICES ASSUME NEW f PROVE Requires(f) \subseteq {"profiles", "posts", "follows"}
  BY <1>3
<1> QED BY DEF Requires

\* So all implemented features are a closed set.
LEMMA NamesClosed == Closed(Names)
BY RequiresNames DEF Closed

\* The loop visits a finite number of features, and may start at the first.
LEMMA LengthNat == Len(FeatureOrder) \in Nat /\ 1 \in 1..(Len(FeatureOrder) + 1)
<1>1. Len(FeatureOrder) = 14
  BY DEF FeatureOrder
<1> QED BY <1>1

\* Every set of optional capabilities is that of a deployment resolve can return, so
\* Posts speaks of no deployment that cannot be.
LEMMA DeploymentsResolve ==
    \A D \in SUBSET Capabilities :
        \E S \in SUBSET Names : Closed(S) /\ S \intersect Capabilities = D
<1> SUFFICES ASSUME NEW D \in SUBSET Capabilities
             PROVE  \E S \in SUBSET Names : Closed(S) /\ S \intersect Capabilities = D
  OBVIOUS
<1> DEFINE S == D \union {"profiles", "follows"}
<1>1. Capabilities \union {"profiles", "follows"} \subseteq Names
  <2>1. /\ FeatureOrder[1] = "profiles" /\ FeatureOrder[7] = "follows"
        /\ FeatureOrder[8] = "follow_requests" /\ FeatureOrder[10] = "blocks"
        /\ FeatureOrder[11] = "mutes" /\ FeatureOrder[14] = "moderation"
    BY DEF FeatureOrder
  <2>2. {1, 7, 8, 10, 11, 14} \subseteq 1..Len(FeatureOrder)
    BY DEF FeatureOrder
  <2> QED BY <2>1, <2>2 DEF Names, Capabilities
<1>2. Closed(S)
  BY DEF Closed, Requires, Capabilities
<1>3. S \intersect Capabilities = D
  BY DEF Capabilities
<1> QED BY <1>1, <1>2, <1>3

-----------------------------------------------------------------------------
(* Resolving is inductive.                                                 *)

\* It holds before the first resolution.
LEMMA ResolvingInit == ResolverInit => Resolving
<1> SUFFICES ASSUME ResolverInit PROVE Resolving
  OBVIOUS
<1>1. ResolverTypeOK
  BY LengthNat DEF ResolverInit, ResolverTypeOK
<1>2. AvailableClosed
  BY NamesClosed DEF ResolverInit, AvailableClosed
<1> QED BY <1>1, <1>2 DEF ResolverInit, Resolving, Within, PassClosed, EndClosed, Needed, Looping,
   Least, DependencyNeverMissing

\* Every step keeps it: one case per action.
LEMMA ResolvingStep ==
    ASSUME Resolving, [ResolverNext]_resolverVars
    PROVE  Resolving'
<1> USE DEF Resolving
<1>1. CASE UNCHANGED resolverVars
  BY <1>1 DEF resolverVars, ResolverTypeOK, Within, PassClosed, EndClosed, Needed, Looping,
     AvailableClosed, Bounds, Least, DependencyNeverMissing
<1>2. CASE CheckRequested
  <2>1. ResolverTypeOK'
    BY <1>2, LengthNat, FeatureRequestsAssumption DEF CheckRequested, ResolverTypeOK
  <2>2. Within' /\ EndClosed' /\ Needed' /\ DependencyNeverMissing'
    BY <1>2 DEF CheckRequested, Within, EndClosed, Needed, Looping, DependencyNeverMissing
  <2>3. PassClosed'
    BY <1>2 DEF CheckRequested, PassClosed
  <2>4. AvailableClosed' /\ Least'
    BY <1>2 DEF CheckRequested, AvailableClosed, Least, Bounds, Looping
  <2> QED BY <2>1, <2>2, <2>3, <2>4
<1>3. CASE Skip
  <2>1. ResolverTypeOK'
    BY <1>3, LengthNat DEF Skip, ResolverTypeOK
  <2>2. /\ Within' /\ EndClosed' /\ Needed' /\ DependencyNeverMissing'
        /\ AvailableClosed' /\ Least'
    BY <1>3 DEF Skip, Within, EndClosed, Needed, Looping, DependencyNeverMissing,
       AvailableClosed, Least, Bounds
  <2>3. PassClosed'
    <3> SUFFICES ASSUME ~changed, NEW k \in 1..(i' - 1), FeatureOrder[k] \in effective
                 PROVE  Requires(FeatureOrder[k]) \subseteq effective
      BY <1>3 DEF Skip, PassClosed
    <3>1. k # i /\ k \in 1..(i - 1)
      BY <1>3 DEF Skip, ResolverTypeOK
    <3> QED BY <1>3, <3>1 DEF Skip, PassClosed
  <2> QED BY <2>1, <2>2, <2>3
<1>4. CASE Visit
  <2> DEFINE needs == Requires(FeatureOrder[i])
  <2>1. needs \subseteq available
    BY <1>4 DEF Visit, AvailableClosed, Closed, Within, Looping
  <2>2. /\ status = "scan" /\ status' = status /\ i' = i + 1 /\ i <= Len(FeatureOrder)
        /\ FeatureOrder[i] \in effective
        /\ effective' = effective \union needs
        /\ changed' = (changed \/ ~(needs \subseteq effective))
        /\ UNCHANGED <<phase, requested, available, supported>>
    BY <1>4, <2>1 DEF Visit
  <2> HIDE DEF needs
  <2>3. ResolverTypeOK'
    BY <2>1, <2>2, LengthNat DEF ResolverTypeOK
  <2>4. Within' /\ EndClosed' /\ AvailableClosed' /\ DependencyNeverMissing'
    BY <2>1, <2>2 DEF Within, EndClosed, AvailableClosed, DependencyNeverMissing, Looping
  <2>5. Needed'
    BY <2>2 DEF Needed, Looping, needs
  <2>6. Least'
    <3>1. ASSUME phase = "deployment", NEW S, Bounds(S) PROVE effective' \subseteq S
      BY <2>2, <3>1 DEF Least, Bounds, Closed, Looping, needs
    <3> QED BY <2>2, <3>1 DEF Least, Bounds
  <2>7. PassClosed'
    <3> SUFFICES ASSUME ~changed', NEW k \in 1..(i' - 1), FeatureOrder[k] \in effective'
                 PROVE  Requires(FeatureOrder[k]) \subseteq effective'
      BY DEF PassClosed
    <3>1. ~changed /\ needs \subseteq effective
      BY <2>2 DEF ResolverTypeOK
    <3>2. effective' = effective
      BY <2>2, <3>1
    <3>3. k = i \/ k \in 1..(i - 1)
      BY <2>2 DEF ResolverTypeOK
    <3> QED BY <2>2, <3>1, <3>2, <3>3 DEF PassClosed, needs
  <2> QED BY <2>3, <2>4, <2>5, <2>6, <2>7
<1>5. CASE EndPass
  <2>1. ResolverTypeOK'
    BY <1>5, LengthNat DEF EndPass, ResolverTypeOK
  <2>2. Within' /\ Needed' /\ AvailableClosed' /\ Least' /\ DependencyNeverMissing'
    BY <1>5 DEF EndPass, Within, Needed, Looping, AvailableClosed, Least, Bounds,
       DependencyNeverMissing
  <2>3. PassClosed'
    BY <1>5 DEF EndPass, PassClosed
  <2>4. EndClosed'
    <3> SUFFICES ASSUME ~changed, NEW f \in effective
                 PROVE  Requires(f) \subseteq effective
      BY <1>5 DEF EndPass, EndClosed, Closed
    <3>1. PICK k \in 1..Len(FeatureOrder) : f = FeatureOrder[k]
      BY DEF ResolverTypeOK, Names
    <3>2. k \in 1..(i - 1)
      BY <1>5, LengthNat DEF EndPass, ResolverTypeOK
    <3> QED BY <1>5, <3>1, <3>2 DEF EndPass, PassClosed
  <2> QED BY <2>1, <2>2, <2>3, <2>4
<1>6. CASE DefaultRequest
  <2>1. ResolverTypeOK'
    BY <1>6 DEF DefaultRequest, ResolverTypeOK
  <2>2. AvailableClosed'
    BY <1>6 DEF DefaultRequest, AvailableClosed, EndClosed
  <2>3. Least'
    BY <1>6 DEF DefaultRequest, Least, Bounds, Looping
  <2> QED BY <1>6, <2>1, <2>2, <2>3 DEF DefaultRequest, Within, PassClosed, EndClosed, Needed,
     Looping, DependencyNeverMissing
<1>7. CASE AppRequest
  <2>1. ResolverTypeOK'
    BY <1>7 DEF AppRequest, ResolverTypeOK
  <2>2. AvailableClosed'
    BY <1>7 DEF AppRequest, AvailableClosed
  <2> QED BY <1>7, <2>1, <2>2 DEF AppRequest, Within, PassClosed, EndClosed, Needed,
     Looping, Least, DependencyNeverMissing
<1> QED BY <1>1, <1>2, <1>3, <1>4, <1>5, <1>6, <1>7 DEF ResolverNext, Resolve

-----------------------------------------------------------------------------
(* Theorems about resolve.                                                 *)

\* The inductive invariant holds throughout.
LEMMA ResolvingAlways == ResolverSpec => []Resolving
BY ResolvingInit, ResolvingStep, PTL DEF ResolverSpec

\* The variables of the loop stay in their ranges.
THEOREM ResolverTypeCorrect == ResolverSpec => []ResolverTypeOK
<1>1. Resolving => ResolverTypeOK
  BY DEF Resolving
<1> QED BY ResolvingAlways, <1>1, PTL

\* What resolve returns contains the request and everything it requires.
THEOREM Closure == ResolverSpec => []ResolvedIsClosed
<1>1. Resolving => ResolvedIsClosed
  BY DEF Resolving, Within, Looping, EndClosed, ResolvedIsClosed
<1> QED BY ResolvingAlways, <1>1, PTL

\* And nothing that neither the request nor a requirement calls for.
THEOREM NoExcess == ResolverSpec => []NothingUnasked
<1>1. Resolving => NothingUnasked
  BY DEF Resolving, Needed, Looping, NothingUnasked
<1> QED BY ResolvingAlways, <1>1, PTL

\* An application stays within its deployment, and the deployment-wide request
\* gets exactly what the deployment supports.
THEOREM Bounded == ResolverSpec => []BoundedByDeployment
<1>1. Resolving => BoundedByDeployment
  <2> SUFFICES ASSUME Resolving, phase # "deployment", status = "ok"
               PROVE  /\ effective \subseteq supported
                      /\ phase = "default" => effective = supported
    BY DEF BoundedByDeployment
  <2>1. effective \subseteq supported
    BY DEF Resolving, Within, Looping, AvailableClosed
  <2>2. ASSUME phase = "default" PROVE supported \subseteq effective
    <3>1. Bounds(effective)
      BY DEF Resolving, ResolverTypeOK, Bounds, Within, Looping, EndClosed
    <3> QED BY <2>2, <3>1 DEF Resolving, Least
  <2> QED BY <2>1, <2>2
<1> QED BY ResolvingAlways, <1>1, PTL

\* No request within a deployment fails for a missing dependency.
THEOREM Available == ResolverSpec => []DependencyNeverMissing
<1>1. Resolving => DependencyNeverMissing
  BY DEF Resolving
<1> QED BY ResolvingAlways, <1>1, PTL
=============================================================================
