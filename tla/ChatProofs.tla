------------------------------ MODULE ChatProofs ------------------------------
(***************************************************************************)
(* Proofs about Chat, for every set of users, conversations, messages and  *)
(* tasks, any operations served and any blocks and suspensions asked for.  *)
(*                                                                         *)
(* Kept is the inductive invariant: every state is well formed, and the    *)
(* position of each request means what its checks have shown.  A creator   *)
(* past its check and a blocker or moderator about to write hold the locks *)
(* of everyone they name, so nothing arrives between the check of a        *)
(* creation and its commit; what arrives between the checks and the write  *)
(* of the requests without locks is on record as late.                     *)
(***************************************************************************)
EXTENDS Chat, FiniteSetTheorems, TLAPS

CallFits(t) ==
    /\ pc[t] = "idle" => call[t] = NoCall
    /\ pc[t] # "idle" => call[t] \in Calls
    /\ pc[t] = "available" => call[t].op = "create"
    /\ pc[t] = "lock" => call[t].op \in Locking
    /\ pc[t] = "checkBlocks" => call[t].op = "create"
    /\ pc[t] \in {"user", "member", "direct", "author", "account"} => call[t].op \in ChatOps

\* Positions that a task reaches only with all its locks.
PastLocks(t) == pc[t] = "checkBlocks" \/ (pc[t] = "write" /\ call[t].op \in Locking)

LocksHeld(t) == PastLocks(t) => \A u \in LockSet(call[t]) : userLock[u] = t

CheckStands(t) == Writing(t, "create") => ~HaveBlock(call[t].members)

\* Positions that a creator reaches once its members were found available.
PastAvailable(t) == call[t].op = "create" /\ pc[t] \in {"lock", "checkBlocks", "write"}

AvailableStands(t) ==
    PastAvailable(t) => call[t].members \intersect suspended \subseteq lateSuspended[t]

\* Positions of the requests without locks, past their first, second, third check.
PastUser(t) == call[t].op \in ChatOps /\ pc[t] \notin {"idle", "user"}
PastMember(t) == PastUser(t) /\ pc[t] # "member"
PastDirect(t) == PastMember(t) /\ pc[t] # "direct"

UserStands(t) ==
    PastUser(t) /\ call[t].actor \in suspended => call[t].actor \in lateSuspended[t]

MemberStands(t) == PastMember(t) => members[call[t].conv] # {}

BlocksAmong(S) == {e \in blocks : e[1] \in S /\ e[2] \in S}

DirectStands(t) ==
    PastDirect(t) /\ Direct(call[t].conv) =>
        BlocksAmong(members[call[t].conv]) \subseteq lateBlocks[t]

Means(t) == /\ CallFits(t)
            /\ LocksHeld(t)
            /\ CheckStands(t)
            /\ AvailableStands(t)
            /\ UserStands(t)
            /\ MemberStands(t)
            /\ DirectStands(t)

Kept == TypeOK /\ \A t \in Tasks : Means(t)

-----------------------------------------------------------------------------
(* Facts about calls.                                                      *)

\* What a call names, by its kind.
LEMMA CallFields ==
    ASSUME NEW c \in Calls
    PROVE  /\ c.op \in Locking \union ChatOps
           /\ c.op = "create" => c.members \in Rosters
           /\ c.op \in {"block", "unblock"} => c.edge \in BlockEdges
           /\ c.op \in {"suspend", "reinstate"} => c.user \in Suspects
           /\ c.op \in ChatOps => c.actor \in Users /\ c.conv \in Conversations
           /\ c.op \in {"pin", "unpin"} => c.message \in Messages
BY DEF Calls, AllCalls, Locking, ChatOps

\* The users that a call locks.
LEMMA LockSetUsers ==
    ASSUME NEW c \in Calls, c.op \in Locking
    PROVE  /\ LockSet(c) \subseteq Users
           /\ c.op = "create" => LockSet(c) = c.members
           /\ c.op \in {"block", "unblock"} => LockSet(c) = {c.edge[1], c.edge[2]}
           /\ c.op \in {"suspend", "reinstate"} => LockSet(c) = {c.user}
BY CallFields, EdgesAssumption, SuspectsAssumption DEF LockSet, Locking, Rosters, Edges

\* The kinds of call do not overlap.
LEMMA Kinds == Locking \intersect ChatOps = {}
BY DEF Locking, ChatOps

-----------------------------------------------------------------------------
(* How a step leaves the tasks that do not take it.                        *)

Undisturbed(s) == /\ pc'[s] = pc[s]
                  /\ call'[s] = call[s]
                  /\ \A u \in Users : userLock[u] = s => userLock'[u] = s

\* A step that writes no row leaves every other task what it has shown.
LEMMA OthersKeep ==
    ASSUME Kept, NEW s \in Tasks, Undisturbed(s), UNCHANGED rows,
           lateBlocks[s] \subseteq lateBlocks'[s],
           lateSuspended[s] \subseteq lateSuspended'[s]
    PROVE  Means(s)'
<1>1. Means(s) /\ pc'[s] = pc[s] /\ call'[s] = call[s]
  BY DEF Kept, Undisturbed
<1>2. CallFits(s)'
  BY <1>1 DEF Means, CallFits
<1>3. LocksHeld(s)'
  <2> SUFFICES ASSUME PastLocks(s), NEW u \in LockSet(call[s])
               PROVE  userLock'[u] = s
    BY <1>1 DEF LocksHeld, PastLocks, LockSet
  <2>1. call[s] \in Calls /\ call[s].op \in Locking
    BY <1>1 DEF Means, CallFits, PastLocks, Locking
  <2>2. u \in Users /\ userLock[u] = s
    BY <1>1, <2>1, LockSetUsers DEF Means, LocksHeld
  <2> QED BY <2>2 DEF Undisturbed
<1>4. CheckStands(s)'
  BY <1>1 DEF Means, CheckStands, Writing, HaveBlock, rows
<1>5. AvailableStands(s)'
  BY <1>1 DEF Means, AvailableStands, PastAvailable, rows
<1>6. UserStands(s)' /\ MemberStands(s)'
  BY <1>1 DEF Means, UserStands, MemberStands, PastMember, PastUser, rows
<1>7. DirectStands(s)'
  BY <1>1 DEF Means, DirectStands, PastDirect, PastMember, PastUser, Direct, BlocksAmong, rows
<1> QED BY <1>2, <1>3, <1>4, <1>5, <1>6, <1>7 DEF Means

\* An idle task has shown nothing.
LEMMA IdleMeans ==
    ASSUME NEW t \in Tasks, pc[t] = "idle", call[t] = NoCall
    PROVE  Means(t)
BY DEF Means, CallFits, LocksHeld, PastLocks, CheckStands, Writing, AvailableStands, PastAvailable,
   UserStands, MemberStands, DirectStands, PastDirect, PastMember, PastUser, NoCall, ChatOps

\* It holds before any request.
LEMMA KeptInit == Init => Kept
<1> SUFFICES ASSUME Init PROVE Kept
  OBVIOUS
<1>1. TypeOK
  BY DEF Init, TypeOK, Steps
<1>2. ASSUME NEW t \in Tasks PROVE Means(t)
  BY <1>2, IdleMeans DEF Init
<1> QED BY <1>1, <1>2 DEF Kept

\* A task that ends leaves the others undisturbed, and knows what came late.
LEMMA EndFacts ==
    ASSUME Kept, NEW t \in Tasks, NEW edges \in SUBSET BlockEdges, NEW users \in SUBSET Suspects,
           EndWith(t, edges, users)
    PROVE  /\ userLock' \in [Users -> Tasks \union {NoTask}]
           /\ pc' \in [Tasks -> Steps]
           /\ call' \in [Tasks -> Calls \union {NoCall}]
           /\ lateBlocks' \in [Tasks -> SUBSET BlockEdges]
           /\ lateSuspended' \in [Tasks -> SUBSET Suspects]
           /\ Means(t)'
           /\ \A s \in Tasks \ {t} :
                /\ Undisturbed(s)
                /\ call[s].op \in ChatOps =>
                      /\ lateBlocks'[s] = lateBlocks[s] \union edges
                      /\ lateSuspended'[s] = lateSuspended[s] \union users
                /\ call[s].op = "create" /\ pc[s] = "lock" =>
                      lateSuspended'[s] = lateSuspended[s] \union users
                /\ lateBlocks[s] \subseteq lateBlocks'[s]
                /\ lateSuspended[s] \subseteq lateSuspended'[s]
<1> USE DEF Kept, TypeOK, EndWith, End, Goto
<1>1. /\ userLock' \in [Users -> Tasks \union {NoTask}]
      /\ pc' \in [Tasks -> Steps]
      /\ call' \in [Tasks -> Calls \union {NoCall}]
  BY DEF Steps
<1>2. /\ lateBlocks' \in [Tasks -> SUBSET BlockEdges]
      /\ lateSuspended' \in [Tasks -> SUBSET Suspects]
  OBVIOUS
<1>3. Means(t)'
  BY IdleMeans DEF Means, CallFits, LocksHeld, PastLocks, CheckStands, Writing,
     AvailableStands, PastAvailable, UserStands, MemberStands, DirectStands, PastDirect,
     PastMember, PastUser, NoCall, ChatOps
<1>4. ASSUME NEW s \in Tasks \ {t}
      PROVE  /\ Undisturbed(s)
             /\ call[s].op \in ChatOps =>
                   /\ lateBlocks'[s] = lateBlocks[s] \union edges
                   /\ lateSuspended'[s] = lateSuspended[s] \union users
             /\ call[s].op = "create" /\ pc[s] = "lock" =>
                   lateSuspended'[s] = lateSuspended[s] \union users
             /\ lateBlocks[s] \subseteq lateBlocks'[s]
             /\ lateSuspended[s] \subseteq lateSuspended'[s]
  BY <1>4 DEF Undisturbed
<1> QED BY <1>1, <1>2, <1>3, <1>4

\* So a task that ends without a write keeps Kept.
LEMMA ReturnKeeps ==
    ASSUME Kept, NEW t \in Tasks, Return(t), UNCHANGED rows
    PROVE  Kept'
<1>1. EndWith(t, {}, {})
  BY DEF Return
<1>2. TypeOK'
  BY <1>1, EndFacts DEF Kept, TypeOK, rows
<1>3. ASSUME NEW s \in Tasks \ {t} PROVE Means(s)'
  BY <1>1, <1>3, EndFacts, OthersKeep
<1>4. Means(t)'
  BY <1>1, EndFacts
<1> QED BY <1>2, <1>3, <1>4 DEF Kept

\* A task goes on to a position that means what its checks have shown.
LEMMA PassKeeps ==
    ASSUME Kept, NEW t \in Tasks, NEW step, NEW holds, NEW next \in Steps,
           Pass(t, step, holds, next),
           Means(t)'
    PROVE  Kept'
<1>1. /\ pc' \in [Tasks -> Steps]
      /\ \A s \in Tasks \ {t} : pc'[s] = pc[s]
      /\ UNCHANGED <<rows, userLock, call, late>>
  BY DEF Pass, Goto, Kept, TypeOK
<1>2. TypeOK'
  BY <1>1 DEF Kept, TypeOK, rows, late
<1>3. ASSUME NEW s \in Tasks \ {t} PROVE Means(s)'
  <2>1. Undisturbed(s)
    BY <1>1, <1>3 DEF Undisturbed
  <2> QED BY <1>1, <1>3, <2>1, OthersKeep DEF late
<1> QED BY <1>2, <1>3 DEF Kept

\* What each kind of request has to show for its next position: a creator ...
LEMMA CreatorMeans ==
    ASSUME Kept, NEW t \in Tasks, call[t] \in Calls, call[t].op = "create",
           NEW next \in {"lock", "write"},
           pc'[t] = next, UNCHANGED <<rows, userLock, call, late>>,
           next = "write" => /\ \A u \in LockSet(call[t]) : userLock[u] = t
                             /\ ~HaveBlock(call[t].members),
           call[t].members \intersect suspended \subseteq lateSuspended[t]
    PROVE  Means(t)'
<1>1. CallFits(t)' /\ LocksHeld(t)' /\ CheckStands(t)' /\ AvailableStands(t)'
  BY DEF CallFits, LocksHeld, PastLocks, LockSet, Locking, CheckStands, Writing, HaveBlock,
     AvailableStands, PastAvailable, rows, late
<1>2. UserStands(t)' /\ MemberStands(t)' /\ DirectStands(t)'
  BY Kinds DEF UserStands, MemberStands, DirectStands, PastDirect, PastMember, PastUser, Locking
<1> QED BY <1>1, <1>2 DEF Means

\* ... and a request without locks.
LEMMA ChatterMeans ==
    ASSUME Kept, NEW t \in Tasks, call[t] \in Calls, call[t].op \in ChatOps,
           NEW next \in {"member", "direct", "author", "account", "write"},
           pc'[t] = next, UNCHANGED <<rows, userLock, call, late>>,
           call[t].actor \in suspended => call[t].actor \in lateSuspended[t],
           next # "member" => members[call[t].conv] # {},
           next \notin {"member", "direct"} /\ Direct(call[t].conv) =>
              BlocksAmong(members[call[t].conv]) \subseteq lateBlocks[t]
    PROVE  Means(t)'
<1>1. call[t].op \notin Locking /\ call[t].op # "create"
  BY Kinds DEF Locking
<1>2. CallFits(t)' /\ LocksHeld(t)' /\ CheckStands(t)' /\ AvailableStands(t)'
  BY <1>1 DEF CallFits, LocksHeld, PastLocks, CheckStands, Writing, AvailableStands, PastAvailable
<1>3. UserStands(t)' /\ MemberStands(t)'
  BY DEF UserStands, MemberStands, PastMember, PastUser, rows, late
<1>4. DirectStands(t)'
  BY DEF DirectStands, PastDirect, PastMember, PastUser, Direct, BlocksAmong, rows, late
<1> QED BY <1>2, <1>3, <1>4 DEF Means

\* The checks of a creation.
LEMMA CreatorChecksKeep ==
    ASSUME Kept, NEW t \in Tasks, MembersAvailable(t) \/ CheckMembers(t)
    PROVE  Kept'
<1>1. CASE \E step, holds : Fail(t, step, holds)
  BY <1>1, ReturnKeeps DEF Fail
<1>2. CASE Pass(t, "available", call[t].members \intersect suspended = {}, "lock")
  <2>1. /\ call[t] \in Calls /\ call[t].op = "create"
        /\ pc'[t] = "lock" /\ UNCHANGED <<rows, userLock, call, late>>
        /\ call[t].members \intersect suspended \subseteq lateSuspended[t]
    BY <1>2 DEF Pass, Goto, Kept, TypeOK, Means, CallFits
  <2>2. Means(t)'
    BY <2>1, CreatorMeans
  <2> QED BY <1>2, <2>2, PassKeeps DEF Steps
<1>3. CASE Pass(t, "checkBlocks", ~HaveBlock(call[t].members), "write")
  <2>1. /\ call[t] \in Calls /\ call[t].op = "create"
        /\ pc'[t] = "write" /\ UNCHANGED <<rows, userLock, call, late>>
        /\ ~HaveBlock(call[t].members)
        /\ \A u \in LockSet(call[t]) : userLock[u] = t
        /\ call[t].members \intersect suspended \subseteq lateSuspended[t]
    BY <1>3 DEF Pass, Goto, Kept, TypeOK, Means, CallFits, LocksHeld, PastLocks,
       AvailableStands, PastAvailable
  <2>2. Means(t)'
    BY <2>1, CreatorMeans
  <2> QED BY <1>3, <2>2, PassKeeps DEF Steps
<1> QED BY <1>1, <1>2, <1>3 DEF MembersAvailable, CheckMembers, Check

\* The checks of messages, pins and unpins.
LEMMA ChatterChecksKeep ==
    ASSUME Kept, NEW t \in Tasks,
           \/ EnsureUserCan(t) \/ RequireMembership(t) \/ EnsureDirectUnblocked(t)
           \/ EnsureAuthorUnblocked(t) \/ EnsureAuthorVisible(t)
    PROVE  Kept'
<1> DEFINE conv == call[t].conv
<1>1. CASE \E step, holds : Fail(t, step, holds)
  BY <1>1, ReturnKeeps DEF Fail
<1>2. ASSUME NEW step \in {"user", "member", "direct", "author", "account"}, NEW holds,
             NEW next \in {"member", "direct", "author", "account", "write"},
             Pass(t, step, holds, next),
             IF step = "user" THEN next = "member" /\ call[t].actor \notin suspended
             ELSE IF step = "member" THEN next = "direct" /\ members[conv] # {}
             ELSE /\ next \notin {"member", "direct"}
                  /\ step = "direct" => ~(Direct(conv) /\ HaveBlock(members[conv]))
      PROVE  Kept'
  <2>1. /\ call[t] \in Calls /\ call[t].op \in ChatOps
        /\ pc[t] = step
        /\ pc'[t] = next /\ UNCHANGED <<rows, userLock, call, late>>
        /\ Means(t)
    BY <1>2 DEF Pass, Goto, Kept, TypeOK, Means, CallFits
  <2>2. call[t].actor \in suspended => call[t].actor \in lateSuspended[t]
    BY <1>2, <2>1 DEF Means, UserStands, PastUser
  <2>3. next # "member" => members[conv] # {}
    BY <1>2, <2>1 DEF Means, MemberStands, PastMember, PastUser
  <2>4. next \notin {"member", "direct"} /\ Direct(conv) =>
          BlocksAmong(members[conv]) \subseteq lateBlocks[t]
    BY <1>2, <2>1 DEF Means, DirectStands, PastDirect, PastMember, PastUser, HaveBlock, BlocksAmong
  <2>5. Means(t)'
    BY <2>1, <2>2, <2>3, <2>4, ChatterMeans
  <2> QED BY <1>2, <2>5, PassKeeps DEF Steps
<1>3. CASE EnsureUserCan(t)
  <2> DEFINE Able == call[t].actor \notin suspended
  <2>1. CASE Pass(t, "user", Able, "member")
    <3>1. Able
      BY <2>1 DEF Pass
    <3> QED BY <1>2, <2>1, <3>1
  <2>2. CASE Fail(t, "user", Able)
    BY <1>1, <2>2
  <2> QED BY <1>3, <2>1, <2>2 DEF EnsureUserCan, Check
<1>4. CASE RequireMembership(t)
  <2> DEFINE In == call[t].actor \in members[conv]
  <2>1. In => members[conv] # {}
    OBVIOUS
  <2>2. CASE Pass(t, "member", In, "direct")
    <3>1. In
      BY <2>2 DEF Pass
    <3> HIDE DEF In
    <3> QED BY <1>2, <2>1, <2>2, <3>1
  <2>3. CASE Fail(t, "member", In)
    BY <1>1, <2>3
  <2> QED BY <1>4, <2>2, <2>3 DEF RequireMembership, Check
<1>5. CASE EnsureDirectUnblocked(t)
  <2> DEFINE Open == ~(Direct(conv) /\ HaveBlock(members[conv]))
             onward == IF call[t].op = "pin" THEN "author" ELSE "write"
  <2>1. CASE Pass(t, "direct", Open, onward)
    <3>1. Open
      BY <2>1 DEF Pass
    <3>2. onward \in {"author", "write"}
      OBVIOUS
    <3> HIDE DEF onward
    <3> QED BY <1>2, <2>1, <3>1, <3>2
  <2>2. CASE Fail(t, "direct", Open)
    BY <1>1, <2>2
  <2> QED BY <1>5, <2>1, <2>2 DEF EnsureDirectUnblocked, Check
<1>6. CASE EnsureAuthorUnblocked(t)
  <2> DEFINE Open == \E m \in messages : /\ m.id = call[t].message
                                         /\ m.conv = call[t].conv
                                         /\ ~HaveBlock({call[t].actor, m.author})
  <2> HIDE DEF Open
  <2>1. Check(t, "author", Open, "account")
    BY <1>6 DEF EnsureAuthorUnblocked, Open
  <2> QED BY <1>1, <1>2, <2>1 DEF Check
<1>7. CASE EnsureAuthorVisible(t)
  <2> DEFINE Open == \A m \in messages : m.id = call[t].message => m.author \notin suspended
  <2> HIDE DEF Open
  <2>1. Check(t, "account", Open, "write")
    BY <1>7 DEF EnsureAuthorVisible, Open
  <2> QED BY <1>1, <1>2, <2>1 DEF Check
<1> QED BY <1>3, <1>4, <1>5, <1>6, <1>7

-----------------------------------------------------------------------------
(* Writes and locks.                                                       *)

\* A write keeps Kept when it leaves standing what the other tasks have shown.
LEMMA WriteKeeps ==
    ASSUME Kept, NEW t \in Tasks, NEW edges \in SUBSET BlockEdges, NEW users \in SUBSET Suspects,
           EndWith(t, edges, users),
           blocks' \subseteq blocks \union edges,
           suspended' \subseteq suspended \union users,
           members' \in [Conversations -> SUBSET Users],
           UNCHANGED linked,
           messages' \subseteq [id : Messages, conv : Conversations, author : Users],
           pins' \subseteq Conversations \X Messages,
           \A c \in Conversations : members[c] # {} => members'[c] = members[c],
           \A s \in Tasks \ {t} : Writing(s, "create") =>
               \A e \in edges : ~(e[1] \in call[s].members /\ e[2] \in call[s].members),
           \A s \in Tasks \ {t} : PastLocks(s) /\ call[s].op = "create" =>
               call[s].members \intersect users = {}
    PROVE  Kept'
<1>0. \A s \in Tasks \ {t} :
         /\ Undisturbed(s)
         /\ call[s].op \in ChatOps =>
               /\ lateBlocks'[s] = lateBlocks[s] \union edges
               /\ lateSuspended'[s] = lateSuspended[s] \union users
         /\ call[s].op = "create" /\ pc[s] = "lock" =>
               lateSuspended'[s] = lateSuspended[s] \union users
         /\ lateSuspended[s] \subseteq lateSuspended'[s]
  BY EndFacts
<1>1. TypeOK'
  BY EndFacts DEF Kept, TypeOK
<1>2. ASSUME NEW s \in Tasks \ {t} PROVE Means(s)'
  <2>0. /\ Undisturbed(s)
        /\ call[s].op \in ChatOps =>
              /\ lateBlocks'[s] = lateBlocks[s] \union edges
              /\ lateSuspended'[s] = lateSuspended[s] \union users
        /\ call[s].op = "create" /\ pc[s] = "lock" =>
              lateSuspended'[s] = lateSuspended[s] \union users
        /\ lateSuspended[s] \subseteq lateSuspended'[s]
    BY <1>0, <1>2
  <2>1. Means(s) /\ pc'[s] = pc[s] /\ call'[s] = call[s]
    BY <1>2, <2>0 DEF Kept, Undisturbed
  <2>2. CallFits(s)'
    BY <2>1 DEF Means, CallFits
  <2>3. LocksHeld(s)'
    <3> SUFFICES ASSUME PastLocks(s), NEW u \in LockSet(call[s])
                 PROVE  userLock'[u] = s
      BY <2>1 DEF LocksHeld, PastLocks, LockSet
    <3>1. call[s] \in Calls /\ call[s].op \in Locking
      BY <2>1 DEF Means, CallFits, PastLocks, Locking
    <3> QED BY <2>0, <2>1, <3>1, LockSetUsers DEF Means, LocksHeld, Undisturbed
  <2>4. CheckStands(s)'
    BY <1>2, <2>1 DEF Means, CheckStands, Writing, HaveBlock
  <2>5. AvailableStands(s)'
    <3>1. CASE pc[s] = "lock"
      BY <2>0, <2>1, <3>1 DEF Means, AvailableStands, PastAvailable
    <3>2. CASE pc[s] # "lock"
      BY <1>2, <2>0, <2>1, <3>2 DEF Means, AvailableStands, PastAvailable, PastLocks, Locking
    <3> QED BY <3>1, <3>2
  <2>6. UserStands(s)'
    BY <2>0, <2>1 DEF Means, UserStands, PastUser
  <2>7. MemberStands(s)' /\ DirectStands(s)'
    <3> SUFFICES ASSUME PastMember(s)
                 PROVE  MemberStands(s)' /\ DirectStands(s)'
      BY <2>1 DEF MemberStands, DirectStands, PastDirect, PastMember, PastUser
    <3>1. /\ call[s].op \in ChatOps /\ call[s].conv \in Conversations
          /\ members[call[s].conv] # {}
      BY <2>1, CallFields DEF PastMember, PastUser, Means, CallFits, MemberStands
    <3>2. members'[call[s].conv] = members[call[s].conv]
      BY <3>1
    <3>3. DirectStands(s)'
      BY <2>0, <2>1, <3>1, <3>2 DEF Means, DirectStands, PastDirect, PastMember, PastUser, Direct,
         BlocksAmong
    <3> QED BY <2>1, <3>1, <3>2, <3>3 DEF MemberStands
  <2> QED BY <2>2, <2>3, <2>4, <2>5, <2>6, <2>7 DEF Means
<1>3. Means(t)'
  BY EndFacts
<1> QED BY <1>1, <1>2, <1>3 DEF Kept

\* One case per write.
LEMMA EveryWriteKeeps ==
    ASSUME Kept, NEW t \in Tasks, Write(t)
    PROVE  Kept'
<1> DEFINE c == call[t]
<1>1. c \in Calls /\ pc[t] = "write"
  BY DEF Write, CreateConversation, Block, Unblock, Suspend, Reinstate, CreateMessage, Pin, Unpin,
         Writing, Kept, Means, CallFits
<1>2. ASSUME Return(t), blocks' \subseteq blocks, suspended' \subseteq suspended,
             members' \in [Conversations -> SUBSET Users], UNCHANGED linked,
             messages' \subseteq [id : Messages, conv : Conversations, author : Users],
             pins' \subseteq Conversations \X Messages,
             \A d \in Conversations : members[d] # {} => members'[d] = members[d]
      PROVE  Kept'
  <2>1. EndWith(t, {}, {})
    BY <1>2 DEF Return
  <2> QED BY <1>2, <2>1, WriteKeeps
<1> USE DEF Writing
<1>3. CASE CreateConversation(t)
  <2>1. PICK d \in Conversations \ Created : members' = [members EXCEPT ![d] = c.members]
    BY <1>3 DEF CreateConversation
  <2>2. c.members \in SUBSET Users /\ members[d] = {}
    BY <1>1, <1>3, CallFields DEF CreateConversation, Rosters, Created
  <2>3. members' \in [Conversations -> SUBSET Users]
    BY <2>1, <2>2 DEF Kept, TypeOK
  <2>4. \A b \in Conversations : members[b] # {} => members'[b] = members[b]
    BY <2>1, <2>2 DEF Kept, TypeOK
  <2> QED BY <1>2, <1>3, <2>3, <2>4 DEF CreateConversation, Kept, TypeOK
<1>4. CASE Block(t)
  <2>1. /\ c.op = "block" /\ c.edge \in BlockEdges
        /\ blocks' = blocks \union {c.edge}
        /\ UNCHANGED <<suspended, members, linked, messages, pins>>
        /\ EndWith(t, {c.edge} \ blocks, {})
    BY <1>1, <1>4, CallFields DEF Block
  <2>2. userLock[c.edge[1]] = t
    BY <1>1, <2>1, LockSetUsers DEF Kept, Means, LocksHeld, PastLocks, Locking
  <2>3. ASSUME NEW s \in Tasks \ {t}, Writing(s, "create")
        PROVE  c.edge[1] \notin call[s].members
    <3>1. call[s] \in Calls
      BY <2>3 DEF Kept, Means, CallFits
    <3>2. \A u \in call[s].members : userLock[u] = s
      BY <2>3, <3>1, LockSetUsers DEF Kept, Means, LocksHeld, PastLocks, Locking
    <3> QED BY <2>2, <2>3, <3>2
  <2>4. /\ \A s \in Tasks \ {t} : Writing(s, "create") =>
              \A e \in {c.edge} \ blocks : ~(e[1] \in call[s].members /\ e[2] \in call[s].members)
        /\ \A s \in Tasks \ {t} : call[s].members \intersect {} = {}
    BY <2>3
  <2>5. blocks' \subseteq blocks \union ({c.edge} \ blocks) /\ {c.edge} \ blocks \in SUBSET BlockEdges
    BY <2>1
  <2> QED BY <2>1, <2>4, <2>5, WriteKeeps DEF Kept, TypeOK
<1>5. CASE Suspend(t)
  <2>1. /\ c.op = "suspend" /\ c.user \in Suspects
        /\ suspended' = suspended \union {c.user}
        /\ UNCHANGED <<blocks, members, linked, messages, pins>>
        /\ EndWith(t, {}, {c.user} \ suspended)
    BY <1>1, <1>5, CallFields DEF Suspend
  <2>2. userLock[c.user] = t
    BY <1>1, <2>1, LockSetUsers DEF Kept, Means, LocksHeld, PastLocks, Locking
  <2>3. ASSUME NEW s \in Tasks \ {t}, PastLocks(s), call[s].op = "create"
        PROVE  call[s].members \intersect ({c.user} \ suspended) = {}
    <3>1. call[s] \in Calls
      BY <2>3 DEF Kept, Means, CallFits, PastLocks
    <3>2. \A u \in call[s].members : userLock[u] = s
      BY <2>3, <3>1, LockSetUsers DEF Kept, Means, LocksHeld, Locking
    <3> QED BY <2>2, <2>3, <3>2
  <2>4. /\ suspended' \subseteq suspended \union ({c.user} \ suspended)
        /\ {c.user} \ suspended \in SUBSET Suspects
        /\ blocks' \subseteq blocks \union {} /\ {} \in SUBSET BlockEdges
    BY <2>1
  <2>5. \A s \in Tasks \ {t} : Writing(s, "create") =>
           \A e \in {} : ~(e[1] \in call[s].members /\ e[2] \in call[s].members)
    OBVIOUS
  <2>6. /\ members' \in [Conversations -> SUBSET Users]
        /\ messages' \subseteq [id : Messages, conv : Conversations, author : Users]
        /\ pins' \subseteq Conversations \X Messages
        /\ \A d \in Conversations : members[d] # {} => members'[d] = members[d]
        /\ UNCHANGED linked
    BY <2>1 DEF Kept, TypeOK
  <2> HIDE DEF c
  <2> QED BY <2>1, <2>3, <2>4, <2>5, <2>6, WriteKeeps
<1>6. CASE Unblock(t) \/ Reinstate(t)
  BY <1>2, <1>6 DEF Unblock, Reinstate, Kept, TypeOK
<1>7. CASE CreateMessage(t)
  <2>1. c.actor \in Users /\ c.conv \in Conversations
    BY <1>1, <1>7, CallFields DEF CreateMessage, ChatOps
  <2>2. messages' \subseteq [id : Messages, conv : Conversations, author : Users]
    BY <1>7, <2>1 DEF CreateMessage, Kept, TypeOK
  <2> QED BY <1>2, <1>7, <2>2 DEF CreateMessage, Kept, TypeOK
<1>8. CASE Pin(t) \/ Unpin(t)
  <2>1. c.conv \in Conversations /\ (c.op = "pin" => c.message \in Messages)
    BY <1>1, <1>8, CallFields DEF Pin, Unpin, ChatOps
  <2>2. pins' \subseteq Conversations \X Messages
    BY <1>8, <2>1 DEF Pin, Unpin, Kept, TypeOK
  <2> QED BY <1>2, <1>8, <2>2 DEF Pin, Unpin, Kept, TypeOK
<1> QED BY <1>3, <1>4, <1>5, <1>6, <1>7, <1>8 DEF Write

\* A lock more.
LEMMA LockKeeps ==
    ASSUME Kept, NEW t \in Tasks, Lock(t)
    PROVE  Kept'
<1>1. PICK u \in Lowest(Wanted(t)) :
         /\ userLock[u] = NoTask
         /\ userLock' = [userLock EXCEPT ![u] = t]
         /\ Goto(t, IF Wanted(t) # {u} THEN "lock"
                    ELSE IF call[t].op = "create" THEN "checkBlocks" ELSE "write")
  BY DEF Lock
<1>2. /\ pc[t] = "lock" /\ call[t] \in Calls /\ call[t].op \in Locking
      /\ UNCHANGED <<rows, call, late>>
      /\ Means(t)
  BY DEF Lock, Kept, Means, CallFits
<1>3. u \in Users /\ u \in Wanted(t)
  BY <1>1, <1>2, LockSetUsers DEF Lowest, Wanted
<1>4. /\ pc' \in [Tasks -> Steps]
      /\ userLock' \in [Users -> Tasks \union {NoTask}]
      /\ pc'[t] = (IF Wanted(t) # {u} THEN "lock"
                   ELSE IF call[t].op = "create" THEN "checkBlocks" ELSE "write")
      /\ \A s \in Tasks \ {t} : pc'[s] = pc[s]
  BY <1>1, <1>3 DEF Goto, Kept, TypeOK, Steps
<1>5. TypeOK'
  BY <1>2, <1>4 DEF Kept, TypeOK, rows, late
<1>6. ASSUME NEW s \in Tasks \ {t} PROVE Means(s)'
  <2>1. Undisturbed(s)
    BY <1>1, <1>2, <1>3, <1>4, <1>6, TasksAssumption DEF Undisturbed, Kept, TypeOK
  <2> QED BY <1>2, <1>6, <2>1, OthersKeep DEF late
<1>7. Means(t)'
  <2>1. CallFits(t)'
    BY <1>2, <1>4 DEF CallFits
  <2>2. LocksHeld(t)'
    <3> SUFFICES ASSUME PastLocks(t)', NEW v \in LockSet(call[t])
                 PROVE  userLock'[v] = t
      BY <1>2 DEF LocksHeld, LockSet
    <3>1. Wanted(t) = {u} /\ v \in Users
      BY <1>2, <1>4, LockSetUsers DEF PastLocks
    <3> QED BY <1>1, <1>3, <3>1 DEF Wanted, Kept, TypeOK
  <2>3. CheckStands(t)'
    BY <1>2, <1>4 DEF CheckStands, Writing
  <2>4. AvailableStands(t)'
    BY <1>2, <1>4 DEF Means, AvailableStands, PastAvailable, rows, late
  <2>5. UserStands(t)' /\ MemberStands(t)' /\ DirectStands(t)'
    BY <1>2, Kinds DEF UserStands, MemberStands, DirectStands, PastDirect, PastMember, PastUser
  <2> QED BY <2>1, <2>2, <2>3, <2>4, <2>5 DEF Means
<1> QED BY <1>5, <1>6, <1>7 DEF Kept

-----------------------------------------------------------------------------
(* Kept is inductive.                                                      *)

\* A group's conversation comes, or its members come and go.
LEMMA GroupStepKeeps ==
    ASSUME Kept, GroupStep
    PROVE  Kept'
<1>1. PICK d \in Conversations, S \in GroupRosters \ {{}} : SyncChat(d, S) \/ LinkChat(d, S)
  BY DEF GroupStep
<1>2. /\ members' = [members EXCEPT ![d] = S]
      /\ linked' = linked \union {d}
      /\ UNCHANGED <<blocks, suspended, messages, pins, userLock, pc, call, late>>
      /\ S \in SUBSET Users /\ S # {}
      /\ d \in linked \/ members[d] = {}
  BY <1>1, GroupRostersAssumption DEF SyncChat, LinkChat, Created
<1>3. TypeOK'
  BY <1>2 DEF Kept, TypeOK, late
<1>4. ASSUME NEW s \in Tasks PROVE Means(s)'
  <2>1. Means(s)
    BY DEF Kept
  <2>2. CallFits(s)' /\ LocksHeld(s)' /\ CheckStands(s)' /\ AvailableStands(s)' /\ UserStands(s)'
    BY <1>2, <2>1 DEF Means, CallFits, LocksHeld, PastLocks, LockSet, CheckStands, Writing,
       HaveBlock, AvailableStands, PastAvailable, UserStands, PastUser, late
  <2>3. MemberStands(s)' /\ DirectStands(s)'
    <3> SUFFICES ASSUME PastMember(s)
                 PROVE  MemberStands(s)' /\ DirectStands(s)'
      BY <1>2 DEF MemberStands, DirectStands, PastDirect, PastMember, PastUser
    <3>1. call[s].conv \in Conversations /\ members[call[s].conv] # {}
      BY <2>1, CallFields DEF PastMember, PastUser, Means, CallFits, MemberStands
    <3>2. CASE call[s].conv = d
      BY <1>2, <3>1, <3>2 DEF MemberStands, DirectStands, Direct, Kept, TypeOK
    <3>3. CASE call[s].conv # d
      <4>1. members'[call[s].conv] = members[call[s].conv]
        BY <1>2, <3>1, <3>3 DEF Kept, TypeOK
      <4> QED BY <1>2, <2>1, <3>1, <3>3, <4>1 DEF Means, MemberStands, DirectStands, PastDirect,
              PastMember, PastUser, Direct, BlocksAmong, late
    <3> QED BY <3>2, <3>3
  <2> QED BY <2>2, <2>3 DEF Means
<1> QED BY <1>3, <1>4 DEF Kept

\* Every step keeps it.
LEMMA KeptStep == Kept /\ [Next]_vars => Kept'
<1> SUFFICES ASSUME Kept, [Next]_vars PROVE Kept'
  OBVIOUS
<1>1. CASE UNCHANGED vars
  <2>1. TypeOK'
    BY <1>1 DEF Kept, TypeOK, vars, rows, late
  <2>2. ASSUME NEW s \in Tasks PROVE Means(s)'
    BY <1>1, OthersKeep DEF Undisturbed, vars, late
  <2> QED BY <2>1, <2>2 DEF Kept
<1>2. ASSUME NEW t \in Tasks, NEW c \in Calls, Begin(t, c) PROVE Kept'
  <2>1. /\ pc'[t] \in {"available", "user", "lock"}
        /\ pc'[t] = "available" => c.op = "create"
        /\ pc'[t] = "user" => c.op \in ChatOps
        /\ pc'[t] = "lock" => c.op \in Locking \ {"create"}
        /\ call'[t] = c
        /\ pc' \in [Tasks -> Steps] /\ call' \in [Tasks -> Calls \union {NoCall}]
        /\ \A s \in Tasks \ {t} : pc'[s] = pc[s] /\ call'[s] = call[s]
        /\ UNCHANGED <<rows, userLock, late>>
    BY <1>2, CallFields DEF Begin, Goto, Kept, TypeOK, Steps
  <2>2. TypeOK'
    BY <2>1 DEF Kept, TypeOK, rows, late
  <2>3. ASSUME NEW s \in Tasks \ {t} PROVE Means(s)'
    BY <2>1, <2>3, OthersKeep DEF Undisturbed, late
  <2>4. Means(t)'
    BY <2>1, Kinds DEF Means, CallFits, LocksHeld, PastLocks, CheckStands, Writing,
       AvailableStands, PastAvailable, UserStands, MemberStands, DirectStands, PastDirect,
       PastMember, PastUser, Locking, ChatOps
  <2> QED BY <2>2, <2>3, <2>4 DEF Kept
<1>3. ASSUME NEW t \in Tasks, Step(t) \/ Abort(t) PROVE Kept'
  BY <1>3, ReturnKeeps, LockKeeps, CreatorChecksKeep, ChatterChecksKeep, EveryWriteKeeps
     DEF Step, Abort, NoIds
<1> QED BY <1>1, <1>2, <1>3, GroupStepKeeps DEF Next

\* The inductive invariant holds throughout.
LEMMA KeptAlways == Spec => []Kept
BY KeptInit, KeptStep, PTL DEF Spec

-----------------------------------------------------------------------------
(* Waiting.                                                                *)

\* Locks are held by requests past the question that comes before them, on the
\* users they name.
HeldByCall == \A t \in Tasks, u \in Users :
                  userLock[u] = t => pc[t] \notin {"idle", "available"} /\ u \in LockSet(call[t])

\* A request locks its users in ascending order.
LocksAscend == \A t \in Tasks : pc[t] = "lock" =>
                   \A u \in Users, v \in Wanted(t) : userLock[u] = t => u < v

Ordered == HeldByCall /\ LocksAscend

\* It holds before any request.
LEMMA OrderedInit == Init => Ordered
BY TasksAssumption DEF Init, Ordered, HeldByCall, LocksAscend

\* Locks of the tasks that do not move stay as they are.
LEMMA OthersOrdered ==
    ASSUME Ordered, NEW t \in Tasks,
           \A s \in Tasks \ {t} :
              /\ pc'[s] = pc[s] /\ call'[s] = call[s]
              /\ \A u \in Users : userLock'[u] = s <=> userLock[u] = s,
           \A s \in Tasks : pc[s] = "lock" => LockSet(call[s]) \subseteq Users,
           \A u \in Users : userLock'[u] = t =>
              pc'[t] \notin {"idle", "available"} /\ u \in LockSet(call'[t]),
           pc'[t] = "lock" => \A u \in Users, v \in Wanted(t)' : userLock'[u] = t => u < v
    PROVE  Ordered'
<1>1. HeldByCall'
  BY DEF Ordered, HeldByCall, LockSet
<1>2. ASSUME NEW s \in Tasks \ {t}, pc'[s] = "lock", NEW u \in Users, userLock'[u] = s,
             NEW v \in Wanted(s)'
      PROVE  u < v
  <2>1. pc[s] = "lock" /\ call'[s] = call[s] /\ userLock[u] = s
    BY <1>2
  <2>2. v \in LockSet(call[s]) /\ userLock'[v] # s
    BY <2>1 DEF Wanted, LockSet
  <2>3. v \in Wanted(s)
    BY <2>1, <2>2 DEF Wanted
  <2> QED BY <2>1, <2>3 DEF Ordered, LocksAscend
<1>3. LocksAscend'
  BY <1>2 DEF LocksAscend
<1> QED BY <1>1, <1>3 DEF Ordered

\* What a task waits for is a user.
LEMMA WantedUsers ==
    ASSUME Kept, NEW t \in Tasks, pc[t] = "lock"
    PROVE  LockSet(call[t]) \subseteq Users /\ Wanted(t) \subseteq Users
<1>1. call[t] \in Calls /\ call[t].op \in Locking
  BY DEF Kept, Means, CallFits
<1> QED BY <1>1, LockSetUsers DEF Wanted

\* A task that ends leaves its locks free.
LEMMA ReturnOrdered ==
    ASSUME Kept, Ordered, NEW t \in Tasks, End(t)
    PROVE  Ordered'
<1>1. /\ pc'[t] = "idle"
      /\ \A s \in Tasks \ {t} : pc'[s] = pc[s] /\ call'[s] = call[s]
      /\ \A u \in Users : userLock'[u] # t
                      /\ \A s \in Tasks \ {t} : userLock'[u] = s <=> userLock[u] = s
  BY TasksAssumption DEF End, Goto, Kept, TypeOK
<1> QED BY <1>1, WantedUsers, OthersOrdered

\* A task that locks the lowest user it wants has locked none above it.
LEMMA LockOrdered ==
    ASSUME Kept, Ordered, NEW t \in Tasks, Lock(t)
    PROVE  Ordered'
<1>1. PICK u \in Lowest(Wanted(t)) :
         /\ userLock[u] = NoTask
         /\ userLock' = [userLock EXCEPT ![u] = t]
         /\ Goto(t, IF Wanted(t) # {u} THEN "lock"
                    ELSE IF call[t].op = "create" THEN "checkBlocks" ELSE "write")
  BY DEF Lock
<1>2. /\ pc[t] = "lock" /\ pc'[t] \notin {"idle", "available"} /\ UNCHANGED call
      /\ \A s \in Tasks \ {t} : pc'[s] = pc[s]
  BY <1>1 DEF Lock, Goto, Kept, TypeOK
<1>3. /\ u \in LockSet(call[t]) /\ u \in Users /\ LockSet(call[t]) \subseteq Users
      /\ \A v \in Wanted(t) : u <= v
  BY <1>1, <1>2, WantedUsers DEF Lowest, Wanted
<1>4. \A v \in Users : /\ userLock'[v] = t <=> (v = u \/ userLock[v] = t)
                      /\ \A s \in Tasks \ {t} : userLock'[v] = s <=> userLock[v] = s
  BY <1>1, <1>3, TasksAssumption DEF Kept, TypeOK
<1>5. ASSUME NEW v \in Users, userLock'[v] = t
      PROVE  pc'[t] \notin {"idle", "available"} /\ v \in LockSet(call'[t])
  BY <1>2, <1>3, <1>4, <1>5 DEF Ordered, HeldByCall
<1>6. ASSUME NEW v \in Users, userLock'[v] = t, NEW w \in Wanted(t)' PROVE v < w
  <2>1. w \in LockSet(call[t]) /\ userLock'[w] # t
    BY <1>2 DEF Wanted, LockSet
  <2>2. w \in Users /\ w # u /\ w \in Wanted(t)
    BY <1>3, <1>4, <2>1 DEF Wanted
  <2>3. u < w
    <3>1. u \in Nat /\ w \in Nat
      BY <1>3, <2>2, UsersAssumption
    <3> QED BY <1>3, <2>2, <3>1
  <2>4. userLock[v] = t => v < w
    BY <1>2, <2>2 DEF Ordered, LocksAscend
  <2> QED BY <1>4, <1>6, <2>3, <2>4
<1> QED BY <1>2, <1>4, <1>5, <1>6, WantedUsers, OthersOrdered

\* A step that leaves the locks alone, and moves a task to no wait.
LEMMA MoveOrdered ==
    ASSUME Kept, Ordered, NEW t \in Tasks, NEW step \in Steps \ {"idle", "available"},
           Goto(t, step), UNCHANGED <<userLock, call>>,
           step = "lock" => pc[t] = "available"
    PROVE  Ordered'
<1>1. pc'[t] = step /\ \A s \in Tasks \ {t} : pc'[s] = pc[s]
  BY DEF Goto, Kept, TypeOK
<1>2. \A u \in Users : userLock[u] = t => step # "lock" /\ u \in LockSet(call[t])
  BY DEF Ordered, HeldByCall
<1> QED BY <1>1, <1>2, WantedUsers, OthersOrdered

\* Every step keeps Ordered.
LEMMA OrderedStep == Kept /\ Ordered /\ [Next]_vars => Ordered'
<1> SUFFICES ASSUME Kept, Ordered, [Next]_vars PROVE Ordered'
  OBVIOUS
<1>1. CASE UNCHANGED <<userLock, pc, call>>
  BY <1>1 DEF Ordered, HeldByCall, LocksAscend, Wanted, LockSet
<1>2. ASSUME NEW t \in Tasks, NEW c \in Calls, Begin(t, c) PROVE Ordered'
  <2>1. /\ pc[t] = "idle" /\ pc'[t] # "idle" /\ UNCHANGED userLock
        /\ \A s \in Tasks \ {t} : pc'[s] = pc[s] /\ call'[s] = call[s]
    BY <1>2 DEF Begin, Goto, Kept, TypeOK
  <2>2. \A u \in Users : userLock[u] # t
    BY <2>1 DEF Ordered, HeldByCall
  <2> QED BY <2>1, <2>2, WantedUsers, OthersOrdered
<1>3. ASSUME NEW t \in Tasks, NEW step, NEW holds, NEW next \in Steps \ {"idle", "available"},
             Check(t, step, holds, next),
             next = "lock" => step = "available"
      PROVE  Ordered'
  <2>1. CASE Fail(t, step, holds)
    BY <2>1, ReturnOrdered DEF Fail, Return, EndWith
  <2>2. CASE Pass(t, step, holds, next)
    BY <1>3, <2>2, MoveOrdered DEF Pass
  <2> QED BY <1>3, <2>1, <2>2 DEF Check
<1>4. ASSUME NEW t \in Tasks,
             \/ MembersAvailable(t) \/ CheckMembers(t)
             \/ EnsureUserCan(t) \/ RequireMembership(t) \/ EnsureDirectUnblocked(t)
             \/ EnsureAuthorUnblocked(t) \/ EnsureAuthorVisible(t)
      PROVE  Ordered'
  <2> USE DEF Steps
  <2>1. CASE MembersAvailable(t)
    BY <1>3, <2>1 DEF MembersAvailable
  <2>2. CASE CheckMembers(t)
    BY <1>3, <2>2 DEF CheckMembers
  <2>3. CASE EnsureUserCan(t)
    BY <1>3, <2>3 DEF EnsureUserCan
  <2>4. CASE RequireMembership(t)
    BY <1>3, <2>4 DEF RequireMembership
  <2>5. CASE EnsureDirectUnblocked(t)
    BY <1>3, <2>5 DEF EnsureDirectUnblocked
  <2>6. CASE EnsureAuthorUnblocked(t)
    BY <1>3, <2>6 DEF EnsureAuthorUnblocked
  <2>7. CASE EnsureAuthorVisible(t)
    BY <1>3, <2>7 DEF EnsureAuthorVisible
  <2> QED BY <1>4, <2>1, <2>2, <2>3, <2>4, <2>5, <2>6, <2>7
<1>5. ASSUME NEW t \in Tasks, Write(t) \/ NoIds(t) \/ Abort(t) PROVE Ordered'
  <2>1. End(t)
    BY <1>5 DEF Write, CreateConversation, Block, Unblock, Suspend, Reinstate, CreateMessage,
       Pin, Unpin, NoIds, Abort, Return, EndWith
  <2> QED BY <2>1, ReturnOrdered
<1>6. CASE GroupStep
  <2>1. UNCHANGED <<userLock, pc, call>>
    BY <1>6 DEF GroupStep, SyncChat, LinkChat
  <2> QED BY <1>1, <2>1
<1> QED BY <1>1, <1>2, <1>4, <1>5, <1>6, LockOrdered DEF Next, Step, vars

-----------------------------------------------------------------------------
(* How many wait.                                                          *)

UnderWay == {t \in Tasks : pc[t] # "idle"}

FinitelyMany == IsFiniteSet(UnderWay)

\* At first no request is under way.
LEMMA FinitelyManyInit == Init => FinitelyMany
<1>1. Init => UnderWay = {}
  BY DEF Init, UnderWay
<1> QED BY <1>1, FS_EmptySet DEF FinitelyMany

\* At any time finitely many requests have begun, as they begin one by one.
LEMMA FinitelyManyStep == Kept /\ FinitelyMany /\ [Next]_vars => FinitelyMany'
<1> SUFFICES ASSUME Kept, FinitelyMany, [Next]_vars PROVE FinitelyMany'
  OBVIOUS
<1>1. ASSUME NEW t \in Tasks, (\E c \in Calls : Begin(t, c)) \/ Step(t) \/ Abort(t)
      PROVE  \A s \in Tasks \ {t} : pc'[s] = pc[s]
  <2>1. \E step : Goto(t, step)
    <3>1. CASE \E c \in Calls : Begin(t, c)
      BY <3>1 DEF Begin
    <3>2. CASE Lock(t)
      BY <3>2 DEF Lock
    <3>3. CASE \/ MembersAvailable(t) \/ CheckMembers(t)
               \/ EnsureUserCan(t) \/ RequireMembership(t) \/ EnsureDirectUnblocked(t)
               \/ EnsureAuthorUnblocked(t) \/ EnsureAuthorVisible(t)
      BY <3>3 DEF MembersAvailable, CheckMembers, EnsureUserCan, RequireMembership,
         EnsureDirectUnblocked, EnsureAuthorUnblocked, EnsureAuthorVisible, Check, Pass, Fail,
         Return, EndWith, End
    <3>4. CASE Write(t) \/ NoIds(t) \/ Abort(t)
      BY <3>4 DEF Write, CreateConversation, Block, Unblock, Suspend, Reinstate, CreateMessage,
         Pin, Unpin, NoIds, Abort, Return, EndWith, End
    <3> QED BY <1>1, <3>1, <3>2, <3>3, <3>4 DEF Step
  <2> QED BY <2>1 DEF Goto, Kept, TypeOK
<1>2. CASE UNCHANGED pc
  BY <1>2 DEF FinitelyMany, UnderWay
<1>3. ASSUME NEW t \in Tasks, \A s \in Tasks \ {t} : pc'[s] = pc[s]
      PROVE  FinitelyMany'
  <2>1. UnderWay' \subseteq UnderWay \union {t}
    BY <1>3 DEF UnderWay
  <2>2. IsFiniteSet(UnderWay \union {t})
    BY FS_AddElement DEF FinitelyMany
  <2> QED BY <2>1, <2>2, FS_Subset DEF FinitelyMany
<1>4. GroupStep => UNCHANGED pc
  BY DEF GroupStep, SyncChat, LinkChat
<1> QED BY <1>1, <1>2, <1>3, <1>4 DEF Next, vars

\* Of the members of a finite set that are numbered one has the highest number.
LEMMA Highest ==
    ASSUME NEW S, IsFiniteSet(S), S # {}, NEW f \in [S -> Nat]
    PROVE  \E m \in S : \A s \in S : f[s] <= f[m]
<1> DEFINE Above(m) == {s \in S : f[m] < f[s]}
           Tails == {Above(m) : m \in S}
<1>1. Tails \subseteq FiniteSubsetsOf(S) /\ Tails # {}
  <2>1. FiniteSubsetsOf(S) = SUBSET S
    BY FS_FiniteSubsetsOfFinite
  <2>2. \A m \in S : Above(m) \in Tails
    OBVIOUS
  <2>3. ASSUME NEW T \in Tails PROVE T \subseteq S
    BY <2>3
  <2> HIDE DEF Tails
  <2> QED BY <2>1, <2>2, <2>3
<1>2. PICK A \in Tails : \A B \in Tails : <<B, A>> \notin StrictSubsetOrdering(S)
  <2> HIDE DEF Tails
  <2> QED BY <1>1, FS_StrictSubsetOrderingWellFounded, WFMin
<1>3. PICK m \in S : A = Above(m)
  OBVIOUS
<1>4. ASSUME NEW s \in S, f[m] < f[s] PROVE FALSE
  <2>1. Above(s) \subseteq Above(m)
    <3>1. \A r \in S : f[s] < f[r] => f[m] < f[r]
      BY <1>4
    <3> QED BY <3>1
  <2>2. Above(s) # Above(m)
    BY <1>4
  <2>3. <<Above(s), Above(m)>> \in StrictSubsetOrdering(S)
    <3>1. Above(s) \in SUBSET S /\ Above(m) \in SUBSET S
      OBVIOUS
    <3> HIDE DEF Above
    <3> QED BY <2>1, <2>2, <3>1 DEF StrictSubsetOrdering
  <2> QED BY <1>2, <1>3, <2>3
<1> QED BY <1>4

\* A task that waits for a lock wants a higher user than any it holds.
LEMMA WaitsUpwards ==
    ASSUME Kept, Ordered, NEW t \in Tasks, pc[t] = "lock", NEW v \in Wanted(t)
    PROVE  v \in Nat /\ \A u \in Users : userLock[u] = t => u < v
BY WantedUsers, UsersAssumption DEF Ordered, LocksAscend

\* The holder of the highest user that any of them waits for waits for none of them.
LEMMA NoCircle == Kept /\ Ordered /\ FinitelyMany => NoCircularWait
<1> SUFFICES ASSUME Kept, Ordered, FinitelyMany, NEW S \in (SUBSET Tasks) \ {{}},
                    \A t \in S : \E s \in S : WaitsFor(t, s)
             PROVE  FALSE
  BY DEF NoCircularWait
<1>1. \A t \in S : pc[t] = "lock" /\ \E u \in Wanted(t) : userLock[u] \in S
  BY DEF WaitsFor
<1> DEFINE awaited == [t \in S |-> CHOOSE u \in Wanted(t) : userLock[u] \in S]
<1>2. \A t \in S : awaited[t] \in Wanted(t) /\ userLock[awaited[t]] \in S
  BY <1>1
<1>3. awaited \in [S -> Nat]
  BY <1>1, <1>2, WaitsUpwards
<1>4. IsFiniteSet(S)
  <2>1. S \subseteq UnderWay
    BY <1>1 DEF UnderWay
  <2> QED BY <2>1, FS_Subset DEF FinitelyMany
<1>5. PICK m \in S : \A s \in S : awaited[s] <= awaited[m]
  <2> HIDE DEF awaited
  <2> QED BY <1>3, <1>4, Highest
<1> HIDE DEF awaited
<1> DEFINE holder == userLock[awaited[m]]
<1>6. holder \in S /\ awaited[m] \in Users
  BY <1>1, <1>2, WantedUsers
<1>7. awaited[m] < awaited[holder]
  BY <1>1, <1>2, <1>6, WaitsUpwards
<1> QED BY <1>3, <1>5, <1>6, <1>7

-----------------------------------------------------------------------------
(* Theorems.                                                               *)

\* Every state is well formed: blocks join different users, rows name users,
\* conversations and messages, and each lock is free or held by a task.
THEOREM TypeCorrect == Spec => []TypeOK
<1>1. Kept => TypeOK
  BY DEF Kept
<1> QED BY KeptAlways, <1>1, PTL

\* Only a creation starts a conversation outside a group.
LEMMA OnlyCreationStarts ==
    ASSUME Kept, Next, NEW c \in Conversations,
           members[c] = {}, members'[c] # {}, c \notin linked'
    PROVE  \E t \in Tasks : CreateConversation(t) /\ members'[c] = call[t].members
<1>1. ASSUME GroupStep PROVE FALSE
  <2>1. PICK d \in Conversations, S \in GroupRosters : SyncChat(d, S) \/ LinkChat(d, S)
    BY <1>1 DEF GroupStep
  <2> QED BY <2>1 DEF SyncChat, LinkChat, Kept, TypeOK
<1>2. PICK t \in Tasks : CreateConversation(t)
  BY <1>1 DEF Next, Begin, Abort, Step, Write, Lock, MembersAvailable, CheckMembers,
     EnsureUserCan, RequireMembership, EnsureDirectUnblocked, EnsureAuthorUnblocked,
     EnsureAuthorVisible, Check, Pass, Fail, Block, Unblock, Suspend, Reinstate,
     CreateMessage, Pin, Unpin, NoIds, rows
<1>3. members'[c] = call[t].members
  BY <1>2 DEF CreateConversation, Kept, TypeOK
<1> QED BY <1>2, <1>3

\* No conversation outside a group starts across a block, whoever blocks whom while
\* it is being created (create_conversation and block_user take the same locks).
THEOREM NoneInvitedAcrossBlock == Spec => NoBlockedPairInvited
<1> DEFINE A == \A c \in Conversations :
                   members[c] = {} /\ members'[c] # {} /\ c \notin linked'
                      => ~HaveBlock(members'[c])
<1>1. Kept /\ [Next]_vars => [A]_vars
  <2> SUFFICES ASSUME Kept, Next, NEW c \in Conversations,
                      members[c] = {}, members'[c] # {}, c \notin linked'
               PROVE  ~HaveBlock(members'[c])
    OBVIOUS
  <2>1. PICK t \in Tasks : CreateConversation(t) /\ members'[c] = call[t].members
    BY OnlyCreationStarts
  <2> QED BY <2>1 DEF CreateConversation, Kept, Means, CheckStands
<1> QED BY KeptAlways, <1>1, PTL DEF Spec, NoBlockedPairInvited

\* No requests wait for each other in a circle: users are locked in ascending order.
THEOREM NoDeadlock == Spec => []NoCircularWait
<1>1. Spec => []Ordered
  BY OrderedInit, OrderedStep, KeptAlways, PTL DEF Spec
<1>2. Spec => []FinitelyMany
  BY FinitelyManyInit, FinitelyManyStep, KeptAlways, PTL DEF Spec
<1> QED BY <1>1, <1>2, KeptAlways, NoCircle, PTL

\* A suspended user is invited only by a request that waited for locks when the
\* suspension committed (create_conversation and set_account_state take the same locks).
THEOREM InvitedAvailable == Spec => InvitedWereAvailable
<1> DEFINE A == \A t \in Tasks :
                   CreateConversation(t)
                      => call[t].members \intersect suspended \subseteq lateSuspended[t]
<1>1. Kept => A
  BY DEF Kept, Means, AvailableStands, PastAvailable, CreateConversation, Writing
<1> QED BY KeptAlways, <1>1, PTL DEF InvitedWereAvailable

\* A request that begins after a block or a suspension writes nothing against it.
THEOREM LateWritesOnly == Spec => OnlyLateWritesPass
<1> DEFINE A == \A t \in Tasks, c \in Conversations :
          Writes(t, c) =>
             /\ Direct(c) => {e \in blocks : e[1] \in members[c] /\ e[2] \in members[c]}
                               \subseteq lateBlocks[t]
             /\ call[t].actor \in suspended => call[t].actor \in lateSuspended[t]
<1>1. Kept => A
  <2> SUFFICES ASSUME Kept, NEW t \in Tasks, NEW c \in Conversations, Writes(t, c)
               PROVE  /\ Direct(c) => BlocksAmong(members[c]) \subseteq lateBlocks[t]
                      /\ call[t].actor \in suspended => call[t].actor \in lateSuspended[t]
    BY DEF BlocksAmong
  <2>1. PastDirect(t) /\ PastUser(t) /\ call[t].conv = c
    BY DEF Writes, CreateMessage, Pin, Unpin, Writing, PastDirect, PastMember, PastUser
  <2> QED BY <2>1 DEF Kept, Means, DirectStands, UserStands
<1> QED BY KeptAlways, <1>1, PTL DEF OnlyLateWritesPass
===============================================================================
