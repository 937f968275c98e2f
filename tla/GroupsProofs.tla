----------------------------- MODULE GroupsProofs -----------------------------
(***************************************************************************)
(* Proofs about Groups, for every finite set of users, every member cap    *)
(* and any number of tasks: the promises that survive stale roles.         *)
(*                                                                         *)
(* Kept is the inductive invariant.  None of its parts relies on what a    *)
(* task has read of a role: the writes test the present rows under the     *)
(* group's lock, so the lock alone carries the argument.                   *)
(***************************************************************************)
EXTENDS Groups, FiniteSetTheorems, TLAPS

CallsFit == \A t \in Tasks : pc[t] # "idle" => created /\ call[t] \in Calls

\* Before the group exists nobody is in it and no conversation is linked.
EmptyBefore == ~created => ~linked /\ Members = {}

\* One handler stands behind the group's lock.
OneHolder == \A t \in Tasks : pc[t] = "locked" <=> groupLock = t

Owners == {u \in Users : role[u] = "owner"}

Kept == /\ TypeOK
        /\ CallsFit
        /\ EmptyBefore
        /\ OneHolder
        /\ ChatMirrorsMembers
        /\ MemberCap
        /\ AtMostOneOwner

-----------------------------------------------------------------------------
(* Facts about the rows.                                                   *)

\* Fewer users of a kind are no more in number.
LEMMA Fewer ==
    ASSUME NEW S \in SUBSET Users, NEW T \in SUBSET S
    PROVE  /\ IsFiniteSet(S) /\ Cardinality(S) \in Nat /\ Cardinality(T) \in Nat
           /\ Cardinality(T) <= Cardinality(S)
BY UsersAssumption, FS_Subset, FS_CardinalityType

\* A write of user u's row to a role other than owner: nobody else moves.
LEMMA SetRoleFacts ==
    ASSUME TypeOK, NEW u \in Users, NEW r \in {"admin", "member", "none"}, SetRole(u, r)
    PROVE  /\ role' \in [Users -> Roles \union {"none"}]
           /\ logged' \in [Users -> Roles \union {"none"}]
           /\ Owners' = Owners \ {u}
           /\ Members' = (IF r = "none" THEN Members \ {u} ELSE Members \union {u})
<1>1. /\ role' \in [Users -> Roles \union {"none"}]
      /\ logged' \in [Users -> Roles \union {"none"}]
      /\ role'[u] = r
      /\ \A v \in Users \ {u} : role'[v] = role[v]
  BY DEF SetRole, TypeOK, Roles
<1>2. Owners' = Owners \ {u}
  BY <1>1 DEF Owners
<1>3. Members' = (IF r = "none" THEN Members \ {u} ELSE Members \union {u})
  BY <1>1 DEF Members
<1> QED BY <1>1, <1>2, <1>3

-----------------------------------------------------------------------------
(* Kept is inductive.                                                      *)

\* It holds before the group exists.
LEMMA KeptInit == Init => Kept
<1> SUFFICES ASSUME Init PROVE Kept
  OBVIOUS
<1>1. Members = {} /\ Owners = {}
  BY DEF Init, Members, Owners
<1>2. MemberCap /\ AtMostOneOwner
  BY <1>1, FS_EmptySet, MaxAssumption DEF MemberCap, AtMostOneOwner, Owners
<1>3. TypeOK /\ CallsFit /\ EmptyBefore /\ OneHolder /\ ChatMirrorsMembers
  BY <1>1, TasksAssumption
     DEF Init, TypeOK, CallsFit, EmptyBefore, OneHolder, ChatMirrorsMembers
<1> QED BY <1>2, <1>3 DEF Kept

\* What a handler that ends leaves of the control state.
LEMMA ReturnKeepsControl ==
    ASSUME Kept, NEW t \in Tasks, Return(t)
    PROVE  /\ groupLock' \in Tasks \union {NoTask}
           /\ pc' \in [Tasks -> {"idle", "begin", "waiting", "locked"}]
           /\ call' \in [Tasks -> Calls \union {NoCall}]
           /\ seen' \in [Tasks -> Roles \union {"none"}]
           /\ (created => created') => CallsFit'
           /\ OneHolder'
BY TasksAssumption DEF Kept, TypeOK, CallsFit, OneHolder, Return

\* A handler that returns keeps Kept if its rows are well formed and do not break
\* a promise.
LEMMA WriteKeeps ==
    ASSUME Kept, NEW t \in Tasks, Return(t), created',
           created' \in BOOLEAN, linked' \in BOOLEAN, chat' \subseteq Users,
           role' \in [Users -> Roles \union {"none"}],
           logged' \in [Users -> Roles \union {"none"}],
           linked' => chat' = Members',
           Cardinality(Members') <= MaxMembers,
           Cardinality(Owners') <= 1
    PROVE  Kept'
BY ReturnKeepsControl
   DEF Kept, TypeOK, EmptyBefore, ChatMirrorsMembers, MemberCap, AtMostOneOwner, Owners

\* A handler that takes u out or gives u a role other than owner.
LEMMA SetRoleKeeps ==
    ASSUME Kept, created, NEW t \in Tasks, Return(t), UNCHANGED <<created, linked>>,
           NEW u \in Users, NEW r \in {"admin", "member", "none"}, SetRole(u, r),
           linked => chat' = Members', ~linked => chat' = chat,
           r = "none" \/ u \in Members \/ Cardinality(Members) < MaxMembers
    PROVE  Kept'
<1>1. /\ role' \in [Users -> Roles \union {"none"}]
      /\ logged' \in [Users -> Roles \union {"none"}]
      /\ Owners' = Owners \ {u}
      /\ Members' = (IF r = "none" THEN Members \ {u} ELSE Members \union {u})
  BY SetRoleFacts DEF Kept
<1>2. Cardinality(Owners') <= 1
  <2>1. Cardinality(Owners) <= 1
    BY DEF Kept, AtMostOneOwner, Owners
  <2>2. Owners \in SUBSET Users /\ Owners \ {u} \in SUBSET Owners
    BY DEF Owners
  <2> QED BY <1>1, <2>1, <2>2, Fewer
<1>3. Cardinality(Members') <= MaxMembers
  <2>1. Cardinality(Members) <= MaxMembers /\ Members \in SUBSET Users
    BY DEF Kept, MemberCap, Members
  <2>2. IsFiniteSet(Members) /\ Cardinality(Members) \in Nat
    BY <2>1, Fewer
  <2>3. CASE Members' \subseteq Members
    BY <2>1, <2>3, Fewer, MaxAssumption
  <2>4. CASE Members' = Members \union {u} /\ u \notin Members
             /\ Cardinality(Members) < MaxMembers
    <3>1. Cardinality(Members \union {u}) = Cardinality(Members) + 1
      BY <2>2, <2>4, FS_AddElement
    <3> QED BY <2>2, <2>4, <3>1, MaxAssumption
  <2> QED BY <1>1, <2>3, <2>4
<1>4. chat' \subseteq Users
  BY DEF Kept, TypeOK, Members
<1> QED BY <1>1, <1>2, <1>3, <1>4, WriteKeeps DEF Kept, TypeOK

\* A handler behind the lock that succeeds, one case per handler.
LEMMA WriteKeepsKept ==
    ASSUME Kept, NEW t \in Tasks, Write(t)
    PROVE  Kept'
<1> DEFINE c == call[t]
<1>1. created /\ c \in Calls
  BY DEF Kept, CallsFit, Write, Update, AddMember, RemoveMember, ForceRemove, Leave,
         ChangeRole, Transfer, EnsureChat, Locked
<1>2. c.actor \in Users /\ c.target \in Users /\ c.newRole \in Roles
  BY <1>1 DEF Calls
<1>3. CASE Update(t)
  BY <1>1, <1>3, WriteKeeps
     DEF Update, group, Kept, TypeOK, ChatMirrorsMembers, MemberCap, AtMostOneOwner, Owners,
         Members
<1>4. CASE AddMember(t)
  <2>1. /\ Return(t) /\ SetRole(c.target, "member") /\ UNCHANGED <<created, linked>>
        /\ Cardinality(Members) < MaxMembers
    BY <1>4 DEF AddMember
  <2>2. (linked => chat' = Members') /\ (~linked => chat' = chat)
    BY <1>4 DEF AddMember, SyncChat, Members
  <2> QED BY <1>1, <1>2, <2>1, <2>2, SetRoleKeeps
<1>5. CASE RemoveMember(t) \/ ForceRemove(t)
  <2>1. Return(t) /\ SetRole(c.target, "none") /\ UNCHANGED <<created, linked>>
    BY <1>5 DEF RemoveMember, ForceRemove
  <2>2. (linked => chat' = Members') /\ (~linked => chat' = chat)
    BY <1>5 DEF RemoveMember, ForceRemove, SyncChat, Members
  <2> QED BY <1>1, <1>2, <2>1, <2>2, SetRoleKeeps
<1>6. CASE Leave(t)
  <2>1. Return(t) /\ SetRole(c.actor, "none") /\ UNCHANGED <<created, linked>>
    BY <1>6 DEF Leave
  <2>2. (linked => chat' = Members') /\ (~linked => chat' = chat)
    BY <1>6 DEF Leave, SyncChat, Members
  <2> QED BY <1>1, <1>2, <2>1, <2>2, SetRoleKeeps
<1>7. CASE ChangeRole(t)
  <2>1. /\ Return(t) /\ SetRole(c.target, c.newRole) /\ UNCHANGED <<created, linked, chat>>
        /\ c.newRole \in {"admin", "member"}
        /\ c.target \in Members
    BY <1>2, <1>7 DEF ChangeRole, Roles, Members
  <2>2. Members' = Members
    BY <1>2, <2>1, SetRoleFacts DEF Kept
  <2>3. linked => chat' = Members'
    BY <2>1, <2>2 DEF Kept, ChatMirrorsMembers
  <2> QED BY <1>1, <1>2, <2>1, <2>3, SetRoleKeeps
<1>8. CASE Transfer(t)
  <2>1. /\ Return(t) /\ UNCHANGED <<created, linked, chat>>
        /\ c.target \in Members
        /\ role' = [role EXCEPT ![c.actor] = IF @ = "none" THEN "none" ELSE "admin",
                                ![c.target] = "owner"]
        /\ logged' = [logged EXCEPT ![c.actor] = "admin", ![c.target] = "owner"]
        /\ Cardinality(Owners') <= 1
    BY <1>2, <1>8 DEF Transfer, OwnerIndex, Owners, Members
  <2>2. /\ role' \in [Users -> Roles \union {"none"}]
        /\ logged' \in [Users -> Roles \union {"none"}]
    BY <1>2, <2>1 DEF Kept, TypeOK, Roles
  <2>3. Members' = Members
    BY <1>2, <2>1 DEF Kept, TypeOK, Members
  <2> QED BY <1>1, <2>1, <2>2, <2>3, WriteKeeps
          DEF Kept, TypeOK, ChatMirrorsMembers, MemberCap
<1>9. CASE EnsureChat(t)
  <2>1. /\ Return(t) /\ UNCHANGED <<created, role, logged>>
        /\ linked' = TRUE /\ chat' = Members
        /\ Members' = Members /\ Owners' = Owners
    BY <1>9 DEF EnsureChat, Members, Owners
  <2> QED BY <1>1, <2>1, WriteKeeps
          DEF Kept, TypeOK, MemberCap, AtMostOneOwner, Owners, Members
<1> QED BY <1>3, <1>4, <1>5, <1>6, <1>7, <1>8, <1>9 DEF Write

\* A step of control leaves the rows, and what is promised of them, alone.
LEMMA RowsAlone ==
    ASSUME Kept, UNCHANGED group
    PROVE  EmptyBefore' /\ ChatMirrorsMembers' /\ MemberCap' /\ AtMostOneOwner'
BY DEF group, Kept, EmptyBefore, ChatMirrorsMembers, MemberCap, AtMostOneOwner, Members

\* Every step keeps it.
LEMMA KeptStep == Kept /\ [Next]_vars => Kept'
<1> SUFFICES ASSUME Kept, [Next]_vars PROVE Kept'
  OBVIOUS
<1>1. CASE UNCHANGED vars
  <2>1. UNCHANGED group /\ TypeOK' /\ CallsFit' /\ OneHolder'
    BY <1>1 DEF vars, group, Kept, TypeOK, CallsFit, OneHolder
  <2> QED BY <2>1, RowsAlone DEF Kept
<1>2. ASSUME NEW owner \in Users, NEW others \in SUBSET Users, CreateGroup(owner, others)
      PROVE  Kept'
  <2>1. /\ ~created /\ created'
        /\ role' \in [Users -> Roles \union {"none"}]
        /\ logged' = role'
        /\ UNCHANGED <<linked, chat, groupLock, pc, call, seen>>
        /\ Cardinality(others \union {owner}) <= MaxMembers
    BY <1>2 DEF CreateGroup, Roles
  <2>2. Members' = others \union {owner} /\ Owners' = {owner}
    BY <1>2, <2>1 DEF CreateGroup, Members, Owners
  <2>3. MemberCap' /\ AtMostOneOwner'
    <3>1. Cardinality({owner}) = 1
      BY FS_Singleton
    <3>2. Cardinality(Owners') <= 1 /\ Cardinality(Members') <= MaxMembers
      BY <2>1, <2>2, <3>1
    <3> QED BY <3>2 DEF MemberCap, AtMostOneOwner, Owners
  <2>4. ~linked'
    BY <2>1 DEF Kept, EmptyBefore
  <2>5. TypeOK' /\ CallsFit' /\ OneHolder'
    BY <1>2, <2>1 DEF CreateGroup, Kept, TypeOK, CallsFit, OneHolder
  <2> QED BY <2>1, <2>3, <2>4, <2>5 DEF Kept, EmptyBefore, ChatMirrorsMembers
<1>3. ASSUME NEW t \in Tasks, NEW c \in Calls, Begin(t, c) PROVE Kept'
  <2>1. UNCHANGED group /\ TypeOK' /\ CallsFit' /\ OneHolder'
    BY <1>3, TasksAssumption DEF Begin, group, Kept, TypeOK, CallsFit, OneHolder
  <2> QED BY <2>1, RowsAlone DEF Kept
<1>4. ASSUME NEW t \in Tasks, ReadRole(t) PROVE Kept'
  <2>1. call[t].actor \in Users
    BY <1>4 DEF ReadRole, Kept, CallsFit, Calls
  <2>2. UNCHANGED group /\ TypeOK' /\ CallsFit' /\ OneHolder'
    BY <1>4, <2>1 DEF ReadRole, group, Kept, TypeOK, CallsFit, OneHolder
  <2> QED BY <2>2, RowsAlone DEF Kept
<1>5. ASSUME NEW t \in Tasks, LockGroup(t) PROVE Kept'
  <2>1. UNCHANGED group /\ TypeOK' /\ CallsFit' /\ OneHolder'
    BY <1>5, TasksAssumption DEF LockGroup, group, Kept, TypeOK, CallsFit, OneHolder
  <2> QED BY <2>1, RowsAlone DEF Kept
<1>6. ASSUME NEW t \in Tasks, Refuse(t) PROVE Kept'
  <2>1. UNCHANGED group /\ TypeOK' /\ CallsFit' /\ OneHolder'
    BY <1>6, ReturnKeepsControl DEF Refuse, group, Kept, TypeOK
  <2> QED BY <2>1, RowsAlone DEF Kept
<1> QED BY <1>1, <1>2, <1>3, <1>4, <1>5, <1>6, WriteKeepsKept DEF Next

-----------------------------------------------------------------------------
(* Theorems.                                                               *)

\* The inductive invariant holds throughout.
LEMMA KeptAlways == Spec => []Kept
BY KeptInit, KeptStep, PTL DEF Spec

\* Every state is well formed: rows hold roles, the chat holds users, and the
\* group's row is locked by a task or by none.
THEOREM TypeCorrect == Spec => []TypeOK
<1>1. Kept => TypeOK
  BY DEF Kept
<1> QED BY KeptAlways, <1>1, PTL

\* Overlapping transfers never leave two owners.
THEOREM OneOwner == Spec => []AtMostOneOwner
<1>1. Kept => AtMostOneOwner
  BY DEF Kept
<1> QED BY KeptAlways, <1>1, PTL

\* The linked conversation is the group's membership, whatever overlaps.
THEOREM ChatMirrors == Spec => []ChatMirrorsMembers
<1>1. Kept => ChatMirrorsMembers
  BY DEF Kept
<1> QED BY KeptAlways, <1>1, PTL

\* Concurrent additions never exceed the member cap.
THEOREM CapHolds == Spec => []MemberCap
<1>1. Kept => MemberCap
  BY DEF Kept
<1> QED BY KeptAlways, <1>1, PTL

\* The owner's membership ends only when the owner leaves.
THEOREM OwnerStays == Spec => OwnerRemovedOnlyByLeaving
<1> DEFINE A == \A u \in Users :
                   role[u] = "owner" /\ role'[u] = "none"
                     => \E t \in Tasks : Locked(t, "leave") /\ call[t].actor = u
<1>1. Kept /\ [Next]_vars => [A]_vars
  <2> SUFFICES ASSUME Kept, Next, NEW u \in Users, role[u] = "owner", role'[u] = "none"
               PROVE  \E t \in Tasks : Locked(t, "leave") /\ call[t].actor = u
    OBVIOUS
  <2>1. created
    BY DEF Kept, EmptyBefore, Members
  <2>2. PICK t \in Tasks : Write(t)
    BY <2>1 DEF Next, CreateGroup, Begin, ReadRole, LockGroup, Refuse, group
  <2>3. Leave(t)
    BY <2>2 DEF Write, Update, AddMember, RemoveMember, ForceRemove, ChangeRole, Transfer,
       EnsureChat, SetRole, Kept, TypeOK, group, Locked, CallsFit, Calls, Roles
  <2>4. call[t].actor \in Users
    BY <2>3 DEF Leave, Locked, Kept, CallsFit, Calls
  <2>5. call[t].actor = u
    BY <2>3, <2>4 DEF Leave, SetRole, Kept, TypeOK
  <2> QED BY <2>3, <2>5 DEF Leave
<1> QED BY KeptAlways, <1>1, PTL DEF Spec, OwnerRemovedOnlyByLeaving

\* One owner, as a set.
LEMMA OneOwnerSet ==
    Cardinality(Owners) = 1 <=> \E o \in Users : Owners = {o}
<1>1. IsFiniteSet(Owners)
  BY Fewer DEF Owners
<1> QED BY <1>1, FS_Singleton DEF Owners

\* A handler that decides on its caller's present role, and a forced removal,
\* keep the one owner and the events in step with the rows.
LEMMA FreshRoleKeepsRules ==
    ASSUME Kept, NEW t \in Tasks, Write(t),
           call[t].op = "force" \/ seen[t] = role[call[t].actor]
    PROVE  (SingleOwner => SingleOwner') /\ (LogReplays => LogReplays')
<1> DEFINE c == call[t]
<1>1. created /\ c \in Calls
  BY DEF Kept, CallsFit, Write, Update, AddMember, RemoveMember, ForceRemove, Leave,
         ChangeRole, Transfer, EnsureChat, Locked
<1>2. c.actor \in Users /\ c.target \in Users /\ c.newRole \in Roles
  BY <1>1 DEF Calls
<1>3. CASE UNCHANGED <<created, role, logged>>
  BY <1>3 DEF SingleOwner, LogReplays
<1>4. ASSUME NEW u \in Users, NEW r \in {"admin", "member", "none"}, SetRole(u, r),
             UNCHANGED created, SingleOwner => u \notin Owners
      PROVE  (SingleOwner => SingleOwner') /\ (LogReplays => LogReplays')
  <2>1. Owners' = Owners \ {u}
    BY <1>4, SetRoleFacts DEF Kept
  <2>2. LogReplays => LogReplays'
    BY <1>4 DEF LogReplays, SetRole
  <2>3. SingleOwner => SingleOwner'
    BY <1>4, <2>1 DEF SingleOwner, Owners
  <2> QED BY <2>2, <2>3
<1>5. CASE AddMember(t) \/ RemoveMember(t) \/ ForceRemove(t)
  <2>1. PICK r \in {"member", "none"} : SetRole(c.target, r)
    BY <1>5 DEF AddMember, RemoveMember, ForceRemove
  <2>2. UNCHANGED created /\ c.target \notin Owners
    BY <1>2, <1>5 DEF AddMember, RemoveMember, ForceRemove, Owners
  <2> QED BY <1>2, <1>4, <2>1, <2>2
<1>6. CASE Leave(t)
  <2>1. SetRole(c.actor, "none") /\ UNCHANGED created /\ c.actor \notin Owners
    BY <1>2, <1>6 DEF Leave, Locked, Owners
  <2> QED BY <1>2, <1>4, <2>1
<1>7. CASE ChangeRole(t)
  <2>1. /\ SetRole(c.target, c.newRole) /\ UNCHANGED created
        /\ c.newRole \in {"admin", "member"}
        /\ c.actor \in Owners /\ c.target # c.actor
    BY <1>2, <1>7 DEF ChangeRole, Locked, Roles, Owners
  <2>2. SingleOwner => c.target \notin Owners
    BY <1>1, <2>1, OneOwnerSet DEF SingleOwner, Owners
  <2> QED BY <1>2, <1>4, <2>1, <2>2
<1>8. CASE Transfer(t)
  <2>1. /\ UNCHANGED created
        /\ c.actor \in Owners /\ c.target # c.actor
        /\ role' = [role EXCEPT ![c.actor] = "admin", ![c.target] = "owner"]
        /\ logged' = [logged EXCEPT ![c.actor] = "admin", ![c.target] = "owner"]
    BY <1>2, <1>8 DEF Transfer, Locked, Owners
  <2>2. LogReplays => LogReplays'
    BY <2>1 DEF LogReplays
  <2>3. ASSUME SingleOwner PROVE SingleOwner'
    <3>1. Owners = {c.actor}
      BY <1>1, <2>1, <2>3, OneOwnerSet DEF SingleOwner, Owners
    <3>2. Owners' = {c.target}
      BY <1>2, <2>1, <3>1 DEF Owners, Kept, TypeOK
    <3>3. Cardinality(Owners') = 1
      BY <3>2, FS_Singleton
    <3> QED BY <3>3 DEF SingleOwner, Owners
  <2> QED BY <2>2, <2>3
<1> QED BY <1>3, <1>5, <1>6, <1>7, <1>8 DEF Write, Update, EnsureChat, group

\* Only a stale role costs the group its one owner or its events their sense.
THEOREM RulesBreakOnly == Spec => RulesBreakOnlyOnStaleRole
<1> DEFINE A == (SingleOwner /\ ~SingleOwner') \/ (LogReplays /\ ~LogReplays')
                  => CommitOnStaleRole
<1>1. Kept /\ [Next]_vars => [A]_vars
  <2> SUFFICES ASSUME Kept, Next,
                      (SingleOwner /\ ~SingleOwner') \/ (LogReplays /\ ~LogReplays')
               PROVE  CommitOnStaleRole
    OBVIOUS
  <2>1. CASE UNCHANGED group
    BY <2>1 DEF group, SingleOwner, LogReplays
  <2>2. ASSUME NEW owner \in Users, NEW others \in SUBSET Users, CreateGroup(owner, others)
        PROVE  FALSE
    <3>1. LogReplays' /\ Owners' = {owner}
      BY <2>2 DEF CreateGroup, LogReplays, Owners
    <3>2. Cardinality(Owners') = 1
      BY <3>1, FS_Singleton
    <3> QED BY <3>1, <3>2 DEF SingleOwner, Owners
  <2>3. CASE \E t \in Tasks : Write(t)
    <3>1. PICK t \in Tasks : Write(t)
      BY <2>3
    <3>2. call[t].op # "force" /\ seen[t] # role[call[t].actor]
      BY <3>1, FreshRoleKeepsRules
    <3>3. pc[t] = "locked" /\ pc'[t] = "idle"
      BY <3>1 DEF Write, Update, AddMember, RemoveMember, ForceRemove, Leave, ChangeRole,
         Transfer, EnsureChat, Locked, Return, Kept, TypeOK
    <3> QED BY <3>2, <3>3 DEF CommitOnStaleRole
  <2> QED BY <2>1, <2>2, <2>3 DEF Next, Begin, ReadRole, LockGroup, Refuse
<1> QED BY KeptAlways, <1>1, PTL DEF Spec, RulesBreakOnlyOnStaleRole
===============================================================================
