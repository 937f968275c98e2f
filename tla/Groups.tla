------------------------------- MODULE Groups -------------------------------
(***************************************************************************)
(* One group of one app: its members and their roles, the membership event *)
(* log, and the members of the linked group conversation.  A task is one   *)
(* in-flight request.  Every handler except creation first runs a          *)
(* statement that locks the group row until the transaction ends; the      *)
(* statements after it exclude every other handler and are one step with   *)
(* the commit.                                                             *)
(*                                                                         *)
(* lock_actor_role reads the caller's role in the same statement that      *)
(* locks the group row.  Under READ COMMITTED the statement's snapshot is  *)
(* taken before it waits for the row, and after the wait PostgreSQL        *)
(* refetches only the row it locked (FOR UPDATE OF g), not the member row: *)
(* the role in hand is the one from before the wait.                       *)
(***************************************************************************)
EXTENDS Naturals, FiniteSets

CONSTANTS Users, Tasks, NoTask,
          MaxMembers    \* 100 in the code

ASSUME UsersAssumption == IsFiniteSet(Users)
ASSUME TasksAssumption == NoTask \notin Tasks
ASSUME MaxAssumption == MaxMembers \in Nat

VARIABLES created,    \* the group exists
          role,       \* group_members: user -> role, or "none"
          logged,     \* group_membership_events: user -> the last recorded role
          linked,     \* group_conversations: a conversation is linked
          chat,       \* conversation_members of the linked conversation
          groupLock,  \* the task holding the group row
          pc, call,   \* task -> position, operation served
          seen        \* task -> the caller's role as lock_actor_role read it

group == <<created, role, logged, linked, chat>>
vars == <<group, groupLock, pc, call, seen>>

Roles == {"owner", "admin", "member"}
Ops == {"update", "add", "remove", "setRole", "chat", "leave", "force"}
Calls == [op : Ops, actor : Users, target : Users, newRole : Roles]
NoCall == [op |-> "none"]

Members == {u \in Users : role[u] # "none"}

\* can_manage_members and can_manage_group are the same test.
Manages(r) == r \in {"owner", "admin"}

TypeOK == /\ created \in BOOLEAN
          /\ role \in [Users -> Roles \union {"none"}]
          /\ logged \in [Users -> Roles \union {"none"}]
          /\ linked \in BOOLEAN
          /\ chat \subseteq Users
          /\ groupLock \in Tasks \union {NoTask}
          /\ pc \in [Tasks -> {"idle", "begin", "waiting", "locked"}]
          /\ call \in [Tasks -> Calls \union {NoCall}]
          /\ seen \in [Tasks -> Roles \union {"none"}]

Init == /\ created = FALSE
        /\ role = [u \in Users |-> "none"]
        /\ logged = [u \in Users |-> "none"]
        /\ linked = FALSE
        /\ chat = {}
        /\ groupLock = NoTask
        /\ pc = [t \in Tasks |-> "idle"]
        /\ call = [t \in Tasks |-> NoCall]
        /\ seen = [t \in Tasks |-> "none"]

-----------------------------------------------------------------------------
(* Control.                                                                *)

\* Which arguments an operation reads; the others are fixed.
Normal(c) ==
    /\ c.op \in {"update", "chat", "leave"} => c.target = c.actor
    /\ c.op # "setRole" => c.newRole = "member"

\* The feature, availability and visibility checks on the pool have passed.
Begin(t, c) ==
    /\ created
    /\ pc[t] = "idle"
    /\ Normal(c)
    /\ pc' = [pc EXCEPT ![t] = IF c.op = "force" THEN "waiting" ELSE "begin"]
    /\ call' = [call EXCEPT ![t] = c]
    /\ UNCHANGED <<group, groupLock, seen>>

\* The snapshot of lock_actor_role: no row for a non-member, NotFound.
ReadRole(t) ==
    /\ pc[t] = "begin"
    /\ role[call[t].actor] # "none"
    /\ seen' = [seen EXCEPT ![t] = role[call[t].actor]]
    /\ pc' = [pc EXCEPT ![t] = "waiting"]
    /\ UNCHANGED <<group, groupLock, call>>

\* The group row is locked: FOR UPDATE, in lock_actor_role or on its own in
\* force_remove_group_member.
LockGroup(t) ==
    /\ pc[t] = "waiting"
    /\ groupLock = NoTask
    /\ groupLock' = t
    /\ pc' = [pc EXCEPT ![t] = "locked"]
    /\ UNCHANGED <<group, call, seen>>

Return(t) ==
    /\ pc' = [pc EXCEPT ![t] = "idle"]
    /\ call' = [call EXCEPT ![t] = NoCall]
    /\ seen' = [seen EXCEPT ![t] = "none"]
    /\ groupLock' = IF groupLock = t THEN NoTask ELSE groupLock

\* A handler that refuses (Forbidden, BadRequest, NotFound), fails or is dropped
\* changes nothing, and so does one whose request asks for the present state.
Refuse(t) == pc[t] # "idle" /\ Return(t) /\ UNCHANGED group

Locked(t, op) == pc[t] = "locked" /\ call[t].op = op

-----------------------------------------------------------------------------
(* What the handlers write.                                                *)

\* Mutant: the conversation is brought up to date before the member's row.
SyncChatTooEarly == chat' = IF linked THEN Members ELSE chat

\* sync_linked_chat: the linked conversation takes exactly the new members.
SyncChat == chat' = IF linked THEN {u \in Users : role'[u] # "none"} ELSE chat

\* Mutant: the user bound where the role belongs.
SetRoleToUser(u, r) == /\ role' = [role EXCEPT ![u] = u]
                       /\ logged' = [logged EXCEPT ![u] = r]

\* append_membership_event, then the row of user u.
SetRole(u, r) == /\ role' = [role EXCEPT ![u] = r]
                 /\ logged' = [logged EXCEPT ![u] = r]

\* group_single_owner_idx rejects a second owner row.
OwnerIndex == Cardinality({u \in Users : role'[u] = "owner"}) <= 1

CreateGroup(owner, others) ==
    /\ ~created
    /\ Cardinality(others \union {owner}) <= MaxMembers
    /\ created' = TRUE
    /\ role' = [u \in Users |-> IF u = owner THEN "owner"
                                ELSE IF u \in others THEN "member" ELSE "none"]
    /\ logged' = role'
    /\ UNCHANGED <<linked, chat, groupLock, pc, call, seen>>

\* update_group changes name and avatar, which no rule here depends on.
Update(t) == /\ Locked(t, "update")
             /\ Manages(seen[t])
             /\ Return(t)
             /\ UNCHANGED group

\* Mutant: the cap is off by one.
AddBeyondCap(t) ==
    LET u == call[t].target IN
    /\ Locked(t, "add")
    /\ Manages(seen[t])
    /\ role[u] = "none"
    /\ Cardinality(Members) <= MaxMembers
    /\ SetRole(u, "member")
    /\ SyncChat
    /\ Return(t)
    /\ UNCHANGED <<created, linked>>

AddMember(t) ==
    LET u == call[t].target IN
    /\ Locked(t, "add")
    /\ Manages(seen[t])
    /\ role[u] = "none"
    /\ Cardinality(Members) < MaxMembers
    /\ SetRole(u, "member")
    /\ SyncChat
    /\ Return(t)
    /\ UNCHANGED <<created, linked>>

RemoveMember(t) ==
    LET u == call[t].target IN
    /\ Locked(t, "remove")
    /\ Manages(seen[t])
    /\ role[u] \in {"admin", "member"}
    /\ seen[t] = "admin" => role[u] = "member"
    /\ SetRole(u, "none")
    /\ SyncChat
    /\ Return(t)
    /\ UNCHANGED <<created, linked>>

\* Mutant: a moderator removes any member.
ForceRemoveAnyone(t) ==
    LET u == call[t].target IN
    /\ Locked(t, "force")
    /\ role[u] # "none"
    /\ SetRole(u, "none")
    /\ SyncChat
    /\ Return(t)
    /\ UNCHANGED <<created, linked>>

\* remove_non_owner_member, which reads the role under the lock.
ForceRemove(t) ==
    LET u == call[t].target IN
    /\ Locked(t, "force")
    /\ role[u] \in {"admin", "member"}
    /\ SetRole(u, "none")
    /\ SyncChat
    /\ Return(t)
    /\ UNCHANGED <<created, linked>>

\* Mutant: the owner leaves like anyone else.
LeaveAsOwner(t) ==
    /\ Locked(t, "leave")
    /\ SetRole(call[t].actor, "none")
    /\ SyncChat
    /\ Return(t)
    /\ UNCHANGED <<created, linked>>

Leave(t) ==
    /\ Locked(t, "leave")
    /\ seen[t] # "owner"
    /\ SetRole(call[t].actor, "none")
    /\ SyncChat
    /\ Return(t)
    /\ UNCHANGED <<created, linked>>

\* Promotion and demotion of another member.
ChangeRole(t) ==
    LET c == call[t] IN
    /\ Locked(t, "setRole")
    /\ seen[t] = "owner"
    /\ role[c.target] \notin {"none", c.newRole}
    /\ c.newRole # "owner"
    /\ c.target # c.actor
    /\ SetRole(c.target, c.newRole)
    /\ Return(t)
    /\ UNCHANGED <<created, linked, chat>>

\* Transfer: the caller's row, if there is one, becomes admin and the target's
\* becomes owner; both changes are logged.
Transfer(t) ==
    LET c == call[t] IN
    /\ Locked(t, "setRole")
    /\ seen[t] = "owner"
    /\ c.newRole = "owner"
    /\ role[c.target] \in {"admin", "member"}
    /\ c.target # c.actor
    /\ role' = [role EXCEPT ![c.actor] = IF @ = "none" THEN "none" ELSE "admin",
                            ![c.target] = "owner"]
    /\ logged' = [logged EXCEPT ![c.actor] = "admin", ![c.target] = "owner"]
    /\ OwnerIndex
    /\ Return(t)
    /\ UNCHANGED <<created, linked, chat>>

\* ensure_group_chat: link a conversation of the present members, or bring the
\* linked one up to date.
EnsureChat(t) ==
    /\ Locked(t, "chat")
    /\ Manages(seen[t])
    /\ ~linked => Cardinality(Members) >= 2
    /\ linked' = TRUE
    /\ chat' = Members
    /\ Return(t)
    /\ UNCHANGED <<created, role, logged>>

-----------------------------------------------------------------------------
Write(t) == \/ Update(t) \/ AddMember(t) \/ RemoveMember(t) \/ ForceRemove(t)
            \/ Leave(t) \/ ChangeRole(t) \/ Transfer(t) \/ EnsureChat(t)

Next == \/ \E owner \in Users, others \in SUBSET Users : CreateGroup(owner, others)
        \/ \E t \in Tasks : \/ \E c \in Calls : Begin(t, c)
                            \/ ReadRole(t) \/ LockGroup(t)
                            \/ Write(t) \/ Refuse(t)

Spec == Init /\ [][Next]_vars

-----------------------------------------------------------------------------
(* Properties that hold whatever overlaps.                                 *)

\* Two handlers that read the same owner's role never make two owners: the
\* second transfer meets the unique index (migrations/0004, group_single_owner_idx).
AtMostOneOwner == Cardinality({u \in Users : role[u] = "owner"}) <= 1

\* The linked conversation has exactly the group's members, whatever order
\* members come and go in and whether or not their removal was decided on a
\* stale role.
ChatMirrorsMembers == linked => chat = Members

\* The member cap holds against concurrent additions: they count under the lock.
MemberCap == Cardinality(Members) <= MaxMembers

\* Nobody but the owner takes the owner's membership away: removal by an admin
\* and forced removal read the target's role under the lock.
OwnerRemovedOnlyByLeaving ==
    [][\A u \in Users :
          role[u] = "owner" /\ role'[u] = "none"
            => \E t \in Tasks : Locked(t, "leave") /\ call[t].actor = u]_vars

-----------------------------------------------------------------------------
(* The group's rules, which a stale role breaks and nothing else does.      *)

\* The group always has its one owner (docs/groups-and-commands.md:16).
SingleOwner == created => Cardinality({u \in Users : role[u] = "owner"}) = 1

\* Replaying the membership events gives the members and their roles.
LogReplays == logged = role

\* A handler commits on a role its caller no longer has.
CommitOnStaleRole ==
    \E t \in Tasks : /\ pc[t] = "locked" /\ pc'[t] = "idle"
                     /\ call[t].op # "force"
                     /\ seen[t] # role[call[t].actor]

\* The group loses its one owner, or its events stop replaying to its members,
\* only when lock_actor_role answered with the role its caller had before it
\* waited for the group: with the present role under the lock neither happens,
\* however the requests overlap.
RulesBreakOnlyOnStaleRole ==
    [][(SingleOwner /\ ~SingleOwner') \/ (LogReplays /\ ~LogReplays')
         => CommitOnStaleRole]_vars
=============================================================================
