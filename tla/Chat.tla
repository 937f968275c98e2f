--------------------------------- MODULE Chat ---------------------------------
(***************************************************************************)
(* Conversations, messages and pins of one app whose deployment enables    *)
(* blocks and moderation.  A task is one in-flight request.                *)
(*                                                                         *)
(* create_conversation asks whether its members are suspended, then takes  *)
(* the advisory lock of every member, as block_user, unblock_user and      *)
(* set_account_state do, and looks for blocks under the locks.             *)
(* create_message, pin_message and unpin_message take no lock: they check  *)
(* the caller's account, membership and blocks on the pool, one statement  *)
(* after the other, and write afterwards.  Linked conversations belong to  *)
(* a group, whose handlers (module Groups) create them and keep their      *)
(* members up to date.  No content is hidden here (module Posts).          *)
(***************************************************************************)
EXTENDS Naturals, FiniteSets

CONSTANTS Users, Conversations, Messages, Tasks, NoTask,
          Ops,         \* the operations served
          BlockEdges,  \* the blocks that users ask for: <<blocker, blocked>>
          Suspects,    \* the users whom moderators suspend
          GroupRosters \* the members that groups give their conversations

\* lock_users sorts the users it locks.
ASSUME UsersAssumption == Users \subseteq Nat
ASSUME TasksAssumption == NoTask \notin Tasks

Edges == {e \in Users \X Users : e[1] # e[2]}

ASSUME EdgesAssumption == BlockEdges \subseteq Edges
ASSUME SuspectsAssumption == Suspects \subseteq Users
ASSUME GroupRostersAssumption == GroupRosters \subseteq SUBSET Users

VARIABLES blocks,    \* user_blocks: <<blocker, blocked>>
          suspended, \* moderation_account_states: suspended or banned
          members,   \* conversation -> its members; none before it exists
          linked,    \* conversations of groups
          messages,  \* rows of messages: id, conversation, author
          pins,      \* conversation_message_pins: <<conversation, message>>
          userLock,  \* user -> the task holding the user's advisory lock
          pc, call,  \* task -> position, operation served
          \* History, of a request and what it has not decided on under locks:
          lateBlocks,    \* the blocks that committed since it began
          lateSuspended  \* the users suspended since it began, or, when it starts
                         \* a conversation, since it found them available

rows == <<blocks, suspended, members, linked, messages, pins>>
late == <<lateBlocks, lateSuspended>>
vars == <<rows, userLock, pc, call, late>>

Rosters == {S \in SUBSET Users : Cardinality(S) >= 2}   \* and at most 100 in the code

AllCalls ==
        [op : {"create"}, members : Rosters]
   \union [op : {"block", "unblock"}, edge : BlockEdges]
   \union [op : {"suspend", "reinstate"}, user : Suspects]
   \union [op : {"send"}, actor : Users, conv : Conversations]
   \union [op : {"pin", "unpin"}, actor : Users, conv : Conversations, message : Messages]
Calls == {c \in AllCalls : c.op \in Ops}
NoCall == [op |-> "none"]

ChatOps == {"send", "pin", "unpin"}

Steps == {"idle", "available", "lock", "checkBlocks",
          "user", "member", "direct", "author", "account", "write"}

TypeOK == /\ blocks \subseteq BlockEdges
          /\ suspended \subseteq Suspects
          /\ members \in [Conversations -> SUBSET Users]
          /\ linked \subseteq Conversations
          /\ messages \subseteq [id : Messages, conv : Conversations, author : Users]
          /\ pins \subseteq Conversations \X Messages
          /\ userLock \in [Users -> Tasks \union {NoTask}]
          /\ pc \in [Tasks -> Steps]
          /\ call \in [Tasks -> Calls \union {NoCall}]
          /\ lateBlocks \in [Tasks -> SUBSET BlockEdges]
          /\ lateSuspended \in [Tasks -> SUBSET Suspects]

Init == /\ blocks = {}
        /\ suspended = {}
        /\ members = [c \in Conversations |-> {}]
        /\ linked = {}
        /\ messages = {}
        /\ pins = {}
        /\ userLock = [u \in Users |-> NoTask]
        /\ pc = [t \in Tasks |-> "idle"]
        /\ call = [t \in Tasks |-> NoCall]
        /\ lateBlocks = [t \in Tasks |-> {}]
        /\ lateSuspended = [t \in Tasks |-> {}]

\* members_have_block: a block between any two of them, in either direction.
HaveBlock(S) == \E e \in blocks : e[1] \in S /\ e[2] \in S

Created == {c \in Conversations : members[c] # {}}

-----------------------------------------------------------------------------
(* Control.                                                                *)

Goto(t, step) == pc' = [pc EXCEPT ![t] = step]

Locking == {"create", "block", "unblock", "suspend", "reinstate"}

Begin(t, c) ==
    /\ pc[t] = "idle"
    /\ Goto(t, CASE c.op = "create" -> "available"
                 [] c.op \in ChatOps -> "user"
                 [] OTHER -> "lock")
    /\ call' = [call EXCEPT ![t] = c]
    /\ UNCHANGED <<rows, userLock, late>>

\* Mutant: a conversation locks one of its members.
LockOneMember(c) == CASE c.op = "create" -> {CHOOSE u \in c.members : \A v \in c.members : v <= u}
                      [] c.op \in {"block", "unblock"} -> {c.edge[1], c.edge[2]}
                      [] OTHER -> {c.user}

\* A moderator is none of the Users here: set_account_state locks the moderator
\* too, which keeps only that moderator's own commands apart.
LockSet(c) == CASE c.op = "create" -> c.members
                [] c.op \in {"block", "unblock"} -> {c.edge[1], c.edge[2]}
                [] OTHER -> {c.user}

\* The users of LockSet that a task has still to lock; it takes the lowest.
Wanted(t) == {u \in LockSet(call[t]) : userLock[u] # t}

\* Mutant: users locked in any order.
AnyOf(S) == S

Lowest(S) == {u \in S : \A v \in S : u <= v}

\* lock_users.  The pair lock that block_user and unblock_user take afterwards
\* adds nothing here: its contenders hold these two locks first.
Lock(t) ==
    /\ pc[t] = "lock"
    /\ \E u \in Lowest(Wanted(t)) :
          /\ userLock[u] = NoTask
          /\ userLock' = [userLock EXCEPT ![u] = t]
          /\ Goto(t, IF Wanted(t) # {u} THEN "lock"
                     ELSE IF call[t].op = "create" THEN "checkBlocks" ELSE "write")
    /\ UNCHANGED <<rows, call, late>>

End(t) ==
    /\ Goto(t, "idle")
    /\ call' = [call EXCEPT ![t] = NoCall]
    /\ userLock' = [u \in Users |-> IF userLock[u] = t THEN NoTask ELSE userLock[u]]

\* t ends; what it committed comes late for the requests that have begun.
EndWith(t, edges, users) ==
    /\ End(t)
    /\ lateBlocks' = [s \in Tasks |->
          IF s = t THEN {}
          ELSE IF call[s].op \in ChatOps THEN lateBlocks[s] \union edges
               ELSE lateBlocks[s]]
    /\ lateSuspended' = [s \in Tasks |->
          IF s = t THEN {}
          ELSE IF call[s].op \in ChatOps \/ (call[s].op = "create" /\ pc[s] = "lock")
               THEN lateSuspended[s] \union users
               ELSE lateSuspended[s]]

Return(t) == EndWith(t, {}, {})

\* Any other failure, a restriction, a dropped connection.
Abort(t) == pc[t] # "idle" /\ Return(t) /\ UNCHANGED rows

\* A check at one position: the next position, or a refusal.
Pass(t, step, holds, next) ==
    /\ pc[t] = step
    /\ holds
    /\ Goto(t, next)
    /\ UNCHANGED <<rows, userLock, call, late>>

Fail(t, step, holds) == pc[t] = step /\ ~holds /\ Return(t) /\ UNCHANGED rows

Check(t, step, holds, next) == Pass(t, step, holds, next) \/ Fail(t, step, holds)

-----------------------------------------------------------------------------
(* Checks.                                                                 *)

\* Mutant: nobody asks whether the members are suspended.
AnyoneAvailable(t) == Check(t, "available", TRUE, "lock")

\* No member is suspended or banned, the caller included (whom ensure_user_can
\* has asked about before): read in the transaction, before it waits for locks.
MembersAvailable(t) ==
    Check(t, "available", call[t].members \intersect suspended = {}, "lock")

\* members_have_block_in_transaction, under the locks.
CheckMembers(t) == Check(t, "checkBlocks", ~HaveBlock(call[t].members), "write")

\* ensure_user_can.
EnsureUserCan(t) == Check(t, "user", call[t].actor \notin suspended, "member")

\* require_membership.
RequireMembership(t) ==
    Check(t, "member", call[t].actor \in members[call[t].conv], "direct")

\* A two-person conversation of no group.
Direct(c) == c \notin linked /\ Cardinality(members[c]) = 2

\* Mutant: only the blocker's own block is looked for.
OwnBlockOnly(t) ==
    LET c == call[t].conv IN
    Check(t, "direct",
          ~(Direct(c) /\ \E u \in members[c] : <<call[t].actor, u>> \in blocks),
          IF call[t].op = "pin" THEN "author" ELSE "write")

\* ensure_direct_conversation_unblocked.  Whether a conversation is linked never
\* changes, and the members of one that is not never do: only the last of its
\* statements reads what another request may write.
EnsureDirectUnblocked(t) ==
    LET c == call[t].conv IN
    Check(t, "direct", ~(Direct(c) /\ HaveBlock(members[c])),
          IF call[t].op = "pin" THEN "author" ELSE "write")

\* pin_message looks the message up in this conversation, and ensure_not_blocked
\* separates the caller from its author.
EnsureAuthorUnblocked(t) ==
    Check(t, "author",
          \E m \in messages : /\ m.id = call[t].message
                              /\ m.conv = call[t].conv
                              /\ ~HaveBlock({call[t].actor, m.author}),
          "account")

\* ensure_account_visible of the author; a message is never deleted.
EnsureAuthorVisible(t) ==
    Check(t, "account",
          \A m \in messages : m.id = call[t].message => m.author \notin suspended,
          "write")

-----------------------------------------------------------------------------
(* Writes.                                                                 *)

Writing(t, op) == pc[t] = "write" /\ call[t].op = op

CreateConversation(t) ==
    /\ Writing(t, "create")
    /\ \E c \in Conversations \ Created :
          members' = [members EXCEPT ![c] = call[t].members]
    /\ UNCHANGED <<blocks, suspended, linked, messages, pins>>
    /\ Return(t)

\* Mutant: the blocker bound to both columns.
BlockOneself(t) == /\ Writing(t, "block")
                   /\ blocks' = blocks \union {<<call[t].edge[1], call[t].edge[1]>>}
                   /\ UNCHANGED <<suspended, members, linked, messages, pins>>
                   /\ Return(t)

Block(t) == /\ Writing(t, "block")
            /\ blocks' = blocks \union {call[t].edge}
            /\ UNCHANGED <<suspended, members, linked, messages, pins>>
            /\ EndWith(t, {call[t].edge} \ blocks, {})

Unblock(t) == /\ Writing(t, "unblock")
              /\ blocks' = blocks \ {call[t].edge}
              /\ UNCHANGED <<suspended, members, linked, messages, pins>>
              /\ Return(t)

\* set_account_state: suspended or banned, and active or limited again.
Suspend(t) == /\ Writing(t, "suspend")
              /\ suspended' = suspended \union {call[t].user}
              /\ UNCHANGED <<blocks, members, linked, messages, pins>>
              /\ EndWith(t, {}, {call[t].user} \ suspended)

Reinstate(t) == /\ Writing(t, "reinstate")
                /\ suspended' = suspended \ {call[t].user}
                /\ UNCHANGED <<blocks, members, linked, messages, pins>>
                /\ Return(t)

\* The message, and the conversation's new version and time.
CreateMessage(t) ==
    /\ Writing(t, "send")
    /\ \E i \in Messages \ {m.id : m \in messages} :
          messages' = messages \union
                        {[id |-> i, conv |-> call[t].conv, author |-> call[t].actor]}
    /\ UNCHANGED <<blocks, suspended, members, linked, pins>>
    /\ Return(t)

Pin(t) == /\ Writing(t, "pin")
          /\ pins' = pins \union {<<call[t].conv, call[t].message>>}
          /\ UNCHANGED <<blocks, suspended, members, linked, messages>>
          /\ Return(t)

Unpin(t) == /\ Writing(t, "unpin")
            /\ pins' = pins \ {<<call[t].conv, call[t].message>>}
            /\ UNCHANGED <<blocks, suspended, members, linked, messages>>
            /\ Return(t)

\* The ids of this instance may be used up.
NoIds(t) == /\ \/ Writing(t, "create") /\ Created = Conversations
               \/ Writing(t, "send") /\ Messages = {m.id : m \in messages}
            /\ Return(t)
            /\ UNCHANGED rows

\* ensure_group_chat creates a conversation of a group's members, whoever has
\* blocked whom.
LinkChat(c, S) ==
    /\ c \notin Created
    /\ members' = [members EXCEPT ![c] = S]
    /\ linked' = linked \union {c}
    /\ UNCHANGED <<blocks, suspended, messages, pins, userLock, pc, call, late>>

\* sync_conversation_members, as the group's members come and go.
SyncChat(c, S) ==
    /\ c \in linked
    /\ members' = [members EXCEPT ![c] = S]
    /\ UNCHANGED <<blocks, suspended, linked, messages, pins, userLock, pc, call, late>>

GroupStep == \E c \in Conversations, S \in GroupRosters \ {{}} :
                SyncChat(c, S) \/ (S \in Rosters /\ LinkChat(c, S))

-----------------------------------------------------------------------------
Write(t) == \/ CreateConversation(t) \/ Block(t) \/ Unblock(t)
            \/ Suspend(t) \/ Reinstate(t) \/ CreateMessage(t) \/ Pin(t) \/ Unpin(t)

Step(t) == \/ MembersAvailable(t) \/ Lock(t) \/ CheckMembers(t)
           \/ EnsureUserCan(t) \/ RequireMembership(t) \/ EnsureDirectUnblocked(t)
           \/ EnsureAuthorUnblocked(t) \/ EnsureAuthorVisible(t)
           \/ Write(t) \/ NoIds(t)

Next == \/ \E t \in Tasks : (\E c \in Calls : Begin(t, c)) \/ Step(t) \/ Abort(t)
        \/ GroupStep

Spec == Init /\ [][Next]_vars

-----------------------------------------------------------------------------
(* Properties that hold whatever overlaps.                                 *)

\* Whoever blocks whom while the request is under way, no conversation outside a
\* group starts with two members between whom a block stands (README.md:115,
\* tests/database_block_serialization.rs:104).
NoBlockedPairInvited ==
    [][\A c \in Conversations :
          members[c] = {} /\ members'[c] # {} /\ c \notin linked'
             => ~HaveBlock(members'[c])]_vars

\* A conversation starts with a suspended member only if that member was
\* suspended while the request waited for the members' locks, which come after
\* the question: once it holds them, set_account_state waits for it
\* (README.md:174 says of groups that unavailable accounts cannot be added).
InvitedWereAvailable ==
    [][\A t \in Tasks :
          CreateConversation(t)
             => call[t].members \intersect suspended \subseteq lateSuspended[t]]_vars

\* t needs a user's lock that s holds before it can go on.
WaitsFor(t, s) == pc[t] = "lock" /\ \E u \in Wanted(t) : userLock[u] = s

\* No requests wait for each other in a circle, however many users a conversation
\* locks one after the other: among any of them one waits for none of the others.
NoCircularWait ==
    \A S \in (SUBSET Tasks) \ {{}} : \E t \in S : \A s \in S : ~WaitsFor(t, s)

-----------------------------------------------------------------------------
(* Messages, pins and unpins change a conversation.                        *)

Writes(t, c) == call[t] # NoCall /\ call[t].op \in ChatOps
                /\ call[t].conv = c /\ (CreateMessage(t) \/ Pin(t) \/ Unpin(t))

\* A block silences a two-person conversation outside a group, and a suspension
\* its user, for every request that begins after it commits: what is written all
\* the same was under way, with each of its checks passed before.
OnlyLateWritesPass ==
    [][\A t \in Tasks, c \in Conversations :
          Writes(t, c) =>
             /\ Direct(c) => {e \in blocks : e[1] \in members[c] /\ e[2] \in members[c]}
                               \subseteq lateBlocks[t]
             /\ call[t].actor \in suspended => call[t].actor \in lateSuspended[t]]_vars

\* Nothing is written into a two-person conversation outside a group while either
\* has blocked the other (README.md:115).
BlockedDirectIsSilent ==
    [][\A t \in Tasks, c \in Conversations :
          Writes(t, c) => ~(Direct(c) /\ HaveBlock(members[c]))]_vars
=============================================================================
