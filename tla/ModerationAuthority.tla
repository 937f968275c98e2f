------------------------ MODULE ModerationAuthority ------------------------
(***************************************************************************)
(* Moderation commands: account states, moderator roles, content states    *)
(* and user restrictions, with the authority each command needs and the    *)
(* previous state its audit event records.                                 *)
(*                                                                         *)
(* A command resolves its actor on the pool, then opens a READ COMMITTED   *)
(* transaction, takes the advisory locks of the actor and of the users     *)
(* whose authority it changes in ascending order (authorize_mutation,      *)
(* lock_users), reads the actor's account state and role again, reads the  *)
(* previous state with FOR UPDATE, writes it and appends the audit event.  *)
(***************************************************************************)
EXTENDS Naturals, FiniteSets

CONSTANTS Users,      \* actors and the users they command
          Contents,   \* moderated content
          Subjects,   \* (user, scope) pairs that can be restricted
          Reasons,    \* reasons a restriction may give
          Commands,   \* commands served
          Tasks, NoTask

ASSUME UsersAssumption == Users \subseteq Nat
ASSUME TasksAssumption == NoTask \notin Tasks

VARIABLES account,      \* moderation_account_states; no row reads as active
          binding,      \* moderation_role_bindings, "none" without a row
          content,      \* moderation_content_states, "none" without a row
          restriction,  \* moderation_restrictions: the reason, or "none"
          userLock,     \* user -> the task holding the advisory lock
          pc, call,     \* task -> position, command served
          seen          \* task -> the previous state it read

rows == <<account, binding, content, restriction>>
vars == <<rows, userLock, pc, call, seen>>

\* Banned behaves as suspended and removed as hidden everywhere in this module.
Accounts == {"active", "suspended"}
Roles == {"moderator", "admin"}
ContentStates == {"active", "hidden"}

\* Role::capabilities, restricted to the commands modelled here.
RoleCan(role, op) ==
    \/ role = "admin"
    \/ role = "moderator" /\ op \in {"account", "content", "restrict", "unrestrict"}

\* trusted: the gateway's header grants the command's capability.
AllCalls ==
        [op : {"account"}, actor : Users, target : Users, new : Accounts, trusted : BOOLEAN]
   \union [op : {"role"}, actor : Users, target : Users, new : Roles, trusted : BOOLEAN]
   \union [op : {"clearRole"}, actor : Users, target : Users, new : {"none"}, trusted : BOOLEAN]
   \union [op : {"content"}, actor : Users, target : Contents, new : ContentStates, trusted : BOOLEAN]
   \union [op : {"restrict"}, actor : Users, target : Subjects, new : Reasons, trusted : BOOLEAN]
   \union [op : {"unrestrict"}, actor : Users, target : Subjects, new : {"none"}, trusted : BOOLEAN]
Calls == {c \in AllCalls : c.op \in Commands}
NoCall == [op |-> "none"]

Steps == {"idle", "lock", "authorize", "read", "write"}
States == Accounts \union Roles \union ContentStates \union Reasons \union {"none"}

TypeOK == /\ account \in [Users -> Accounts]
          /\ binding \in [Users -> Roles \union {"none"}]
          /\ content \in [Contents -> ContentStates \union {"none"}]
          /\ restriction \in [Subjects -> Reasons \union {"none"}]
          /\ userLock \in [Users -> Tasks \union {NoTask}]
          /\ pc \in [Tasks -> Steps]
          /\ call \in [Tasks -> Calls \union {NoCall}]
          /\ seen \in [Tasks -> States]

\* No moderator exists before a trusted caller appoints one.
Init == /\ account = [u \in Users |-> "active"]
        /\ binding = [u \in Users |-> "none"]
        /\ content = [x \in Contents |-> "none"]
        /\ restriction = [s \in Subjects |-> "none"]
        /\ userLock = [u \in Users |-> NoTask]
        /\ pc = [t \in Tasks |-> "idle"]
        /\ call = [t \in Tasks |-> NoCall]
        /\ seen = [t \in Tasks |-> "none"]

-----------------------------------------------------------------------------
(* Authority and locks.                                                    *)

\* The authority of a call's actor, in the present state.
Authorized(c) ==
    /\ account[c.actor] = "active"
    /\ c.trusted \/ RoleCan(binding[c.actor], c.op)

\* Mutant: only the actor is locked.
LockActorOnly(c) == {c.actor}

\* Commands that change a user's authority or standing lock that user too.
LockSet(c) == IF c.op \in {"account", "role", "clearRole"}
                THEN {c.actor, c.target} ELSE {c.actor}

Held(t) == {u \in Users : userLock[u] = t}

Goto(t, step) == pc' = [pc EXCEPT ![t] = step]

\* actor and require: the authority found on the pool.
Begin(t, c) ==
    /\ pc[t] = "idle"
    /\ Authorized(c)
    /\ Goto(t, "lock")
    /\ call' = [call EXCEPT ![t] = c]
    /\ UNCHANGED <<rows, userLock, seen>>

\* The users of LockSet that a task still has to lock; it takes the lowest.
Wanted(t) == LockSet(call[t]) \ Held(t)

\* Mutant: users locked in any order.
AnyOf(S) == S

Lowest(S) == {u \in S : \A v \in S : u <= v}

Lock(t) ==
    /\ pc[t] = "lock"
    /\ \E u \in Lowest(Wanted(t)) :
          /\ userLock[u] = NoTask
          /\ userLock' = [userLock EXCEPT ![u] = t]
          /\ Goto(t, IF Wanted(t) = {u} THEN "authorize" ELSE "lock")
    /\ UNCHANGED <<rows, call, seen>>

Return(t) ==
    /\ Goto(t, "idle")
    /\ call' = [call EXCEPT ![t] = NoCall]
    /\ seen' = [seen EXCEPT ![t] = "none"]
    /\ userLock' = [u \in Users |-> IF userLock[u] = t THEN NoTask ELSE userLock[u]]

\* Mutant: the authority found on the pool is trusted.
AuthorizeWithoutRecheck(t) ==
    /\ pc[t] = "authorize"
    /\ Goto(t, "read")
    /\ UNCHANGED <<rows, userLock, call, seen>>

\* authorize_mutation, under the locks.
Authorize(t) ==
    /\ pc[t] = "authorize"
    /\ Authorized(call[t])
    /\ Goto(t, "read")
    /\ UNCHANGED <<rows, userLock, call, seen>>

Forbid(t) ==
    /\ pc[t] = "authorize"
    /\ ~Authorized(call[t])
    /\ Return(t)
    /\ UNCHANGED rows

\* Any other failure, and a dropped connection.
Abort(t) == pc[t] # "idle" /\ Return(t) /\ UNCHANGED rows

-----------------------------------------------------------------------------
(* Reading the previous state.                                             *)

OfContent(op) == op = "content"
OfRestriction(op) == op \in {"restrict", "unrestrict"}

Previous(c) == IF c.op = "account" THEN account[c.target]
               ELSE IF c.op \in {"role", "clearRole"} THEN binding[c.target]
               ELSE IF OfContent(c.op) THEN content[c.target]
               ELSE restriction[c.target]

\* The same row of the same table.
SameRow(c, d) == /\ c.target = d.target
                 /\ \/ OfContent(c.op) /\ OfContent(d.op)
                    \/ OfRestriction(c.op) /\ OfRestriction(d.op)

\* Mutant: SELECT without FOR UPDATE.
RowNotLocked(s, t) == FALSE

\* FOR UPDATE locks the row it found until the end of the transaction; where
\* there is no row yet it locks nothing.
LocksRowOf(s, t) ==
    s # t /\ pc[s] = "write" /\ seen[s] # "none" /\ SameRow(call[s], call[t])

RowBusy(t) == \E s \in Tasks : LocksRowOf(s, t)

\* A row without a change to make is committed as it is: an absent content row
\* counts as active.
Unchanged(c) == \/ Previous(c) = c.new
                \/ OfContent(c.op) /\ Previous(c) = "none" /\ c.new = "active"

ReadPrevious(t) ==
    /\ pc[t] = "read"
    /\ ~RowBusy(t)
    /\ ~Unchanged(call[t])
    /\ seen' = [seen EXCEPT ![t] = Previous(call[t])]
    /\ Goto(t, "write")
    /\ UNCHANGED <<rows, userLock, call>>

NothingToDo(t) ==
    /\ pc[t] = "read"
    /\ ~RowBusy(t)
    /\ Unchanged(call[t])
    /\ Return(t)
    /\ UNCHANGED rows

-----------------------------------------------------------------------------
(* Writing it, with the audit event: INSERT .. ON CONFLICT DO UPDATE waits  *)
(* for a row in doubt.                                                     *)

Writing(t, op) == pc[t] = "write" /\ call[t].op = op

SetAccountState(t) ==
    /\ Writing(t, "account")
    /\ account' = [account EXCEPT ![call[t].target] = call[t].new]
    /\ UNCHANGED <<binding, content, restriction>>
    /\ Return(t)

\* Mutant: account commands routed to the handler of roles.
SetRoleByAnyCommand(t) ==
    /\ pc[t] = "write"
    /\ call[t].op \in {"account", "role", "clearRole"}
    /\ binding' = [binding EXCEPT ![call[t].target] = call[t].new]
    /\ UNCHANGED <<account, content, restriction>>
    /\ Return(t)

SetRole(t) ==
    /\ Writing(t, "role") \/ Writing(t, "clearRole")
    /\ binding' = [binding EXCEPT ![call[t].target] = call[t].new]
    /\ UNCHANGED <<account, content, restriction>>
    /\ Return(t)

SetContentState(t) ==
    /\ Writing(t, "content")
    /\ ~RowBusy(t)
    /\ content' = [content EXCEPT ![call[t].target] = call[t].new]
    /\ UNCHANGED <<account, binding, restriction>>
    /\ Return(t)

SetRestriction(t) ==
    /\ Writing(t, "restrict") \/ Writing(t, "unrestrict")
    /\ ~RowBusy(t)
    /\ restriction' = [restriction EXCEPT ![call[t].target] = call[t].new]
    /\ UNCHANGED <<account, binding, content>>
    /\ Return(t)

Write(t) == SetAccountState(t) \/ SetRole(t) \/ SetContentState(t) \/ SetRestriction(t)

Step(t) == \/ Lock(t) \/ Authorize(t) \/ Forbid(t)
           \/ ReadPrevious(t) \/ NothingToDo(t) \/ Write(t)

Next == \E t \in Tasks : (\E c \in Calls : Begin(t, c)) \/ Step(t) \/ Abort(t)

Spec == Init /\ [][Next]_vars

-----------------------------------------------------------------------------
(* Properties.                                                             *)

\* A command commits only if its actor is active and authorized at that moment:
\* a moderator suspended, demoted or cleared after the command was admitted
\* cannot complete it (authorize_mutation, src/moderation.rs).
AuthorityAtCommit ==
    [][\A t \in Tasks : Write(t) => Authorized(call[t])]_vars

\* The audit event of an account or role command records the state the command
\* really replaced, so their events form a chain per user.
AuditChain ==
    \A t \in Tasks :
        pc[t] = "write" /\ call[t].op \in {"account", "role", "clearRole"}
            => seen[t] = Previous(call[t])

\* The audit event of a content or restriction command can only be wrong about
\* its previous state by recording that there was none: FOR UPDATE cannot lock
\* an absent row.
RecordedRowIsCurrent ==
    \A t \in Tasks :
        pc[t] = "write" /\ seen[t] # "none" => seen[t] = Previous(call[t])

\* t needs a lock that s holds before it can go on: of a user, or of a row.
WaitsFor(t, s) == \/ pc[t] = "lock" /\ \E u \in Wanted(t) : userLock[u] = s
                  \/ pc[t] \in {"read", "write"} /\ LocksRowOf(s, t)

\* No commands wait for each other in a circle, whoever commands whom: among any
\* of them one waits for none of the others (lock_users, then FOR UPDATE).
NoCircularWait ==
    \A S \in (SUBSET Tasks) \ {{}} : \E t \in S : \A s \in S : ~WaitsFor(t, s)
=============================================================================
