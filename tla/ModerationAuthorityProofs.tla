---------------------- MODULE ModerationAuthorityProofs ----------------------
(***************************************************************************)
(* Proofs about ModerationAuthority, for every set of users, contents,     *)
(* restrictions and tasks.                                                 *)
(*                                                                         *)
(* Guarded is the inductive invariant: a command past its locks holds the  *)
(* locks of everyone whose authority it reads or changes, and what it read *)
(* under them, its authority and the previous state, still stands.         *)
(***************************************************************************)
EXTENDS ModerationAuthority, FiniteSetTheorems, TLAPS

AuthorityOps == {"account", "role", "clearRole"}

CallsFit == \A t \in Tasks : pc[t] # "idle" => call[t] \in Calls

LocksHeld == \A t \in Tasks : pc[t] \in {"authorize", "read", "write"} =>
                 \A u \in LockSet(call[t]) : userLock[u] = t

StillAuthorized == \A t \in Tasks : pc[t] \in {"read", "write"} => Authorized(call[t])

Guarded == /\ TypeOK
           /\ CallsFit
           /\ LocksHeld
           /\ StillAuthorized
           /\ AuditChain
           /\ RecordedRowIsCurrent

-----------------------------------------------------------------------------
(* Facts about commands.                                                   *)

\* What a command names and writes, by its kind.
LEMMA CallFields ==
    ASSUME NEW c \in Calls
    PROVE  /\ c.actor \in Users /\ c.trusted \in BOOLEAN
           /\ c.op \in AuthorityOps \union {"content", "restrict", "unrestrict"}
           /\ c.op \in AuthorityOps => c.target \in Users
           /\ c.op = "account" => c.new \in Accounts
           /\ c.op \in {"role", "clearRole"} => c.new \in Roles \union {"none"}
           /\ c.op = "content" => c.target \in Contents /\ c.new \in ContentStates
           /\ c.op \in {"restrict", "unrestrict"} =>
                  c.target \in Subjects /\ c.new \in Reasons \union {"none"}
BY DEF Calls, AllCalls, AuthorityOps

\* A command locks users: its actor, and its target if that is one.
LEMMA LockSetUsers ==
    ASSUME NEW c \in Calls
    PROVE  /\ LockSet(c) \subseteq Users
           /\ c.actor \in LockSet(c)
           /\ c.op \in AuthorityOps => c.target \in LockSet(c)
BY CallFields DEF LockSet, AuthorityOps

\* Commands past their locks share no locked user.
LEMMA LocksExclude ==
    ASSUME LocksHeld, NEW s \in Tasks, NEW t \in Tasks, s # t,
           pc[s] \in {"authorize", "read", "write"},
           pc[t] \in {"authorize", "read", "write"}
    PROVE  LockSet(call[s]) \intersect LockSet(call[t]) = {}
BY DEF LocksHeld

\* The previous state of a command, by its kind.
LEMMA PreviousOf ==
    ASSUME NEW c \in Calls
    PROVE  /\ c.op = "account" => Previous(c) = account[c.target]
           /\ c.op \in {"role", "clearRole"} => Previous(c) = binding[c.target]
           /\ c.op = "content" => Previous(c) = content[c.target]
           /\ c.op \in {"restrict", "unrestrict"} => Previous(c) = restriction[c.target]
BY CallFields DEF Previous, OfContent, OfRestriction, AuthorityOps

-----------------------------------------------------------------------------
(* Guarded is inductive.                                                   *)

\* It holds before any command.
LEMMA GuardedInit == Init => Guarded
BY DEF Init, Guarded, TypeOK, CallsFit, LocksHeld, StillAuthorized, AuditChain,
   RecordedRowIsCurrent, Steps, States, Accounts

\* Returning keeps the part of Guarded that speaks of calls and locks.
LEMMA ReturnKeepsControl ==
    ASSUME TypeOK, CallsFit, LocksHeld, NEW t \in Tasks, Return(t)
    PROVE  /\ userLock' \in [Users -> Tasks \union {NoTask}]
           /\ pc' \in [Tasks -> Steps]
           /\ call' \in [Tasks -> Calls \union {NoCall}]
           /\ seen' \in [Tasks -> States]
           /\ CallsFit' /\ LocksHeld'
           /\ pc'[t] = "idle"
           /\ \A s \in Tasks \ {t} :
                 pc'[s] = pc[s] /\ call'[s] = call[s] /\ seen'[s] = seen[s]
<1> USE DEF TypeOK, Return, Goto
<1>1. /\ userLock' \in [Users -> Tasks \union {NoTask}]
      /\ pc' \in [Tasks -> Steps]
      /\ call' \in [Tasks -> Calls \union {NoCall}]
      /\ seen' \in [Tasks -> States]
  BY DEF Steps, States
<1>2. /\ pc'[t] = "idle"
      /\ \A s \in Tasks \ {t} :
            pc'[s] = pc[s] /\ call'[s] = call[s] /\ seen'[s] = seen[s]
  OBVIOUS
<1>3. CallsFit'
  BY <1>2 DEF CallsFit
<1>4. LocksHeld'
  <2> SUFFICES ASSUME NEW s \in Tasks, pc'[s] \in {"authorize", "read", "write"},
                      NEW u \in LockSet(call'[s])
               PROVE  userLock'[u] = s
    BY DEF LocksHeld, LockSet
  <2>1. s # t /\ pc[s] = pc'[s] /\ call'[s] = call[s]
    BY <1>2
  <2>2. userLock[u] = s /\ u \in Users
    BY <2>1, LockSetUsers DEF LocksHeld, CallsFit
  <2> QED BY <2>1, <2>2
<1> QED BY <1>1, <1>2, <1>3, <1>4

\* So a command that writes nothing keeps Guarded.
LEMMA ReturnKeepsGuarded ==
    ASSUME Guarded, NEW t \in Tasks, Return(t), UNCHANGED rows
    PROVE  Guarded'
<1>1. /\ userLock' \in [Users -> Tasks \union {NoTask}]
      /\ pc' \in [Tasks -> Steps]
      /\ call' \in [Tasks -> Calls \union {NoCall}]
      /\ seen' \in [Tasks -> States]
      /\ CallsFit' /\ LocksHeld'
      /\ pc'[t] = "idle"
      /\ \A s \in Tasks \ {t} :
            pc'[s] = pc[s] /\ call'[s] = call[s] /\ seen'[s] = seen[s]
  BY ReturnKeepsControl DEF Guarded
<1>2. TypeOK'
  BY <1>1 DEF Guarded, TypeOK, rows
<1>3. StillAuthorized'
  BY <1>1 DEF Guarded, StillAuthorized, Authorized, rows
<1>4. AuditChain'
  BY <1>1 DEF Guarded, AuditChain, Previous, rows
<1>5. RecordedRowIsCurrent'
  BY <1>1 DEF Guarded, RecordedRowIsCurrent, Previous, rows
<1> QED BY <1>1, <1>2, <1>3, <1>4, <1>5 DEF Guarded

\* A write keeps Guarded if it changes neither the authority another command
\* relies on nor the previous state another one has read.
LEMMA WriteKeepsGuarded ==
    ASSUME Guarded, NEW t \in Tasks, Return(t),
           account' \in [Users -> Accounts],
           binding' \in [Users -> Roles \union {"none"}],
           content' \in [Contents -> ContentStates \union {"none"}],
           restriction' \in [Subjects -> Reasons \union {"none"}],
           \A s \in Tasks \ {t} : pc[s] \in {"read", "write"} =>
               /\ account'[call[s].actor] = account[call[s].actor]
               /\ binding'[call[s].actor] = binding[call[s].actor],
           \A s \in Tasks \ {t} :
               pc[s] = "write" /\ (call[s].op \in AuthorityOps \/ seen[s] # "none")
                   => Previous(call[s])' = Previous(call[s])
    PROVE  Guarded'
<1>1. /\ userLock' \in [Users -> Tasks \union {NoTask}]
      /\ pc' \in [Tasks -> Steps]
      /\ call' \in [Tasks -> Calls \union {NoCall}]
      /\ seen' \in [Tasks -> States]
      /\ CallsFit' /\ LocksHeld'
      /\ pc'[t] = "idle"
      /\ \A s \in Tasks \ {t} :
            pc'[s] = pc[s] /\ call'[s] = call[s] /\ seen'[s] = seen[s]
  BY ReturnKeepsControl DEF Guarded
<1>2. TypeOK'
  BY <1>1 DEF TypeOK
<1>3. StillAuthorized'
  BY <1>1 DEF Guarded, StillAuthorized, Authorized
<1>4. AuditChain'
  BY <1>1 DEF Guarded, AuditChain, AuthorityOps
<1>5. RecordedRowIsCurrent'
  BY <1>1 DEF Guarded, RecordedRowIsCurrent
<1> QED BY <1>1, <1>2, <1>3, <1>4, <1>5 DEF Guarded

\* A move inside a transaction keeps Guarded if the moved command has what its
\* new position promises.
LEMMA MoveKeepsGuarded ==
    ASSUME Guarded, NEW t \in Tasks, NEW step \in Steps \ {"idle"}, pc[t] # "idle",
           Goto(t, step), UNCHANGED <<rows, call>>,
           userLock' \in [Users -> Tasks \union {NoTask}],
           seen' \in [Tasks -> States],
           \A s \in Tasks \ {t} : seen'[s] = seen[s],
           \A s \in Tasks \ {t} : \A u \in Users :
               userLock[u] = s => userLock'[u] = s,
           step \in {"authorize", "read", "write"} =>
               \A u \in LockSet(call[t]) : userLock'[u] = t,
           step \in {"read", "write"} => Authorized(call[t]),
           step = "write" => seen'[t] = Previous(call[t])
    PROVE  Guarded'
<1> USE DEF Guarded, Goto, rows
<1>1. pc'[t] = step /\ \A s \in Tasks \ {t} : pc'[s] = pc[s]
  BY DEF TypeOK
<1>2. TypeOK'
  BY DEF TypeOK
<1>3. CallsFit'
  BY <1>1 DEF CallsFit
<1>4. LocksHeld'
  <2> SUFFICES ASSUME NEW s \in Tasks, pc'[s] \in {"authorize", "read", "write"},
                      NEW u \in LockSet(call[s])
               PROVE  userLock'[u] = s
    BY DEF LocksHeld, LockSet
  <2>1. CASE s = t
    BY <1>1, <2>1
  <2>2. CASE s # t
    <3>1. userLock[u] = s /\ u \in Users
      BY <1>1, <2>2, LockSetUsers DEF LocksHeld, CallsFit
    <3> QED BY <2>2, <3>1
  <2> QED BY <2>1, <2>2
<1>5. StillAuthorized'
  BY <1>1 DEF StillAuthorized, Authorized
<1>6. AuditChain'
  BY <1>1 DEF AuditChain, Previous
<1>7. RecordedRowIsCurrent'
  BY <1>1 DEF RecordedRowIsCurrent, Previous
<1> QED BY <1>2, <1>3, <1>4, <1>5, <1>6, <1>7

\* Every step of every command keeps Guarded: one case per action.
LEMMA GuardedStep ==
    ASSUME Guarded, [Next]_vars
    PROVE  Guarded'
<1>1. CASE UNCHANGED vars
  BY <1>1 DEF vars, rows, Guarded, TypeOK, CallsFit, LocksHeld, StillAuthorized,
     AuditChain, RecordedRowIsCurrent, Authorized, Previous, LockSet
<1>2. ASSUME NEW t \in Tasks, NEW c \in Calls, Begin(t, c) PROVE Guarded'
  <2>1. /\ pc[t] = "idle" /\ pc' = [pc EXCEPT ![t] = "lock"]
        /\ call' = [call EXCEPT ![t] = c] /\ UNCHANGED <<rows, userLock, seen>>
    BY <1>2 DEF Begin, Goto
  <2>2. /\ pc'[t] = "lock" /\ call'[t] = c
        /\ \A s \in Tasks \ {t} : pc'[s] = pc[s] /\ call'[s] = call[s]
    BY <2>1 DEF Guarded, TypeOK
  <2>3. TypeOK' /\ CallsFit'
    BY <2>1, <2>2 DEF Guarded, TypeOK, CallsFit, rows, Steps
  <2>4. LocksHeld'
    BY <2>1, <2>2 DEF Guarded, LocksHeld
  <2>5. StillAuthorized'
    BY <2>1, <2>2 DEF Guarded, StillAuthorized, Authorized, rows
  <2>6. AuditChain' /\ RecordedRowIsCurrent'
    BY <2>1, <2>2 DEF Guarded, AuditChain, RecordedRowIsCurrent, Previous, rows
  <2> QED BY <2>3, <2>4, <2>5, <2>6 DEF Guarded
<1>3. ASSUME NEW t \in Tasks, Lock(t) PROVE Guarded'
  <2> PICK u \in Lowest(Wanted(t)) :
         /\ userLock[u] = NoTask
         /\ userLock' = [userLock EXCEPT ![u] = t]
         /\ Goto(t, IF Wanted(t) = {u} THEN "authorize" ELSE "lock")
    BY <1>3 DEF Lock
  <2> DEFINE step == IF Wanted(t) = {u} THEN "authorize" ELSE "lock"
  <2>1. pc[t] = "lock" /\ UNCHANGED <<rows, call, seen>>
    BY <1>3 DEF Lock
  <2>2. call[t] \in Calls /\ u \in LockSet(call[t]) /\ u \in Users
    BY <2>1, LockSetUsers DEF Guarded, CallsFit, Lowest, Wanted
  <2>3. userLock' \in [Users -> Tasks \union {NoTask}]
    BY <2>2 DEF Guarded, TypeOK
  <2>4. \A s \in Tasks \ {t} : \A v \in Users : userLock[v] = s => userLock'[v] = s
    BY <2>2, TasksAssumption DEF Guarded, TypeOK
  <2>5. step = "authorize" => \A v \in LockSet(call[t]) : userLock'[v] = t
    <3> SUFFICES ASSUME Wanted(t) = {u}, NEW v \in LockSet(call[t])
                 PROVE  userLock'[v] = t
      OBVIOUS
    <3>1. v \in Users
      BY <2>2, LockSetUsers
    <3>2. v = u \/ userLock[v] = t
      BY <3>1 DEF Wanted, Held
    <3> QED BY <3>1, <3>2, <2>2 DEF Guarded, TypeOK
  <2>6. step \in {"authorize", "lock"} /\ Goto(t, step)
    OBVIOUS
  <2>7. seen' \in [Tasks -> States] /\ \A s \in Tasks \ {t} : seen'[s] = seen[s]
    BY <2>1 DEF Guarded, TypeOK
  <2> HIDE DEF step
  <2> QED BY <2>1, <2>3, <2>4, <2>5, <2>6, <2>7, MoveKeepsGuarded DEF Steps
<1>4. ASSUME NEW t \in Tasks, Authorize(t) PROVE Guarded'
  <2>1. /\ pc[t] = "authorize" /\ Goto(t, "read") /\ Authorized(call[t])
        /\ UNCHANGED <<rows, userLock, call, seen>>
    BY <1>4 DEF Authorize
  <2>2. \A u \in LockSet(call[t]) : userLock'[u] = t
    BY <2>1 DEF Guarded, LocksHeld
  <2> QED BY <2>1, <2>2, MoveKeepsGuarded DEF Guarded, TypeOK, Steps
<1>5. ASSUME NEW t \in Tasks, ReadPrevious(t) PROVE Guarded'
  <2>1. /\ pc[t] = "read" /\ Goto(t, "write")
        /\ seen' = [seen EXCEPT ![t] = Previous(call[t])]
        /\ UNCHANGED <<rows, userLock, call>>
    BY <1>5 DEF ReadPrevious
  <2>2. Previous(call[t]) \in States
    <3>1. call[t] \in Calls
      BY <2>1 DEF Guarded, CallsFit
    <3> QED BY <3>1, CallFields, PreviousOf DEF Guarded, TypeOK, States, AuthorityOps
  <2>3. /\ seen' \in [Tasks -> States] /\ seen'[t] = Previous(call[t])
        /\ \A s \in Tasks \ {t} : seen'[s] = seen[s]
    BY <2>1, <2>2 DEF Guarded, TypeOK
  <2>4. Authorized(call[t]) /\ \A u \in LockSet(call[t]) : userLock'[u] = t
    BY <2>1 DEF Guarded, StillAuthorized, LocksHeld
  <2>5. userLock' \in [Users -> Tasks \union {NoTask}]
    BY <2>1 DEF Guarded, TypeOK
  <2> QED BY <2>1, <2>3, <2>4, <2>5, MoveKeepsGuarded DEF Steps
<1>6. ASSUME NEW t \in Tasks, Forbid(t) \/ NothingToDo(t) \/ Abort(t) PROVE Guarded'
  BY <1>6, ReturnKeepsGuarded DEF Forbid, NothingToDo, Abort
<1>7. ASSUME NEW t \in Tasks, SetAccountState(t) \/ SetRole(t) PROVE Guarded'
  <2> DEFINE c == call[t]
  <2>1. /\ pc[t] = "write" /\ c.op \in AuthorityOps /\ Return(t)
        /\ UNCHANGED <<content, restriction>>
        /\ \/ /\ c.op = "account" /\ binding' = binding
              /\ account' = [account EXCEPT ![c.target] = c.new]
           \/ /\ c.op \in {"role", "clearRole"} /\ account' = account
              /\ binding' = [binding EXCEPT ![c.target] = c.new]
    BY <1>7 DEF SetAccountState, SetRole, Writing, AuthorityOps
  <2>2. c \in Calls
    BY <2>1 DEF Guarded, CallsFit
  <2>3. /\ account' \in [Users -> Accounts]
        /\ binding' \in [Users -> Roles \union {"none"}]
    BY <2>1, <2>2, CallFields DEF Guarded, TypeOK
  <2>4. \A u \in Users \ {c.target} :
           account'[u] = account[u] /\ binding'[u] = binding[u]
    BY <2>1, <2>3 DEF Guarded, TypeOK
  <2>5. ASSUME NEW s \in Tasks \ {t}, pc[s] \in {"read", "write"}
        PROVE  /\ call[s] \in Calls
               /\ c.target \notin LockSet(call[s])
    BY <2>1, <2>2, <2>5, LocksExclude, LockSetUsers DEF Guarded, CallsFit
  <2>6. \A s \in Tasks \ {t} : pc[s] \in {"read", "write"} =>
            /\ account'[call[s].actor] = account[call[s].actor]
            /\ binding'[call[s].actor] = binding[call[s].actor]
    BY <2>4, <2>5, CallFields, LockSetUsers
  <2>7. \A s \in Tasks \ {t} : pc[s] = "write" => Previous(call[s])' = Previous(call[s])
    <3> SUFFICES ASSUME NEW s \in Tasks \ {t}, pc[s] = "write"
                 PROVE  Previous(call[s])' = Previous(call[s])
      OBVIOUS
    <3>1. call'[s] = call[s]
      BY <2>1, ReturnKeepsControl DEF Guarded
    <3>2. call[s] \in Calls /\ c.target \notin LockSet(call[s])
      BY <2>5
    <3>3. call[s].op \in AuthorityOps => call[s].target \in Users \ {c.target}
      BY <3>2, CallFields, LockSetUsers
    <3> QED BY <2>1, <2>4, <3>1, <3>2, <3>3 DEF Previous, AuthorityOps
  <2>8. /\ content' \in [Contents -> ContentStates \union {"none"}]
        /\ restriction' \in [Subjects -> Reasons \union {"none"}]
    BY <2>1 DEF Guarded, TypeOK
  <2> QED BY <2>1, <2>3, <2>6, <2>7, <2>8, WriteKeepsGuarded
<1>8. ASSUME NEW t \in Tasks, SetContentState(t) \/ SetRestriction(t) PROVE Guarded'
  <2> DEFINE c == call[t]
  <2>1. /\ pc[t] = "write" /\ ~RowBusy(t) /\ Return(t)
        /\ UNCHANGED <<account, binding>>
        /\ \/ /\ c.op = "content" /\ restriction' = restriction
              /\ content' = [content EXCEPT ![c.target] = c.new]
           \/ /\ c.op \in {"restrict", "unrestrict"} /\ content' = content
              /\ restriction' = [restriction EXCEPT ![c.target] = c.new]
    BY <1>8 DEF SetContentState, SetRestriction, Writing
  <2>2. c \in Calls
    BY <2>1 DEF Guarded, CallsFit
  <2>3. /\ content' \in [Contents -> ContentStates \union {"none"}]
        /\ restriction' \in [Subjects -> Reasons \union {"none"}]
        /\ account' \in [Users -> Accounts]
        /\ binding' \in [Users -> Roles \union {"none"}]
    BY <2>1, <2>2, CallFields DEF Guarded, TypeOK
  <2>4. ASSUME NEW s \in Tasks \ {t}, pc[s] = "write",
               call[s].op \in AuthorityOps \/ seen[s] # "none"
        PROVE  Previous(call[s])' = Previous(call[s])
    <3>1. call[s] \in Calls /\ call'[s] = call[s]
      BY <2>1, <2>4, ReturnKeepsControl DEF Guarded, CallsFit
    <3>2. CASE call[s].op \in AuthorityOps
      BY <2>1, <3>1, <3>2 DEF Previous, AuthorityOps
    <3>3. CASE call[s].op = "content"
      <4>1. c.op = "content" => call[s].target # c.target
        BY <2>1, <2>4, <3>3 DEF RowBusy, LocksRowOf, SameRow, OfContent, AuthorityOps
      <4>2. content'[call[s].target] = content[call[s].target]
        BY <2>1, <2>3, <3>1, <3>3, <4>1, CallFields DEF Guarded, TypeOK
      <4> QED BY <3>1, <3>3, <4>2 DEF Previous, OfContent
    <3>4. CASE call[s].op \in {"restrict", "unrestrict"}
      <4>1. c.op \in {"restrict", "unrestrict"} => call[s].target # c.target
        BY <2>1, <2>4, <3>4 DEF RowBusy, LocksRowOf, SameRow, OfRestriction, AuthorityOps
      <4>2. restriction'[call[s].target] = restriction[call[s].target]
        BY <2>1, <2>3, <3>1, <3>4, <4>1, CallFields DEF Guarded, TypeOK
      <4> QED BY <3>1, <3>4, <4>2 DEF Previous, OfContent
    <3> QED BY <3>1, <3>2, <3>3, <3>4, CallFields
  <2> QED BY <2>1, <2>3, <2>4, WriteKeepsGuarded
<1> QED BY <1>1, <1>2, <1>3, <1>4, <1>5, <1>6, <1>7, <1>8 DEF Next, Step, Write

-----------------------------------------------------------------------------
(* Waiting.                                                                *)

\* Locks are held by commands under way, on the users they name.
HeldByCall == \A t \in Tasks, u \in Users :
                  userLock[u] = t => pc[t] # "idle" /\ u \in LockSet(call[t])

\* A command locks its users in ascending order.
LocksAscend == \A t \in Tasks : pc[t] = "lock" =>
                   \A u \in Held(t), v \in Wanted(t) : u < v

\* Of the commands that write a row only one holds its lock.
OneHoldsRow == \A s, t \in Tasks :
                   pc[t] = "write" /\ LocksRowOf(s, t) => seen[t] = "none"

Ordered == HeldByCall /\ LocksAscend /\ OneHoldsRow

\* It holds before any command.
LEMMA OrderedInit == Init => Ordered
BY TasksAssumption DEF Init, Ordered, HeldByCall, LocksAscend, OneHoldsRow

\* Locks and rows of the commands that do not move stay as they are.
LEMMA OthersOrdered ==
    ASSUME Ordered, NEW t \in Tasks,
           \A s \in Tasks \ {t} :
              /\ pc'[s] = pc[s] /\ call'[s] = call[s] /\ seen'[s] = seen[s]
              /\ \A u \in Users : userLock'[u] = s <=> userLock[u] = s,
           \A u \in Users : userLock'[u] = t => pc'[t] # "idle" /\ u \in LockSet(call'[t]),
           pc'[t] = "lock" => \A u \in Held(t)', v \in Wanted(t)' : u < v,
           pc'[t] = "write" => ~RowBusy(t) /\ call'[t] = call[t]
    PROVE  Ordered'
<1>1. HeldByCall'
  BY DEF Ordered, HeldByCall, LockSet
<1>2. LocksAscend'
  <2> SUFFICES ASSUME NEW s \in Tasks, pc'[s] = "lock", NEW u \in Held(s)', NEW v \in Wanted(s)'
               PROVE  u < v
    BY DEF LocksAscend
  <2>1. CASE s = t
    BY <2>1
  <2>2. CASE s # t
    <3>1. Held(s)' = Held(s)
      BY <2>2 DEF Held
    <3>2. pc[s] = "lock" /\ Wanted(s)' = Wanted(s)
      BY <2>2, <3>1 DEF Wanted, LockSet
    <3> QED BY <3>1, <3>2 DEF Ordered, LocksAscend
  <2> QED BY <2>1, <2>2
<1>3. OneHoldsRow'
  <2> SUFFICES ASSUME NEW r \in Tasks, NEW s \in Tasks, pc'[s] = "write", LocksRowOf(r, s)'
               PROVE  seen'[s] = "none"
    BY DEF OneHoldsRow
  <2>1. /\ r # s /\ pc'[r] = "write" /\ seen'[r] # "none"
        /\ SameRow(call'[r], call'[s]) /\ SameRow(call'[s], call'[r])
    BY DEF LocksRowOf, SameRow, OfContent, OfRestriction
  <2>2. call'[r] = call[r] /\ call'[s] = call[s]
    BY <2>1
  <2>3. CASE s = t
    BY <2>1, <2>2, <2>3 DEF RowBusy, LocksRowOf
  <2>4. CASE r = t
    <3>1. pc[s] = "write" /\ seen[s] = seen'[s] /\ ~LocksRowOf(s, t)
      BY <2>1, <2>4 DEF RowBusy
    <3> QED BY <2>1, <2>2, <2>4, <3>1 DEF LocksRowOf
  <2>5. CASE r # t /\ s # t
    BY <2>1, <2>2, <2>5 DEF Ordered, OneHoldsRow, LocksRowOf
  <2> QED BY <2>3, <2>4, <2>5
<1> QED BY <1>1, <1>2, <1>3 DEF Ordered

\* A command that returns leaves its locks free.
LEMMA ReturnOrdered ==
    ASSUME Guarded, Ordered, NEW t \in Tasks, Return(t)
    PROVE  Ordered'
<1>1. /\ pc'[t] = "idle"
      /\ \A s \in Tasks \ {t} :
            pc'[s] = pc[s] /\ call'[s] = call[s] /\ seen'[s] = seen[s]
  BY ReturnKeepsControl DEF Guarded
<1>2. \A u \in Users : userLock'[u] # t
                      /\ \A s \in Tasks \ {t} : userLock'[u] = s <=> userLock[u] = s
  BY TasksAssumption DEF Return
<1> QED BY <1>1, <1>2, OthersOrdered

\* Every step keeps Ordered.
LEMMA OrderedStep == Guarded /\ Ordered /\ [Next]_vars => Ordered'
<1> SUFFICES ASSUME Guarded, Ordered, [Next]_vars PROVE Ordered'
  OBVIOUS
<1>1. CASE UNCHANGED vars
  BY <1>1 DEF vars, Ordered, HeldByCall, LocksAscend, OneHoldsRow, LocksRowOf, SameRow, OfContent,
     OfRestriction, Held, Wanted, LockSet
<1>2. ASSUME NEW t \in Tasks, NEW c \in Calls, Begin(t, c) PROVE Ordered'
  <2>1. /\ pc[t] = "idle" /\ pc'[t] = "lock" /\ UNCHANGED <<userLock, seen>>
        /\ \A s \in Tasks \ {t} : pc'[s] = pc[s] /\ call'[s] = call[s]
    BY <1>2 DEF Begin, Goto, Guarded, TypeOK
  <2>2. \A u \in Users : userLock[u] # t
    BY <2>1 DEF Ordered, HeldByCall
  <2>3. Held(t)' = {}
    BY <2>1, <2>2 DEF Held
  <2> QED BY <2>1, <2>2, <2>3, OthersOrdered
<1>3. ASSUME NEW t \in Tasks, Lock(t) PROVE Ordered'
  <2> PICK u \in Lowest(Wanted(t)) :
         /\ userLock[u] = NoTask
         /\ userLock' = [userLock EXCEPT ![u] = t]
         /\ Goto(t, IF Wanted(t) = {u} THEN "authorize" ELSE "lock")
    BY <1>3 DEF Lock
  <2>1. /\ pc[t] = "lock" /\ pc'[t] \in {"authorize", "lock"} /\ UNCHANGED <<call, seen>>
        /\ \A s \in Tasks \ {t} : pc'[s] = pc[s]
    BY <1>3 DEF Lock, Goto, Guarded, TypeOK
  <2>2. /\ call[t] \in Calls /\ u \in LockSet(call[t]) /\ LockSet(call[t]) \subseteq Users
        /\ \A v \in Wanted(t) : u <= v
    BY <2>1, LockSetUsers DEF Guarded, CallsFit, Lowest, Wanted
  <2>3. \A s \in Tasks \ {t}, v \in Users : userLock'[v] = s <=> userLock[v] = s
    BY <2>2, TasksAssumption DEF Guarded, TypeOK
  <2>4. \A v \in Users : userLock'[v] = t <=> (v = u \/ userLock[v] = t)
    BY <2>2 DEF Guarded, TypeOK
  <2>5. ASSUME NEW v \in Users, userLock'[v] = t
        PROVE  pc'[t] # "idle" /\ v \in LockSet(call'[t])
    BY <2>1, <2>2, <2>4, <2>5 DEF Ordered, HeldByCall
  <2>6. ASSUME NEW v \in Held(t)', NEW w \in Wanted(t)' PROVE v < w
    <3>1. v \in Users /\ (v = u \/ v \in Held(t))
      BY <2>4 DEF Held
    <3>2. w \in Users /\ w # u /\ w \in Wanted(t)
      BY <2>1, <2>2, <2>4 DEF Wanted, Held, LockSet
    <3>3. u < w
      <4>1. u \in Nat /\ w \in Nat
        BY <2>2, <3>2, UsersAssumption
      <4> QED BY <2>2, <3>2, <4>1
    <3>4. v \in Held(t) => v < w
      BY <2>1, <3>2 DEF Ordered, LocksAscend
    <3> QED BY <3>1, <3>3, <3>4
  <2> QED BY <2>1, <2>3, <2>5, <2>6, OthersOrdered
<1>4. ASSUME NEW t \in Tasks, Authorize(t) \/ ReadPrevious(t) PROVE Ordered'
  <2>1. /\ pc[t] # "idle" /\ pc'[t] \in {"read", "write"}
        /\ pc'[t] = "write" => ~RowBusy(t)
        /\ UNCHANGED <<userLock, call>>
        /\ \A s \in Tasks \ {t} : pc'[s] = pc[s] /\ seen'[s] = seen[s]
    BY <1>4 DEF Authorize, ReadPrevious, Goto, Guarded, TypeOK
  <2>2. \A u \in Users : userLock'[u] = t => u \in LockSet(call'[t])
    BY <2>1 DEF Ordered, HeldByCall
  <2> QED BY <2>1, <2>2, OthersOrdered
<1>5. ASSUME NEW t \in Tasks, Forbid(t) \/ NothingToDo(t) \/ Write(t) \/ Abort(t)
      PROVE  Ordered'
  <2>1. Return(t)
    BY <1>5 DEF Forbid, NothingToDo, Abort, Write, SetAccountState, SetRole, SetContentState,
       SetRestriction
  <2> QED BY <2>1, ReturnOrdered
<1> QED BY <1>1, <1>2, <1>3, <1>4, <1>5 DEF Next, Step

-----------------------------------------------------------------------------
(* How many wait.                                                          *)

UnderWay == {t \in Tasks : pc[t] # "idle"}

FinitelyMany == IsFiniteSet(UnderWay)

\* At first no command is under way.
LEMMA FinitelyManyInit == Init => FinitelyMany
<1>1. Init => UnderWay = {}
  BY DEF Init, UnderWay
<1> QED BY <1>1, FS_EmptySet DEF FinitelyMany

\* At any time finitely many commands have begun, as they begin one by one.
LEMMA FinitelyManyStep == Guarded /\ FinitelyMany /\ [Next]_vars => FinitelyMany'
<1> SUFFICES ASSUME Guarded, FinitelyMany, [Next]_vars PROVE FinitelyMany'
  OBVIOUS
<1>1. ASSUME NEW t \in Tasks, (\E c \in Calls : Begin(t, c)) \/ Step(t) \/ Abort(t)
      PROVE  \A s \in Tasks \ {t} : pc'[s] = pc[s]
  <2>1. \E step : Goto(t, step)
    <3>1. CASE \E c \in Calls : Begin(t, c)
      BY <3>1 DEF Begin
    <3>2. CASE Lock(t)
      BY <3>2 DEF Lock
    <3>3. CASE Authorize(t) \/ ReadPrevious(t)
      BY <3>3 DEF Authorize, ReadPrevious
    <3>4. CASE Forbid(t) \/ NothingToDo(t) \/ Write(t) \/ Abort(t)
      BY <3>4 DEF Forbid, NothingToDo, Abort, Write, SetAccountState, SetRole, SetContentState,
         SetRestriction, Return
    <3> QED BY <1>1, <3>1, <3>2, <3>3, <3>4 DEF Step
  <2> QED BY <2>1 DEF Goto, Guarded, TypeOK
<1>2. CASE UNCHANGED vars
  BY <1>2 DEF vars, FinitelyMany, UnderWay
<1>3. ASSUME NEW t \in Tasks, \A s \in Tasks \ {t} : pc'[s] = pc[s]
      PROVE  FinitelyMany'
  <2>1. UnderWay' \subseteq UnderWay \union {t}
    BY <1>3 DEF UnderWay
  <2>2. IsFiniteSet(UnderWay \union {t})
    BY FS_AddElement DEF FinitelyMany
  <2> QED BY <2>1, <2>2, FS_Subset DEF FinitelyMany
<1> QED BY <1>1, <1>2, <1>3 DEF Next

\* Of the members of a finite set that are numbered one has the highest number.
LEMMA Highest ==
    ASSUME NEW S, IsFiniteSet(S), S # {}, NEW f \in [S -> Nat]
    PROVE  \E m \in S : \A s \in S : f[s] <= f[m]
<1> DEFINE Above(m) == {s \in S : f[m] < f[s]}
           Tails == {Above(m) : m \in S}
<1>1. Tails \subseteq FiniteSubsetsOf(S) /\ Tails # {}
  <2>1. FiniteSubsetsOf(S) = SUBSET S
    BY FS_FiniteSubsetsOfFinite
  <2>2. \A m \in S : Above(m) \in Tails
    OBVIOUS
  <2>3. ASSUME NEW T \in Tails PROVE T \subseteq S
    BY <2>3
  <2> HIDE DEF Tails
  <2> QED BY <2>1, <2>2, <2>3
<1>2. PICK A \in Tails : \A B \in Tails : <<B, A>> \notin StrictSubsetOrdering(S)
  <2> HIDE DEF Tails
  <2> QED BY <1>1, FS_StrictSubsetOrderingWellFounded, WFMin
<1>3. PICK m \in S : A = Above(m)
  OBVIOUS
<1>4. ASSUME NEW s \in S, f[m] < f[s] PROVE FALSE
  <2>1. Above(s) \subseteq Above(m)
    <3>1. \A r \in S : f[s] < f[r] => f[m] < f[r]
      BY <1>4
    <3> QED BY <3>1
  <2>2. Above(s) # Above(m)
    BY <1>4
  <2>3. <<Above(s), Above(m)>> \in StrictSubsetOrdering(S)
    <3>1. Above(s) \in SUBSET S /\ Above(m) \in SUBSET S
      OBVIOUS
    <3> HIDE DEF Above
    <3> QED BY <2>1, <2>2, <3>1 DEF StrictSubsetOrdering
  <2> QED BY <1>2, <1>3, <2>3
<1> QED BY <1>4

\* A command that waits for a lock wants a higher user than any it holds.
LEMMA WaitsUpwards ==
    ASSUME Guarded, Ordered, NEW t \in Tasks, pc[t] = "lock", NEW v \in Wanted(t)
    PROVE  v \in Nat /\ \A u \in Users : userLock[u] = t => u < v
<1>1. call[t] \in Calls
  BY DEF Guarded, CallsFit
<1>2. v \in Nat
  BY <1>1, LockSetUsers, UsersAssumption DEF Wanted
<1> QED BY <1>2 DEF Ordered, LocksAscend, Held

\* The holder of the highest user that any of them waits for waits for none of them.
LEMMA NoCircle == Guarded /\ Ordered /\ FinitelyMany => NoCircularWait
<1> SUFFICES ASSUME Guarded, Ordered, FinitelyMany, NEW S \in (SUBSET Tasks) \ {{}},
                    \A t \in S : \E s \in S : WaitsFor(t, s)
             PROVE  FALSE
  BY DEF NoCircularWait
<1>1. ASSUME NEW t \in S, pc[t] # "lock" PROVE FALSE
  <2>1. PICK s \in S : pc[t] \in {"read", "write"} /\ LocksRowOf(s, t)
    BY <1>1 DEF WaitsFor
  <2>2. pc[s] = "write" /\ seen[s] # "none"
    BY <2>1 DEF LocksRowOf
  <2>3. PICK r \in S : LocksRowOf(r, s)
    BY <2>2 DEF WaitsFor
  <2> QED BY <2>2, <2>3 DEF Ordered, OneHoldsRow
<1>2. \A t \in S : \E u \in Wanted(t) : userLock[u] \in S
  BY <1>1 DEF WaitsFor
<1> DEFINE awaited == [t \in S |-> CHOOSE u \in Wanted(t) : userLock[u] \in S]
<1>3. \A t \in S : awaited[t] \in Wanted(t) /\ userLock[awaited[t]] \in S
  BY <1>2
<1>4. awaited \in [S -> Nat]
  BY <1>1, <1>3, WaitsUpwards
<1>5. IsFiniteSet(S)
  <2>1. S \subseteq UnderWay
    BY <1>1 DEF UnderWay
  <2> QED BY <2>1, FS_Subset DEF FinitelyMany
<1>6. PICK m \in S : \A s \in S : awaited[s] <= awaited[m]
  <2> HIDE DEF awaited
  <2> QED BY <1>4, <1>5, Highest
<1> HIDE DEF awaited
<1> DEFINE holder == userLock[awaited[m]]
<1>7. holder \in S /\ awaited[m] \in Users
  <2>1. call[m] \in Calls
    BY <1>1 DEF Guarded, CallsFit
  <2> QED BY <1>3, <2>1, LockSetUsers DEF Wanted
<1>8. awaited[m] < awaited[holder]
  BY <1>1, <1>3, <1>7, WaitsUpwards
<1> QED BY <1>4, <1>6, <1>7, <1>8

-----------------------------------------------------------------------------
(* Theorems.                                                               *)

\* The inductive invariant holds throughout.
LEMMA GuardedAlways == Spec => []Guarded
BY GuardedInit, GuardedStep, PTL DEF Spec

\* Every state is well formed: each table holds states of its kind, and each
\* lock is free or held by a command.
THEOREM TypeCorrect == Spec => []TypeOK
<1>1. Guarded => TypeOK
  BY DEF Guarded
<1> QED BY GuardedAlways, <1>1, PTL

\* The audit event of an account or role command names the state it replaced,
\* whatever other moderators do to the same user meanwhile.
THEOREM AuditIsAChain == Spec => []AuditChain
<1>1. Guarded => AuditChain
  BY DEF Guarded
<1> QED BY GuardedAlways, <1>1, PTL

\* A content or restriction command that found a row records the state it replaced.
THEOREM RecordedRowStands == Spec => []RecordedRowIsCurrent
<1>1. Guarded => RecordedRowIsCurrent
  BY DEF Guarded
<1> QED BY GuardedAlways, <1>1, PTL

\* No commands wait for each other in a circle: users are locked in ascending
\* order, and whoever holds a row's lock has all the locks it needs.
THEOREM NoDeadlock == Spec => []NoCircularWait
<1>1. Spec => []Ordered
  BY OrderedInit, OrderedStep, GuardedAlways, PTL DEF Spec
<1>2. Spec => []FinitelyMany
  BY FinitelyManyInit, FinitelyManyStep, GuardedAlways, PTL DEF Spec
<1> QED BY <1>1, <1>2, GuardedAlways, NoCircle, PTL

\* No command of a suspended, demoted or cleared moderator is committed, however
\* early it was admitted.
THEOREM AuthorityHolds == Spec => AuthorityAtCommit
<1> DEFINE A == \A t \in Tasks : Write(t) => Authorized(call[t])
<1>1. Guarded /\ [Next]_vars => [A]_vars
  BY DEF Guarded, StillAuthorized, Write, SetAccountState, SetRole, SetContentState,
     SetRestriction, Writing
<1> QED BY GuardedAlways, <1>1, PTL DEF Spec, AuthorityAtCommit
=============================================================================
