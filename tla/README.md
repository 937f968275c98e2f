# social-service: a verification project

TLA+ models of the parts of `social-service` whose correctness depends on what
overlaps: two HTTP requests between the same users, in the same group, under the
same post, with the same idempotency key, on the same case, against each other's
authority. TLC
checks small instances of every model; TLAPS proves the central safety properties
for every value of the constants.

## 1. The system

The service is one Rust binary (axum, sqlx) over one PostgreSQL database. A
request is one task; it shares nothing in memory with another request but the
connection pool (`src/main.rs:13`, ten connections) and the feature set, which is
fixed at start. All interaction goes through committed rows, row locks, unique
indexes, foreign keys, one trigger and transaction-scoped advisory locks. There are
no queues, background jobs or caches. Transactions are READ COMMITTED, except those
of `create_report` and `review_target`, which are REPEATABLE READ. Every row is scoped by `app_id`, so
each model looks at one app.

| component | state | operations that write | interacts with | what is hard | what makes it correct |
|---|---|---|---|---|---|
| relationships (`routes/relationships.rs`, `follow_requests.rs`, `posts.rs`, `reactions.rs`, `votes.rs`) | `user_blocks`, `follows`, `follow_requests`, `follow_approvals`, `reactions`, `votes` | block, unblock, follow, unfollow, request, cancel, decline, accept, revoke, put and delete reaction and vote | advisory locks of users and pairs; trigger and cascade on `follows` | a block against everything else; unfollow takes no lock; deadlock of accept and unfollow | nothing crosses a block; an approval stands on a follow and consumes a request; every handler ends |
| groups (`routes/groups/`) | `groups`, `group_members`, `group_membership_events`, `group_conversations` | create, update, add, remove, set role and transfer, leave, open chat, forced removal | writes members of the linked conversation; moderators remove members | the role a request acts on is read before it waits for the group row | one owner; cap; linked chat equals membership; log replays |
| moderation commands (`moderation.rs`, `routes/moderation.rs`) | account states, role bindings, content states, restrictions, case states, audit events | set account state, set and clear role, set content state, set and clear restriction, set case state | the same advisory user locks as blocks and conversations | commands of moderators against each other; previous states of rows that do not exist yet | authority at the commit; the audit records what was replaced |
| reports and signals (`routes/moderation.rs`, `moderation_signals.rs`) | `moderation_cases`, `moderation_reports`, `moderation_signals` | create report, create signal | a second pool connection inside the transaction of a report | retries that overlap; snapshots; pool exhaustion | stored once, answered alike; a case per report; every request ends |
| case evidence (`moderation/snapshot.rs`, `routes/moderation.rs`) | `moderation_cases.target_snapshot` | written by create report, read by review | posts, comments, groups, conversations, profiles | a target is read in several statements and may be gone afterwards | evidence is one state of the target; a review shows the latest |
| comments (`routes/comments.rs`, `posts.rs`) | `comments`, `posts` | comment, reply, delete comment, delete post | cascade from posts | replies against deletion; opposite lock orders | branches survive; a count still holds when it is used |
| posts, audiences, saves, mutes (`routes/posts.rs`, `saves.rs`, `relationships.rs`) | `posts`, `post_media`, `post_saves`, `user_mutes` | create and delete post, save, unsave, mute, unmute | approvals, blocks, account and content states, deployed features | five checks without a lock; the policy repeated in SQL; a restart with other features | no answer on a ground from before the request; lists agree with the single read; what is shown can be reported |
| chat (`routes/chat.rs`) | `conversations`, `conversation_members`, `messages`, `conversation_message_pins` | create conversation, message, pin, unpin | blocks, suspensions, linked groups | checks on the pool, writes afterwards | no blocked pair is invited; only requests under way outlive a block or suspension |
| feature resolver (`features.rs`) | the resolved sets | `from_csv`, `for_app_csv` | gates every handler | order of visits, chains of requirements | closed, minimal, bounded by the deployment, terminates |
| profiles, media, readiness, configuration, SDK | one row per key, or none | single statements | read by others | stale reads | not modelled, see section 6 |

What can go wrong and a test would hardly reach is listed with its line under
`hazards` in `PROJECT.json`; every property below is aimed at one of those.

## 2. Modules

| module | role | models |
|---|---|---|
| `SocialGraph` | abstract | the five relations between users, one indivisible operation per step |
| `Relationships` | detailed | the relationship handlers, statement by statement; refines `SocialGraph` |
| `Groups` | detailed | one group, its linked conversation and its event log |
| `ModerationAuthority` | detailed | commands of moderators and their audit |
| `Features` | detailed | the loop of `resolve`, one feature visited per step |
| `CommentTree` | abstract | the comments of one post, a forest changed one operation at a time |
| `Comments` | detailed | the comment handlers and `delete_post`; refines `CommentTree` |
| `PostGate` | abstract | what the checks of a post promise a reader |
| `Posts` | detailed | posts, their readers, saves and mutes under changing ties, states and deployments; refines `PostGate` |
| `Chat` | detailed | conversations, messages and pins, with blocks, suspensions and the effect of groups |
| `IdempotentStore` | abstract | requests stored once per key and answered with what is stored |
| `Reports` | detailed | `create_report` and `create_signal`; refines `IdempotentStore` |
| `CaseEvidence` | detailed | what cases keep of their targets, reviews, and the states of cases |
| `MC*` | instances | users, symmetry and small requests for TLC |
| `*Proofs` | proofs | theorems about the module of that name; `PostsProofs` also those about `Features`, which decides what is deployed |

**How a handler becomes actions.** A *task* is a request in flight. `pc[t]` says
where its handler stands and `call[t]` what it was asked. A handler is cut into
steps exactly where another transaction may commit in between and make a
difference: between a check on the pool and the transaction, at every wait for a
lock, and between two statements under READ COMMITTED or on the pool. Rows written by a
transaction are invisible until it commits, so its last statement, the statements
before it that only write, and the commit are one step. That step (`Return`) also
frees the locks, as PostgreSQL does. `Abort` lets a request fail or its client
disappear at any point: the transaction rolls back. Since the
service keeps nothing but rows, a crash of the process is every task aborting.

**Locks.** Advisory locks are variables (`userLock`, `pairLock`). `lock_users`
sorts its users and takes their locks one after the other, which is one step per
user. Row locks follow from the positions of the other tasks (`FollowRowBusy`,
`RowBusy`, `KeyBusy`): a task that has deleted or inserted a row and not committed
makes the others wait. The only variable for a row lock is `groupLock`.

**PostgreSQL.** What the models take from the database, because the code relies on
it: transactions are atomic; READ COMMITTED statements see what was committed when
they started, and after waiting for a row re-read that row only; `ON CONFLICT DO
NOTHING` waits for a row in doubt; a REPEATABLE READ insertion that meets a row
outside its snapshot fails; foreign keys and unique indexes hold; deadlocks are
broken by aborting one transaction. These definitions are marked external in the map
of `PROJECT.json`.

### Relationships

`blocks` .. `feedback` are the committed tables; `feedback` joins reactions and
votes and keeps only who has some on whose content. `Begin` is everything before the
transaction: `follow_user`, `put_reaction` and `put_vote` look for a block there, and
what they found may be stale later. `FirstStep` says what each handler locks:
`block_user` and `unblock_user` lock both users and then the pair;
follow-request handlers lock the pair; follow, reaction and vote lock it only when
`blocks` is enabled; `unfollow_user` locks nothing. `UnfollowRow` and
`UnfollowCascade` are the delete and its trigger and cascade, `AcceptConsume`,
`AcceptLink` and `AcceptCommit` the three statements of an accept. Reactions of
users on their own content are left out, as no rule concerns them.

### Groups

`seen[t]` is the role `lock_actor_role` returned. Its statement joins the member row
but locks only the group row (`FOR UPDATE OF g`), so its snapshot is taken when it
starts (`ReadRole`) and the lock comes later (`LockGroup`). After that a handler
excludes all others, and its checks and writes are one step. `logged` is the log of
membership events, folded: the last role recorded per user. Group names, avatars
and the checks on a new member's availability are left out.

### ModerationAuthority

`actor()` is the guard of `Begin`, `authorize_mutation` is `Lock` and `Authorize`
or `Forbid`, the `SELECT .. FOR UPDATE` is `ReadPrevious` or `NothingToDo`, the
upsert, audit event and commit are the last action. `trusted` in a call stands for
a capability granted by the gateway's header, without which nobody could appoint
the first moderator. Banned behaves as suspended and removed as hidden in
everything modelled.

### Reports

`Requests` join everything an exact retry has to repeat into one `content`. `seen`
is the snapshot of a report's transaction. `Held` counts pool connections: one per
transaction and a second one during the visibility check. A row and its case are
named by the same id, and the case that is inserted before the report and deleted
again for a retry exists only inside the transaction.

### Comments

`live` and `tombs` are the rows, `parent` the foreign key. Comment ids are given out
once. The cascade of `delete_post` takes the rows of comments one by one (`TakeRow`),
in an order nobody prescribes, and commits when it has all.

### Chat

`create_conversation` is `MembersAvailable` (no member is suspended), `Lock` once per
member, `CheckMembers` (no block between members) and the insertion. `set_account_state`
takes the lock of the user, so the first of these checks, which comes before the locks, is
the one that can be stale. Messages and pins are `EnsureUserCan`, `RequireMembership`,
`EnsureDirectUnblocked`, for a pin also `EnsureAuthorUnblocked` and
`EnsureAuthorVisible`, then the write, none of it under a lock. `lateBlocks` and
`lateSuspended` are history: what committed while a request was under way and it could no
longer see; no action depends on them. The pair lock of `block_user` is left out here because
its contenders hold both user locks first. `LinkChat` and `SyncChat` are what the handlers
of `Groups` do to conversations, for any group.

### Posts

The task is a request that has to see a post: `Check` is one statement of
`load_post` or `ensure_post_visible`, in the order of `Following`. `get_post` and
`list_root_comments` are one operation, "read", as they differ only in what they list
afterwards. Everything those checks depend on is changed by `World`: each of the other handlers
is one step there, which `Relationships` and `ModerationAuthority` justify for the ones they
model. The lists (`SavedList`, `Timeline`, `CommentsShown`) and the checks of a report
(`ReportableComment`, `ReportableMedia`) are single statements and translated as
predicates, conjunct by conjunct from the `WHERE` clauses, so that they can differ from the
chain of checks where the SQL does. `Restart` ends every request and may change the
enabled capabilities; the rows stay. A medium belongs to whoever registered it (`Owner`), a post to
its author (`Author`): ids are never used twice. An author may attach the same medium to any
of the author's posts, which the code allows.

### CaseEvidence

A target is a row and what belongs to it; both carry the number of the state they are
from, so that a mixture of two states is visible. `TakeSnapshot` is the first
statement of a REPEATABLE READ transaction: what it sees is kept in `snap[t]`, and `View`
is what the later statements read. `BeginReport` comes before: its time is `created_at`, after which
`review_target` sorts, and the id of a case stands for that time. The idempotency key is left
to `Reports`. `set_case_state` is `LockCase` (`SELECT .. FOR UPDATE`) and
`SetCase`; its authorization is that of `ModerationAuthority`. `StateAfter` reads the audit:
the state a case is left in by the first events of the trail.

### Features

`phase` tells which call of `resolve` runs: for the deployment, for the
deployment-wide request, for an application. Its specification is `ResolverSpec`, so that
`Posts` and `Features` can be reasoned about side by side. The list of conflicts is empty in the
code and the integrations are informative, so neither is modelled. Parsing is not
modelled: the model starts with parsed sets.

## 3. What is checked

Every property of a passing run is paired in `PROJECT.json` with a plausible bug in
the code (a dropped lock, a swapped order, a forgotten direction, an off-by-one)
that makes it fail; the mutated operators stand beside the originals in the modules.

| run | instance | shows |
|---|---|---|
| `relationships` | 2 users, 2 tasks, blocks on | a block leaves no tie (`NoTieAcrossBlock`), approvals stay coherent (`ApprovalCoherent`), no foreign key fails (`AcceptedEdgeStays`), every commit is one step of `SocialGraph`, every handler returns |
| `groups` | 3 users, 2 tasks, cap 2 | the linked chat mirrors members, the cap holds, owners go only by leaving; the single owner and the replay of the log are lost only by a commit on a stale role (`RulesBreakOnlyOnStaleRole`) |
| `groups_owner` | 3 users, 2 tasks | finding 1 |
| `moderation` | 2 users, 2 tasks, 1 content, 1 restriction | authority at the commit; the audit chain; the row that a decision recorded is the row it replaced; no commands wait in a circle |
| `evidence` | 1 target of 2 states, 2 tasks, 2 reports, 2 audit events | evidence is one state of the target, of the time of the report (`EvidenceIsAMoment`); a review shows a whole target or the latest evidence (`ReviewTellsTheLatest`); the audit of a case is one chain |
| `features` | every request of at most 2 or at least 13 of the 14 features | the result is closed; a dependency is never missing; the loop ends |
| `comments` | 3 comments, 2 tasks | every commit is one step of `CommentTree`: parents stand, replies are safe, counts hold; every request returns |
| `posts` | an author, a reader, a request without user; 1 post, 1 comment, 1 medium; 3 deployments; 1 task | saved posts and timeline agree with the single read (`ReadsAgree`); what is shown can be reported (`ShownIsReportable`); the checks implement `PostGate` (`GateRespected`) |
| `chat` | 3 users, 2 tasks, 1 conversation, 1 message, 1 possible block, 1 suspect, all operations | no conversation starts across a block; a suspended member gets in only while the locks are awaited (`InvitedWereAvailable`); what is written against a block or a suspension was under way before it (`OnlyLateWritesPass`); no requests wait in a circle |
| `chat_blocked` | 2 users, 2 tasks | finding 2 |
| `reports` | 2 tasks, 1 key, 2 contents, 2 ids, pool of 2 | stored once, answered alike; one case per report; requests end though the pool is exhausted |
| `reports_retry` | 2 tasks, 1 content, pool of 4 | finding 3 |

**Bounds and why they are enough.** Rules about relations concern a pair, in both
directions and with each user on each side: two users. Two tasks overlap at every
pair of statements, which is what each race in the list of hazards takes, and they
close every cycle of two locks; `chat` has three users, so a lock cycle may also
form among users that neither request names first. More tasks are what the theorems of
section 5 are for. `BlocksEnabled` is true in the run and arbitrary in the theorems.
Three users in a group are an owner, a successor and a bystander; a cap of 2 is
reached and exceeded by one more. In `Chat` three users make a direct conversation
and a larger one, one of them is suspended and one pair may block, in one direction: the rules
are symmetric in both, and the proofs take any set of blocks and suspects. In `Posts` the world changes
between the statements of one request, and requests meet only through the world,
so one task is enough; the deployments of its run have each of blocks, mutes,
follow requests and moderation on and off. In `CaseEvidence` two reports are
the fewest that can overlap, two states of a target the fewest that can be mixed, and two audit
events the fewest that make a chain; the events of different cases never meet. Three comments are a chain of three. One
idempotency key is enough, as different keys never meet; two contents are a retry and
a misuse. Counters that only grow in the code (ids) are used up in the models;
`NoIds` and `InsertFails` then refuse the request. A pool of 2 is exhausted by two
reports, each waiting for its second connection. Requirements of features form chains of
length three at most and never join two requirements, so what two features
need together is the union of two chains. Users are numbers where the code sorts
them, otherwise symmetric model values; symmetry is not used in runs that check liveness.

**Deadlock.** TLC's own deadlock check is on, except in `moderation`: there the last
active user may suspend everybody, and no command is admissible any more, which is
how the service behaves. It says little where `Abort` is always possible, so that
requests which only take locks cannot block each other is an invariant of its
own (`NoCircularWait` in `ModerationAuthority` and `Chat`), and elsewhere a liveness
property.

**Fairness.** `Relationships`, `Comments`, `Reports` and `Features` have liveness
properties, under strong fairness of each task's
steps: PostgreSQL executes a statement it accepted, and grants advisory and row locks
to waiters in the order of their arrival, so whoever waits for a lock that is freed
again and again gets it. The actions `Begin` and `Abort` are not fair: no
client has to send anything, no transaction has to fail. The deadlock detector is
weakly fair (`DeadlockVictim`), and so is the timer of the pool (`Timeout`). In
`Features` the loop has no waits and weak fairness is enough.

## 4. Findings

1. **A group can lose its owner** (`groups_owner`). Two overlapping requests of the
   owner: one transfers ownership to B, the other makes B a member. The second waits
   for the group row with the role it read before, passes `actor_role == Owner`, and
   demotes the new owner. `docs/groups-and-commands.md:16` and `:36` speak of the single
   owner as an invariant. Nobody can transfer ownership afterwards. The same race lets a
   former owner change a role, which `README.md:172` gives to owners alone.
2. **A message gets into a blocked conversation** (`chat_blocked`): `create_message`
   checks on the pool and writes later. `README.md:115` calls the conversation
   non-writable while the block stands.
3. **A retried report can fail** (`reports_retry`): if the first attempt commits
   after the retry has taken its snapshot, `ON CONFLICT DO NOTHING` raises a
   serialization failure, which becomes status 500. The test
   `tests/database_moderation.rs:131-144` retries after the first has returned. Nothing is
   stored twice (`reports`), and a further retry succeeds.

## 5. What is proved

| module | theorems | from |
|---|---|---|
| `RelationshipsProofs` | `TypeCorrect`, `BlockSevers`, `ApprovalsCoherent`, `NoForeignKeyFailure`, `ApprovalNeedsRequest`, `Implements` | `TasksAssumption` |
| `ModerationAuthorityProofs` | `TypeCorrect`, `AuditIsAChain`, `RecordedRowStands`, `AuthorityHolds`, `NoDeadlock` | `UsersAssumption`, `TasksAssumption` |
| `GroupsProofs` | `TypeCorrect`, `OneOwner`, `ChatMirrors`, `CapHolds`, `OwnerStays`, `RulesBreakOnly` | `UsersAssumption` (finitely many users), `TasksAssumption`, `MaxAssumption` |
| `ChatProofs` | `TypeCorrect`, `NoneInvitedAcrossBlock`, `InvitedAvailable`, `LateWritesOnly`, `NoDeadlock` | `UsersAssumption`, `TasksAssumption`, `EdgesAssumption`, `SuspectsAssumption`, `GroupRostersAssumption` |
| `CaseEvidenceProofs` | `TypeCorrect`, `EvidenceMoment`, `ReviewIsLatest`, `AuditIsAChain` | `StatesAssumption`, `BoundsAssumption` |
| `CommentsProofs` | `TypeCorrect`, `BranchesStand`, `AnsweredStays`, `CountStands`, `Implements` | `NoCommentAssumption` |
| `PostsProofs` | `TypeCorrect`, `ListsAgree`, `ShownReportable`, `GateImplemented` | `NobodyAssumption`, `AuthorAssumption`, `EdgesAssumption`, `RequestsAssumption` |
| `PostsProofs`, about `Features` | `ResolverTypeCorrect`, `Closure`, `NoExcess`, `Bounded`, `Available` | `FeatureRequestsAssumption` |
| `ReportsProofs` | `TypeCorrect`, `CasesPaired`, `Implements` | none |

Some theorems are about promises that no run lists, as others imply them or the proof says
more than an instance: that approvals consume requests (`ApprovalNeedsRequest`), that there are never
two owners (`OneOwner`), that a resolution adds nothing unasked and stays within the deployment
(`NoExcess`, `Bounded`), and what `CommentTree` says of parents, replies and counts
(`BranchesStand`, `AnsweredStays`, `CountStands`). The lemma `DeploymentsResolve` ties the two
modules of `PostsProofs` together: each set of optional capabilities that `Posts` may deploy is
one that `resolve` returns for some request.

`BoundsAssumption` makes the bounds of `CaseEvidence` natural numbers, whatever they are.

Each argument rests on an inductive invariant, because the property alone says
nothing about tasks on their way.

- **Relationships: `Control` and the tables.** A task past its pair lock holds it (and a
  block or unblock holds it too), a task at `ready` after a check has seen that no
  block stands, and only the holder of the pair lock can change that. So at the moment
  a tie is inserted no block is there, and at the moment a block is inserted nobody is
  between check and insertion. For approvals the row locks do the work: a task in
  `consumed` or later keeps the request row, so an unfollow that needs it waits. The
  refinement then reads off each committing action the abstract operation.
- **ModerationAuthority: `Guarded`.** A task past `lock` holds the locks of its whole
  `LockSet`; a task past `authorize` is authorized; what it has read of a user or
  of a locked row is what the row holds. Only a command on the same user could falsify these, and it
  needs a lock that is taken.
- **No circles: `Ordered`, in `ModerationAuthority` and `Chat`.** A user's lock is held only by
  a request whose call names the user, and only behind the position that takes it. A request
  still waiting for users holds only users below every one it still wants
  (`LocksAscend`). So whoever waits, waits for a request that waits for a higher user if it
  waits at all, and of finitely many requests the one that waits for the highest user waits
  for none of them. No bound on the tasks is assumed: requests begin one at a time, so at
  every moment finitely many are under way (`FinitelyMany`). In `ModerationAuthority` the
  rows of content and restrictions come after all users: who waits for such a row waits for
  a request that holds it (`OneHoldsRow`) and waits for nothing.
- **Groups: `Kept`.** At most one handler is behind the group's lock, nothing is linked
  before the group exists, and the promises themselves: the writes test the present rows
  under the lock, so no part of it mentions the stale role a handler has read. That
  is why these promises survive what breaks `SingleOwner`. The cap and the single
  owner count with the cardinality theorems for finite sets. `RulesBreakOnly` adds, operation by
  operation, that a write decided on the present role keeps one owner and the log.
- **Chat: `Kept`.** Every position of a request means what its checks have shown, up to what
  came late. A creator past its locks and a blocker or moderator about to write hold the locks of
  everyone they name, so between the check of a creation and its commit no block arrives,
  and a suspension only before the locks are complete. A sender past a check has seen no
  block and no suspension but those on record as late; membership outside groups never
  ends, so the conversation it names is still the one it checked.
- **Posts: `TypeOK`.** The lists agree with the single read in every well-formed state, because
  blocks relate different users and `Nobody` is no user; no reachability is
  needed, which is why restarts cannot break it. For the refinement each check is `See` of its ground
  and everything else changes what is open or ends requests.
- **CaseEvidence: `Sound`.** A transaction with a snapshot has *looked* at its target: it knows
  the number of the target's state and how many reports had begun. Both only grow, so of two
  looks at one target the one that saw the later state has counted no fewer reports
  (`LooksAscend`). A case keeps the look of its report, in whatever order reports commit, and so does every
  snapshot of the cases (`Coherent`): evidence newer than that of the last case was therefore
  read after the last one began. That evidence is whole and of the time of its report is what the positions
  say of `found`, `snap` and `since` (`ReadsSnapshot`, `Since`). That ids are not shared between
  reports under way and cases is `IdsOwned`. The audit
  is a chain because a command under the lock of a case has read the state the case has and is
  alone there (`HoldsCase`), and because a new case has no events yet (`EventsOfCases`).
- **Features: `Resolving`.** In every pass each feature already visited has its
  requirements in, unless the flag is set; what is in came from the request or is required by
  something in; what the deployment supports is closed from the moment it is fixed; and it
  is the least closed set above the request, so the second resolution ends where the
  first did.
- **Comments: `Rooted`.** The positions of tasks as row locks: two tasks never stand past the
  lock of the same comment, a comment locked for a reply is alive, a comment
  counted childless has no children while its row is locked, and a parent of a row is a row.
- **Reports: `Keyed`.** Two tasks are never both between insertion and commit with one
  key, and a task there has no committed row with its key.

TLC has checked the invariants' consequences on the instances above before
they were proved, and `Ordered` and `Sound` themselves as invariants of the runs `moderation`,
`chat` and `evidence`.

Two arguments need the greatest of finitely many numbers: the highest user somebody waits for
and the latest case or event. The provers cannot use the library's
induction theorems, but a finite set is well founded under strict inclusion
(`FS_StrictSubsetOrderingWellFounded`), and among the sets of members with a higher number than
a given one a minimal one is empty: that is the lemma `Highest`.

**Only model-checked.** Liveness (`EveryCallReturns`, `EveryRequestReturns`, `ResolutionEnds`), which needs
fairness and ENABLED; and the three disagreements of section 4, which
are counterexamples. In place of `SingleOwner` and `BlockedDirectIsSilent`, which the code breaks,
`RulesBreakOnly` and `LateWritesOnly` are proved: they say exactly by which requests they are broken.
Every other property of a run is a theorem.

Two properties bound a hazard and do not exclude it. `RecordedRowIsCurrent` exempts a command
that recorded no row, because `FOR UPDATE` locks nothing where there is none: of two first decisions the
second may replace a state it has not seen. `GateRespected` asks that each ground of an
answer held at some moment of the request; the checks are statements without a common
snapshot, and an answer may rest on grounds that never held together.

## 6. What is not modelled and why

- Profiles and media: one idempotent row per key, with no other writer.
- The lists of followers, requests, blocks, mutes, messages, pins, cases, signals and audit events, and the
  summaries of reactions and votes: reads of one statement. Posts, comments and media are the
  reads that repeat a policy, and these are modelled.
- The checks of profiles, groups and conversations as targets of a report: they share no
  policy with another statement but membership.
- Limits and orders of lists.
- The availability of a member added to a group, which is read without a lock and may be
  stale at the commit; the same race is modelled for conversations (`InvitedWereAvailable`).
- Attachments of messages.
- The text of names, bodies, reasons and notes, their validation and JSON forms.
- Time, except in `CaseEvidence`: `created_at` and `updated_at` are the start of a
  transaction, not its commit, so audit events and conversations may be listed in another
  order than that of their commits.
- A restart with other features in `Relationships`: `BlocksEnabled` is fixed in a run; `Posts`
  restarts over the same rows, blocks beside follows included.
- The SDK, pages, scripts and continuous integration: no state of the service.

## 7. The plan

Order of work, the most important behaviour first:

1. relationships with `SocialGraph` (done, proved);
2. groups (done, proved); 3. moderation authority (done, proved);
4. features (done, proved); 5. comments with `CommentTree` (done, proved);
6. chat with suspensions (done, proved); 7. reports with `IdempotentStore` (done, proved);
8. posts, saves and mutes with `PostGate` and restarts (done, proved);
9. case evidence and case states (done, proved).

What would come next: account states and blocks in `Groups`, for the availability
of added members; that the locks and row locks of `Relationships` and `Comments` form a circle only in the pairs
of handlers named in the hazards, as an invariant beside their liveness; and the step of `resolve`
that makes it end (a pass that changes something enables one more feature), as the safety part of
`ResolutionEnds`.

## 8. Running it

    tlc -workers 2 -config MCRelationships.cfg MCRelationships
    tlapm RelationshipsProofs.tla

Each `MC*.cfg` belongs to the module with the longest matching name: for example
`MCGroupsOwner.cfg` to `MCGroups`. The runs whose properties fail on purpose are
`MCGroupsOwner`, `MCChatBlocked` and `MCReportsRetry`.
