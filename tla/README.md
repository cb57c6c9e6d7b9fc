# Serverless OpenClaw: a TLA+ verification project

TLA+ models of the parts of this repository in which several processes share state: the
gateway Lambdas, the Fargate containers, the watchdog, the prewarm handler, the Lambda
agent, the bridge and its clients, and the DynamoDB tables, S3 objects and ECS tasks
between them. TLC checks the models on small instances; TLAPS proves the main safety
properties for every value of the constants.

Paths below are relative to the repository's `packages/`, unless they start
with `docs/`.

## 1. The system

A user sends a message by WebSocket or Telegram. A *gateway* Lambda routes it to
a runtime: a *Fargate container* of that user (a bridge process beside an
OpenClaw gateway), the *Lambda agent*, or AgentCore. `AGENT_RUNTIME` is
`fargate`, `lambda` or `both`; `both` is the default (`cdk/bin/app.ts:18`).

| Component | State | Operations | Talks to |
|---|---|---|---|
| Pending message queue (`container/src/pending-messages.ts`, `gateway/src/services/message.ts:89-96`) | PendingMessages table: one item per message with retryCount, nextAttemptAt, deadLetteredAt, ttl | gateway Put; container: one Query, then per item process, Delete, or Update; DynamoDB's ttl | gateway, containers |
| Session lock and store (`lambda-agent/src/session-lock.ts`, `session-sync.ts`) | the user's TaskState row; the session file in S3 and its copy in `/tmp` | conditional Put, conditional Delete; download, upload | Lambda agent, watchdog |
| Lambda agent (`lambda-agent/src/handler.ts`) | the execution, its sandbox | acquire, fast replies, download, run, upload, release | lock, S3, connections |
| TaskState and ECS (`gateway/src/services/task-state.ts`, `container.ts`) | one row per owner of a container; the tasks | Get, unconditional Put and Delete; RunTask, StopTask | everyone |
| Fargate routing (`routeFargate`, `message.ts:607-738`) | none of its own; a row it read | send to the bridge, claim a prewarmed container, save the message, start a task | TaskState, ECS, bridge, queue |
| Container lifecycle (`container/src/startup.ts`, `lifecycle.ts`, `start-openclaw.sh`) | the bridge process, its in-memory lastActivity | boot, put Running, discover the address, drain, serve, shut down with an Idle row | TaskState, queue, S3 |
| Watchdog (`gateway/src/handlers/watchdog.ts`) | a snapshot of the active rows | every 5 minutes: verify, stop inactive ones, delete rows, sweep orphans | TaskState, ECS, CloudWatch |
| Prewarm handler (`gateway/src/handlers/prewarm.ts`) | none | extend the protection of one row, or start a container of nobody's | TaskState, ECS |
| Runtime routing and affinity (`routeMessage`, `route-classifier.ts`, `routing-context.ts`, `agentcore.ts`, `lambda-agent.ts`, the two message handlers) | one `active-tool` row per user and channel | classify a message, read and refresh the session's row, choose a runtime, invoke it, fall back, lock a session to Fargate | all runtimes, connections, Telegram |
| Bridge (`container/src/bridge.ts`, `startup.ts:290-420`) | the turns under way, a count of busy invocations | accept a message, fast paths, stream, rescue, store, report | the two clients below |
| OpenClaw client (`openclaw-client.ts`) | a socket, pending requests, active runs with their queues of chunks | connect and retry, chat, one generator per run | OpenClaw gateway |
| Callback sender (`callback-sender.ts`) | a buffer per Telegram connection | push a frame, or buffer it until the stream closes | API Gateway, Telegram |
| Gmail tool (`gmail-tool.ts`, `tool-intent-advisor.ts`) | a task context in memory and in a shared row, the last list of mails in memory | decide what a message asks of the task, search, read bodies, filter, format | Gmail, Settings table, a language model |
| Identity link (`gateway/src/services/identity.ts`) | one-time codes, two link rows | create a code, verify it and link, unlink, resolve | Settings table, TaskState |
| Workspace backup (`container/src/s3-sync.ts`) | workspace files in S3 | restore, periodic and final backup | S3 |
| Handlers' authorisation, stores, chat and cost tools, web client, configuration, CDK | see `PROJECT.json` | | |

What is hard about it, and what the properties are for:

* *Nobody locks a TaskState row.* Gateway requests, containers, watchdog and
  prewarm handler each read a row, await something, and then put or delete the
  whole row without a condition. Only the Lambda agent's Put has a condition, and
  its row shares the key with the Fargate rows.
* *One drain per container.* A container queries the pending messages once, while
  it starts. Whether a message is answered depends on the order of its Put and
  that one Query, and two containers of one user may drain at the same time.
* *Cut-off points everywhere.* Lambdas time out between any two awaits, containers
  die without a word, sends time out after they were accepted, answers of writes
  are lost.
* *Two runtimes for one message.* A call that times out is answered by another
  runtime, while the first may still be at work; what a session was found to be is
  some calls old when it is acted on.
* *Callbacks and generators.* Frames of the OpenClaw gateway are handled whenever
  they come, the generator of a run resumes later, and turns of one Telegram chat
  share a buffer.
* *State in two places.* The Gmail task lives in a process and in a row; a link is
  four writes in four calls.
* *Clean-up acts on snapshots.* The watchdog describes, stops and deletes by what
  a scan said some time ago.

The properties that make the components correct:

* queue: no saved message disappears unprocessed; none is given up before it has
  failed as often as the budget allows; and it is retried no more often than that,
  unless a drain counted a failure on a snapshot that another drain had overtaken;
* lock: one execution at a time per user; an uploaded turn is never overwritten;
  nobody is locked out for ever;
* fleet: no row leads a user to a container that was started for another user, nor to
  a prewarmed one that another has claimed, unless the two claims overlapped; no young
  task is stopped; in the end every task is shut down but those that hang as they boot;
* cold start: the container a message starts finds that message, and no message
  is left with nobody to look for it;
* routing: one runtime per message unless a call failed; no message is handled
  and in nobody's hands; a session locked to Fargate stays there; a follow-up that
  fell back is not answered twice;
* bridge: a run's text is read in order, whole and once; an answer is shown as it was
  said, in a chat that was empty and is the turn's own, and leaves nothing there; a
  stream is closed once; what is stored was sent; `/ping` is busy exactly while an
  invocation is under way;
* Gmail: a follow-up is answered from the latest task, an answer has mails of its own
  period only and each once, and an answer that is not about a trip is made with few
  bodies;
* link: a code links once, unless its digits are drawn again while it is being used; a
  link that is shown works; no container is left behind by a link, unless it was just
  about to start, or had no row, when the link asked for it.

The exceptions in this list are what the code does, not what the models leave out: each
is a memory of the model (`overtaken`, `doubled`, `robbed`, `faulted`, `missed`,
`crossed`, `inherits`, `redrawn`, `raced`, `unseen`) that records how it came about, and
Section 3 says what follows from it.

## 2. Modules

| Module | Models | Kind |
|---|---|---|
| `PendingMessages` | the queue and its drain | component |
| `PendingRetries` | `PendingMessages`, and which failures were counted on an old snapshot | component with history |
| `SessionTranscript` | a session file is an append-only transcript | abstract specification |
| `SessionLock` | lock, session store, order of the Lambda handler | component, implements `SessionTranscript` |
| `LockUnderWatchdog` | `SessionLock` with the watchdog of mode `both` | composition |
| `TaskState` | table, tasks, time | shared state |
| `FargateRouter` | `routeFargate`; instantiates `PendingMessages` as `Queue` | component |
| `FargateContainer` | the bridge process | component |
| `Watchdog` | `watchdog.ts` | component |
| `PrewarmHandler` | `prewarm.ts` | component |
| `TaskFleet` | `FargateRouter`, `FargateContainer`, `Watchdog`, `PrewarmHandler` and time | composition |
| `PrewarmClaims` | `TaskFleet`, and which prewarmed containers two users claimed at once | composition with history |
| `ColdStart` | `FargateRouter`, `FargateContainer` and the drain between them | composition |
| `SharedTable` | `ColdStart` with the lock rows of Lambda chats in the same table (mode `both`) | composition |
| `RouteClassifier`, `RoutingContext` | what a message asks for; the session rows | operators; shared state |
| `RuntimeRouter` | `routeMessage` and its two handlers, with the AgentCore runtime | component |
| `OpenClawClient`, `CallbackSender` | the two clients of the bridge | components |
| `BridgeTurn` | the turns of a container, on top of both | composition |
| `ToolContext`, `PaymentScan` | where the Gmail task is kept; how payments are looked for | shared state; pure functions |
| `GmailTool` | the turns of a mail conversation, on top of both | composition |
| `IdentityLink` | codes and links | component |
| `MC...` | instances for TLC | |
| `PendingMessagesProofs` (with `PendingRetries`), `SessionLockProofs`, `TaskFleetProofs` (with `PrewarmClaims`), `ColdStartProofs` (with `SharedTable`), `RuntimeRouterProofs`, `BridgeTurnProofs`, `GmailToolProofs`, `IdentityLinkProofs` | theorems | |

`PROJECT.json` maps every definition to its lines. An operator whose comment
starts with "Mutant" is not part of a specification: it is a plausible mistake in
the definition below it, and shows that a property would notice it.

### How state and actions correspond to the code

**PendingMessages.** `pending[m]` is the item of message `m`; messages are numbers
in the order of their sort keys. `drain[c]` is the loop of one container start,
with what is left of its query's result in `seen`. `Query`, `Skip`, `ProcessOk`,
`ProcessFails`, `DeleteOk`, `DeleteFails` are the awaits of
`consumePendingMessages` (`pending-messages.ts:43-147`). An Update of a key that
is gone makes an item without text and ttl: `body` is FALSE. `saved`, `handled`,
`expired`, `failures` are history. The error text and the exact backoff are left
out; that a retry time has come is the action `BackoffElapses`.

**PendingRetries** takes the same steps and remembers in `overtaken` the messages of
which a drain has recorded a failure while its snapshot did not have the count of the
table's last one: the Update sets the count, it does not add to it.

**SessionLock.** `row[u]` is the lock row, `exec[e]` an execution with its place in
the handler, the time Lambda still gives it and its local session file; a session
file is the set of turns in it. `Acquire`/`Busy`/`AcquireUnknowingly` are the
outcomes of the conditional Put (`session-lock.ts:21-47`), the third being a Put
that was applied and whose answer was lost. `Die` is a throw before the `try`, or
the end of the sandbox. Time is counted down, so a lock row that outlives its
execution is a fact about two numbers.

**TaskState.** `taskState[o]` is the row of owner `o` (a user or `PREWARM_USER_ID`),
`container[t]` the task `t`. A tick is 5 minutes, the watchdog's interval; rows and
containers carry ages. The entry point is a shell without a trap
(`container/start-openclaw.sh:45-60`), so what ECS sends to a stopped task does not
reach the bridge: `StopTask` sets `condemned`, and the task goes on until it is
killed. Public addresses are not reused by another task while a row names them.

**FargateRouter.** `req[m]` is the request of message `m` and holds what
`routeFargate` keeps across its awaits: the row it read, the prewarm row, the task
it started. Each `pc` is an await. A send may fail after the bridge accepted the
message. `RequestFails` ends a request at any await (a throw nothing catches, the
Lambda's timeout).

**FargateContainer.** `boot`, `bridge` (it listens), `running` (its row is put),
`serving` (drain over, SIGTERM handler installed), `stopping`, `stopped`. The Put
with the address is fired and forgotten (`startup.ts:249`): `PutAddress` is enabled
from then on until the container ends. The bridge's in-memory lastActivity is not a
variable: it is at the bridge's start when the first row is put, and any moment
since when the row with the address is.

**Watchdog.** `watch.seen` is the snapshot, without addresses. For each row: `PassOver`,
`FindGone` (no task, STOPPED, or any error of DescribeTasks), `FindInactive`; then
`StopInactive` and `DeleteRow`; then the sweep of running tasks the snapshot does not
name.

**PrewarmHandler.** A scan, then either an Update of one row found (an upsert), or
RunTask and Put.

**TaskFleet** runs all of these at once. No Lambda's run lasts for a tick. A
container's bridge does not come up before the gateway's Put of its Starting row:
the gateway Lambda has 30 seconds (`cdk/lib/stacks/api-stack.ts:139`), a task takes
at least 35 to be provisioned (`docs/cold-start-optimization.md:187`). This is
`PutIsDue`, the one timing assumption of the model besides the ticks.

**PrewarmClaims** takes the fleet's steps and remembers in `doubled` the containers that
requests of two users have been claiming at the same time, each from its read of the
prewarm row (`message.ts:663`) to its Put of the user's own (`:675`).

**ColdStart** leaves the watchdog and time out, and puts the drain between `running`
and `serving`.

**SharedTable** is mode `both`, the default: a lock row has the key of a container's
row. `chat[e]` is an execution of the Lambda agent, and the row of its user, while it
is a lock (`LockRow`: Running, without an address), names the execution `holder`.
`Acquire`, `Refuse`, `Release`, `Die`, `LockExpires` are `SessionLock`'s, here on
`taskState`. Fargate's steps are `ColdStart`'s, which know nothing of locks;
`FargateStep` only notes in `robbed` whose lock they have written over. The watchdog's
part in this is `LockUnderWatchdog`.

**RouteClassifier.** A message is the set of the patterns it matches (`Signals`); the
patterns themselves are left out. The operators are the code's decisions over them,
in the code's order.

**RoutingContext.** `context[c]` is the row `active-tool:<channel>` of one user: the
provider, the fallback once it is locked, and whether `expiresAt` has passed. Puts and
Deletes have no condition. `Lapse` is thirty minutes without a message, `TtlDelete`
what DynamoDB does later.

**RuntimeRouter.** `handler[r]` is a request of a Lambda with the place where it awaits
(`pc`), the row and the task row it has read. A message that is nothing but a hint at
its runtime is empty once it is classified; a kept session replays it as it came, and so
does a deployment that classifies nothing (`StrippedBare`; `message.ts:1116`).
`agentcore[r]` is the invocation it made, from both sides: what the gateway believes and
what AgentCore does may differ after a timeout. `task` is the user's task row, which
others change at will (`TaskChanges`). `routeFargate` is one step here, with all its
results; its calls are `FargateRouter`'s. `owners`, `answered`, `faulted` and `locked`
are history: who has the message, who answered it, whether a call of the request failed,
and whether a session was locked. A request slot that is done may serve another message.

**OpenClawClient.** `link` is the socket, `attempts` the count of its retries, `chat[t]`
the entry of turn `t` first in `pendingRequests`, then in `activeRuns`, with the queue
of chunks and the generator's wait. The gateway is external: `run[t]` is the length of the
text it has sent. A frame has the whole text so far, so what matters of a chunk is where
in that text it begins and ends: it is a stretch `[from, to]`, the frame's length against
`seen` (`lastTextLength`). A frame is handled in one step when it comes; `Next...` of the
generator are steps of their own. `missed` are turns whose run spoke or ended before
`chat` knew its runId (`openclaw-client.ts:290`).

**CallbackSender.** `buffers[c]` is `telegramBuffers`: it belongs to the connection, and
a chunk waits in it whatever becomes of the turn that said it. A closing frame posts all
of it, or drops it if it is an error. `shown[t]` is what turn `t` has got to its users,
whoever said it: `of` and the stretch of a frame tell whose text it is. `gone` are web
connections that answered 410, which the sender swallows, and all the Telegram chats of
a deployment with neither bot token nor relay (`callback-sender.ts:143`); `faulted` are
turns with a delivery that failed or may have been repeated.

**BridgeTurn.** `turn[t]` is a call of `processAcceptedMessage`, or a pending message's
`processMessage`, with its place in the code; `said[t]` is `fullResponse`, and `busy` is
`activeAgentCoreInvocations`. The lookups of the fast paths are an answer or an
exception. `crossed` are turns that shared their Telegram chat with another; `inherits`
notes of a turn that text waited in its chat when it came. A pending message that fails
sends no closing frame (`startup.ts:504`), and leaves such text.

**ToolContext.** `memory[p]` and `search[p]` are the maps of process `p`, `row` is the
shared item. Time is an age: `Fresh` while the records may be reused, then `Stale`, then
`Over` (in the row) or gone (in memory).

**PaymentScan.** Functions of a mailbox, a sequence of mails: which query a message
makes, how many mails it lists, when it looks for more, whose bodies it reads.
`Picked` is `Array.filter`: the members at some places, in their order. The ids of a
mailbox are distinct (`MailboxesAssumption`), as Gmail's are.

**GmailTool.** `turn[t]` is one `maybeHandleCustomGmailRequest`. A message is the set of
patterns it matches and the period it names. The advisor may decide anything its
rules let through. `latest` and `owner` are history: the context the last turn left, and
where; they are `Uncertain` once the table failed or turns overlapped. `refined` is the
context's `refinedFromFollowUp`. The pattern of a confirmation is anchored
(`gmail-tool.ts:37`), so such a message names no period (`MessagesAssumption`). The
bodies read for an answer are counted one by one: a mail that a later stage reads again
counts again.

**IdentityLink.** `otpOwner`, `forward`, `reverse` are the rows `otp-owner`,
`linked-telegram` and `linked-cognito`. `handler[h]` is a Lambda with its place. Codes
may be drawn again, so `drawn` counts the draws and each has a number, its turn. `uses`
counts the links of each draw: it is the draw a `/link` has looked up that links,
whatever row its conditional Delete takes; `redrawn` are those whose digits were drawn
again between the two. Of the Telegram users' containers there are two facts apart,
`taskRows` (a task row that is not Idle) and `alive` (a container): RunTask and the Put
of its row are two calls of the handler that may end between them, a container puts its
own row late, the watchdog deletes rows of tasks that live. `crossed` are accounts at
whose link two handlers mixed or one failed; `raced` are those with a message under way
while they were being linked; `unseen` those whose container had no row when a `/link`
asked for one. The row `telegram-otp` is written and deleted, and read by nobody: its
calls are there, the row is not.

## 3. What is checked

Runs that pass:

| Run | Instance | Shows |
|---|---|---|
| `queue` | 1 user's 2 messages, 3 containers, 2 at once, 2 retries | `QueueInv` (inductive), `NothingLost`, `HollowItemsAreSpent`, `GivenUpAfterBudget`, `RetryBudget`: with every interleaving of two drains, failed deletes, aborted drains and expiry |
| `session_lock` | 2 executions of one user, 1 of another, limits of 1 tick | `LockInv` (inductive), `MutualExclusion`, `NoLostTurn`; refinement `TranscriptOnlyGrows`; liveness `LockEventuallyFreed` |
| `fleet` | 1 user, 2 tasks, 1 prewarm, time, DescribeTasks may fail | `YoungTasksSurvive`; liveness `OnlyHangingTasksStay` |
| `fleet_claim` | 2 users with a message each, 1 task, 2 prewarms | `OwnContainersOnly` |
| `cold_start` | 1 user's 2 messages, 2 tasks of which one is prewarmed, 1 retry | `StarterFindsMessage`, `UnansweredIsSaved`; liveness `StarterIsServed` |
| `shared_table` | 1 user with 3 chats and 1 message for Fargate, 2 tasks of which one is prewarmed | `ExclusiveUnlessRobbed`, `LocksLeaveContainers` |
| `routing` | 2 requests at once, over and over; 5 messages on 2 channels; 4 deployments | `OneRuntimePerMessage`, `HandledIsOwned`, `LockIsHonoured`, `FollowUpAnsweredOnce` |
| `bridge_shared` | 2 turns of one Telegram chat or beside it, 1 token, no retry; 2 deployments | `AnswerIsWhole`, `NothingIsLeft`, `ClosedOnce`, `StoredWasSent`, `BusyWhileWorking` |
| `bridge_stream` | 1 turn, 3 tokens, 2 reconnects, any way of arrival, any deployment | `TextInOrder`, `RunIsReadWhole`; liveness `TurnEnds` |
| `gmail` | 1 process, 1 turn at a time, 11 messages, 5 decisions, 4 mails, 1 failing call | `FollowUpUsesLatest`, `AnswerIsOfItsPeriod`, `CountsEachMailOnce`, `FewBodies` |
| `identity` | 2 users, 1 Telegram account, 2 Lambdas, 1 code drawn twice, its container with its row or without | `CodeLinksOnce`, `ShownLinkWorks`, `NoContainerStranded` |

The runs `routing`, `gmail` and `identity` also check their module's `TypeOK`. It is a
conjunct of `QueueInv` and `LockInv`; for the fleet, the cold start, the shared
table and the bridge, TLAPS proves it with the inductive invariants (Section 4).

One run is refuted by TLC: a statement of the repository that the code does not keep.

| Run | Statement | What happens |
|---|---|---|
| `lock_both` | `NoLostTurn`; "15-min TTL lock prevents concurrent session corruption" (`docs/progress.md:421`) | in mode `both` the watchdog deletes the lock row of a working execution, and the upload of the next one loses a turn |

Other things the models do, because the code does, and a reader of the documents, the
comments or the tests would not expect. TLC finds those that a property above excepts as
soon as the exception is taken out of it; the history variables of the exceptions record
how they come about. No run keeps them.

Where the repository says otherwise:

* two drains at once may revive a dead letter: the Update of the older snapshot
  overwrites the mark (`container/src/pending-messages.ts:83`, `overtaken`; compare
  `docs/observability-queries.md:44`, "the message will not be retried automatically").
  `RetryBudget` says when this may happen, `GivenUpAfterBudget` that no message is marked
  early all the same;
* the Update of a failed attempt recreates an item that expired or was deleted meanwhile,
  without a ttl (`container/src/pending-messages.ts:106`; `body = FALSE` in
  `PendingMessages`), so it stays for ever (compare `docs/progress.md:416`, "5-min TTL",
  and `docs/architecture.md:499`, where the ttl keeps items from accumulating);
* a container that hangs while it boots keeps its Starting row and, being referenced, is
  no orphan (`watchdog.ts:102-122`); `waitForReady` has no timeout
  (`openclaw-client.ts:42`): nothing stops it (compare `docs/PRD.md:395`, "to
  force-terminate zombie tasks"). `OnlyHangingTasksStay` excepts exactly it;
* two users may claim one prewarmed container, each having read its row before the
  other deleted it (`message.ts:663`, `doubled`; compare
  `docs/cold-start-optimization.md:305`, "ownership is transferred");
* a message that is queued while a container starts, but saved after that container's
  one query, stays behind until the next start, for five minutes at most
  (`message.ts:718`; compare `docs/progress.md:416`, "Bridge consumes after startup", and
  `docs/architecture.md:481`);
* in mode `both` a message for Fargate that finds a lock row takes it for a container
  that is starting: it is saved and no container is started (`message.ts:718`,
  `AfterSave`; compare `docs/architecture.md:494`);
* in mode `both` the Running row of a Fargate container refuses every chat of its user,
  with no execution working (`session-lock.ts:34`, `Refuse`; compare its line 20,
  "Returns true if acquired, false if another execution holds it");
* text that a pending message has said before it failed waits in the Telegram buffer of
  its chat, and goes out in front of the next answer, the retry's own for instance
  (`startup.ts:504`, `callback-sender.ts:146`, `inherits`; compare
  `container/__tests__/callback-sender.test.ts:165`, "buffer should be empty");
* a session that one request has locked to Fargate is refreshed by another, which had
  read it before, without the lock (`message.ts:1075`; compare `docs/architecture.md:1145`,
  "Lock the current affinity to Fargate fallback until expiry"). `LockIsHonoured` excepts
  requests that did not know of the lock;
* the process that answered a conversation before another took it over answers from its
  own memory, and so about the older task (`gmail-tool.ts:480`; compare
  `docs/agentcore-option-b-checklist.md:26`). `FollowUpUsesLatest` excepts it;
* the answer to a question about a trip may read bodies in up to three stages, of
  `MAX_TOPIC_BODY_CHECKS` (2) each, the same mail in more than one
  (`gmail-tool.ts:2222,2258,2294,2399`), while it says "at most 2"
  (`gmail-tool.ts:2024`, and `container/__tests__/gmail-tool.test.ts:2280`); and an
  answer to a refined search (`FoundTopic`, `gmail-tool.ts:2529`) is told of the bodies
  the search has read, not of those that were read of its context before. `FewBodies` is
  about answers without a trip;
* the Delete of a code asks that a row exist, not that it be the one that was read: a code
  whose digits are drawn again while two `/link` commands have looked it up links twice
  (`identity.ts:146`, `redrawn`; compare its line 145, "prevents race condition");
* a link is two Puts: if the second fails there is half a link; and a Telegram account
  linked to a user who had another one leaves the other's reverse row, whose messages
  still go to that user (`identity.ts:165`, `crossed`; compare its line 164, "bilateral
  links"). Two users may link one account at once in the same way (`identity.ts:126`);
* a container is stranded by a link if the message that starts it was on its way, or if
  it had no row just then: its Put had failed or was still to come, or the watchdog had
  deleted it (`identity.ts:106`, `raced`, `unseen`; compare `docs/architecture.md:801`,
  "Linking rejected if Telegram container is already running");
* the container's own Puts drop `prewarmUntil` (`container/src/lifecycle.ts:47`,
  `RunningRow`), so the protection of a prewarmed container ends when it comes up
  (compare `docs/cold-start-optimization.md:307`);
* a message sent straight to the bridge leaves lastActivity of the row alone
  (`message.ts:638`, `SendOk`), so the watchdog stops containers in use (compare
  `docs/architecture.md:208`);
* the prewarm handler's Update of a row deleted since its scan creates one without
  status (`prewarm.ts:64`, `Protect`), and every later message of that user is only
  queued (compare `shared/src/types.ts:211-220`).

Where it says nothing:

* a run whose events come before the answer to `chat.send` is handled is not known
  yet: its text so far is lost, and if it has ended, its generator waits for ever
  (`openclaw-client.ts:290`, `missed`); so do all runs when the socket closes after
  the handshake (`openclaw-client.ts:63`, `link = "lost"`). A drain of pending messages
  waits with them, and its container neither serves nor ends by itself;
* two turns of one Telegram chat empty each other's buffer (`callback-sender.ts:146`,
  `crossed`);
* the watchdog's Deletes have no condition (`watchdog.ts:132`, `DeleteRow`): a row
  put since its verification goes too; and any error of DescribeTasks counts as
  "not found" (`watchdog.ts:136`, `Gone`);
* an AgentCore call that times out, or whose answer could not be pushed, runs again on
  Fargate (`agentcore.ts:336`, `message.ts:812`): `OneRuntimePerMessage` excuses a
  message one of whose calls has failed;
* "open the second one" counts in the list of mails that is in memory only
  (`gmail-tool.ts`, `LastMails`): after a restart, or in another runtime, there is none;
* a search that has become a payment task, and is then refined with a message that names
  another period, has records of that period under the goal it had: a later question for
  the goal's period may be answered with them (`gmail-tool.ts:2456`, `FoundTopic`;
  `gmail-tool.ts:633`, `Reusable`). `AnswerIsOfItsPeriod` excepts refined tasks for this.

### Bounds, and why they are enough

* *Queue.* Two drains at once are the smallest case in which one overwrites the other's
  marks; a third start finds what both left. The limit of two counts drains that have
  not ended; a drain whose container died no longer counts. Two retries separate "one
  less" from "the last". The two messages share a partition; partitions do not interact.
* *Lock.* Two executions of one user compete; a third of another user shows that
  rows do not mix. With limits of 1 tick a lock row lives at least as long as its
  execution and at most one tick longer than it may: every order of timeout, expiry
  and release occurs.
* *Fleet.* Two tasks: one that a row names and one that it does not. One user's request
  races the prewarm handler and the watchdog; the prewarm row is the second owner that a
  row could be mistaken for. DescribeTasks may fail at any time. `AgeCap` is the least
  age that passes every comparison; limits are 0 or 1 tick, in the order they have in
  the code. `MaxPrewarms` bounds how often the schedule fires: once is enough for a
  claim, an extension and an orphan.
* *Claims.* Two users are who can claim one container. There is one task, so that a claim
  and a start of it exclude each other, and every row that names it is at stake; the
  prewarm handler runs twice, for a container it finds and one it does not. Ages do not
  matter to whose a container is: all limits are 0 and time passes without growing older.
* *Cold start.* Two messages of one user, each of which may start a task: the
  smallest case of two containers draining what the other one's request saved. One
  retry, because one attempt is what the properties speak about.
* *Shared table.* Two chats of one user are what a lock keeps apart, a third finds what
  Fargate made of the row; one request of Fargate puts, overwrites and deletes rows
  around them. The prewarmed task is there for its claim, which puts a row without
  having read one. The theorems of `ColdStartProofs` hold for any number of all.
* *Routing.* Two requests race for one session; a third would see what one of the two
  left, since slots are used again without end. The five messages take each branch of
  the classifier's result that `routeMessage` tells apart: a tool request, plain chat,
  an end of the session, a bare prefix, a picture. The deployments are the two
  AgentCore ones with and without the unified assistant, and those without AgentCore.
* *Bridge.* Two turns share a chat's buffer, at once or one after the other, which is
  when what the first left goes out with the second; one token each, because order
  within a run is `bridge_stream`'s: three tokens let one be waited for, one be queued
  and one come with the end. Two reconnects are "again" and "no more" (60 in the code).
  The deployments of `bridge_shared` are one with and one without AgentCore, both with
  the primary model before the others.
* *Gmail.* One turn at a time in one process, which may end and start anew. Turns beside
  each other and conversations that move between processes have too many states for
  these messages; they are `GmailToolProofs`', which hold for any number of both. Time
  passes between turns, not within one. The messages are those of the code's tests, one of
  each kind; the mailbox has a mail for each stage of a search (found at once, only by
  the broad query, only in its body, of the other period). All limits have the order
  they have in the code, at 1 to 4 instead of 5 to 500. Of the last list only the first
  mail is kept: "open the first" stands for all.
* *Link.* Two Lambdas are what it takes to mix; the code drawn a second time is the
  coincidence the one-time codes allow. Two users compete for one Telegram account,
  which is where links can mix; several accounts of one user are the theorems'. The
  runtimes are `both`, in which `verifyOtpAndLink` asks for a container, and `lambda`,
  in which it does not.

Deadlock is checked where the system goes on for ever: the fleet, whose schedule does,
the routing, the mail conversation and the links, where another message or command may
always come, and the composition of lock and watchdog. It is not checked where
instances come to an end by construction: messages, containers, executions and turns
are used up once in the queue, the lock, the cold start, the shared table and the bridge.

### Fairness

* `SessionLock`: time passes, Lambda enforces its timeout, DynamoDB deletes expired
  items. Nothing is assumed of the code: an execution may stop anywhere.
* `TaskFleet`: time passes (strongly fair, since Lambdas keep interrupting it); the
  watchdog is scheduled and its calls succeed from some time on; Lambdas end (they
  have timeouts); a bridge that listens puts its row; ECS kills what it was told to stop.
  Nothing is assumed of a container that boots or drains: both wait for OpenClaw without
  a timeout, so either may hang for ever. No container is assumed to end by itself. What
  follows is `OnlyHangingTasksStay`: a drain that hangs is ended by the watchdog, as a
  Running row that is inactive or as an orphan; a boot that hangs is not, while its
  Starting row names it.
* `BridgeTurn`: each turn's own step and the client's step for it go on. Calls of the
  turn return or throw in the end (they are HTTP calls and lookups of AWS's SDK, which
  have timeouts), and a run that the gateway accepted comes to an end. `TurnEnds`
  excepts what the code does not guard: a run that ended before the client knew it,
  and a socket that closed under a run.
* `ColdStart`: the gateway goes on, and a container does where it waits for AWS only:
  to put its row, to begin its drain, to pass over a message that is not due, to end the
  drain. Its boot and the processing of a message are not assumed to end
  (`AwaitsOpenClaw`), and it may end at any step, which is why `StarterIsServed` has both
  as alternatives. What it shows is that no interleaving with other requests is a third.

## 4. What is proved

All proofs are checked by TLAPS, for every value of the constants that satisfies the
named assumptions.

**`PendingMessagesProofs`** (from `PendingAssumption`: messages are numbers, at least
one retry, finitely many consumers). `Typing`, `QueueInvariance`, and from it
`MessagesAreKept`, `HollowItemsHarmless` and `BudgetsAreUsed`, for any number of
concurrent drains. `NothingLost` is not inductive alone: a Delete removes an item, and
what makes it harmless is that its drain has processed it (`DeletesFollowProcessing`),
and an Update brings back only what was saved (`ItemsWereSaved`). A count in the table
or in a snapshot is never more than the failures there were (`CountsAreEarned`), whoever
wrote it last. The other half, `RetriesAreBounded`, is about `RetrySpec`: a failure that
was counted on the table's last count leaves the two equal, and no drain attempts an
item that its snapshot has at the limit (`RetryInv`).

**`SessionLockProofs`** (from `LockAssumption`: the lock's ttl is no shorter than the
function's timeout). `Typing`, `LockInvariance`, and from it `Exclusion`, `TurnsAreKept`
and `Refinement` to `SessionTranscript`. The heart of the invariant is
`LockOutlivesHolder`: while an execution works, the row names it and has more time
left than the execution has; `CopyIsComplete` says that the copy it will upload
contains everything in S3. The ttl of 900 seconds equals the timeout of 15 minutes,
which is just enough because an execution starts before it takes the lock.

**`TaskFleetProofs`** (from `TaskStateAssumption`, `RouterAssumption`,
`WatchdogAssumption`, `PrewarmAssumption`). `FleetInvariance`, and from it
`OwnTasksOnly` and `YoungTasksAreSpared`; then `ClaimInvariance` and `ContainersAreOwn`.
The argument: no step makes a container younger, changes whose it is, or brings it back
(`ContainersLast`); so whatever is known of a row stays true of it, however long it is
kept in a request, in the watchdog's snapshot or in the prewarm handler; and each of
them puts only rows it knows. `FleetInv` adds to the rows what is remembered of them
(`SnapshotsNameOwnTasks`, `AgesAreNoOlder`) and that the watchdog has compared an age
before it condemns (`CondemnedAreOld`). A row says that its task is no older than it is,
so an age that is old enough in the row is old enough in the task.

`ContainersAreOwn` is the claim of prewarmed containers. `ClaimInv` says when a
container is taken by a user (`Taken`: his row names it, or a claim of his is past the
Delete), and that what is taken is not in the prewarm row any more and is claimed by
another only if both held it at once (`TakenOnce`). What could undo that is a Put of the
prewarm row that comes late. So only a container that has put all of its rows is offered
(`OffersAreSettled`: the row has an address, which is the container's last Put but the
idle one), and the prewarm handler's own Put precedes all others (`PutIsFirst`). The
step is proved of its consequences: every action keeps containers settled
(`SettledLast`), puts only rows that were there, or of a task of its own (`RowsFollow`,
`OffersFollow`, `PutsFollow`), and moves claims forward (`ClaimsFollow`); from these
four (`StepRules`) `TakenOnce` follows once (`ClaimsStep`).

**`ColdStartProofs`** (from `RouterAssumption`, `TaskStateAssumption`,
`PrewarmedAssumption` and `TasksAssumption`, which says that there are finitely many
tasks, as the queue's proofs need of its consumers). `Typing`, `ColdStartInvariance`, and
from it `StartersFind` and `UnansweredAreSaved`. The queue's invariant is not proved
again: `QueueProofs` is `PendingMessagesProofs` at this composition's users and tasks,
whose step lemmas hold for any number of drains at once. `ColdInv` adds what ties the
queue to the requests and the containers: a message is saved before a task is started
for it (`SavedFirst`), the task is its user's (`StartedForUser`), a container drains only
while its row is put and it does not serve yet, so it drains after it was started
(`DrainsWhileRunning`), and an item that a drain passes over has been tried
(`MarksTell`). Each step is then a step of three parts that do not look at each other:
containers never go back (`ContainersGoOn`), requests keep their task
(`RequestsGoOn`), and a drain begins with all that waits (`DrainsGoOn`).

The same module goes on with `SharedTable` (from these and `ChatsAssumption`).
`SharedColdStart`: the
invariant of the cold start does not rest on the rows (`RowsAlone`), so it holds
whatever chats make of them, and `StartersFindBesideChats` with it. `LocksExclude`: an
execution that works is named by its user's row or has been robbed of it (`LockInv`).
`ContainersAreLeft`: the two conditions of `session-lock.ts` each spare a row that leads
to a container.

**`RuntimeRouterProofs`** (from `ChannelsAssumption`, `ArrivalsAssumption`,
`ContextAssumption` and `ConfigsAssumption`, for any number of requests, any messages
and any deployments). `Typing`, `RoutingInvariance`, and from it `OneRuntime`,
`NobodyIsIgnored` and `OneAnswer`; then `LocksAreHonoured`. `RoutingInv` says of each
place of a request what has happened to its message when it gets there: nothing as long
as it only decides (`Untouched`), which calls may have been made on the course it is on
(`Course`), that one runtime has the message unless a call failed (`Sole`), and that a
request never reaches its end empty-handed (`Handled`). `Followed` ties the invocation
as AgentCore sees it to the gateway's side: what was given up may not answer. The lock
needs an invariant about other requests' memory as well: a row that anybody has read and
will put back still carries the lock, if the session was locked when it was read
(`LockedRow`, `LockCourse`).

**`BridgeTurnProofs`** (from `TurnsAssumption`, finitely many turns at once,
`ConnectionsAssumption`, `BridgeArrivalsAssumption`, `MaxTextAssumption` and
`MaxAttemptsAssumption`; for any deployments). Four invariants, one on top of the other.

* `CountInv` gives `BusyIsExact`: a turn is counted once when it is accepted, each step
  between leaves it under way and what it came as (`GoesOn`), wherever it throws, and
  `Finally` is the only way out. `TypeInv` adds the types (`Typing`), and that the retries
  of the connection end (`AttemptsInv`).
* `TextInv` gives `TextComesInOrder` and `RunsAreReadWhole`. The texts are in three
  places: what the turn has said, what waits in the queue of the client, and what a
  frame has handed to the waiting generator. `Joins` says that each of these begins where
  the one before ends, up to the length seen; `Follows`, that the length seen is that of
  the run unless a frame came too early; and a turn that is not reading has none of it
  (`StreamInv`).
* `AnswerInv` gives `AnswersAreWhole`, `NothingIsLeftOver` and `StreamsCloseOnce`. It
  says of each place of a turn what its user has been shown (`Told`): nothing that
  closes the stream yet (`StillOpen`: the chat's buffer or the screen has just what was
  said, of a turn whose chat was empty when it came and its own), the end, or the error.
  The buffer is the connection's, so whoever shares a chat must be noted (`CrossedInv`):
  a closing frame takes all of it along. `LeftOf` is the other end: what a turn alone
  has left there.
* `StoredInv` gives `StoredAnswersWereSent`: before the pair of messages is stored, and
  ever after, the end has been shown or the connection is gone.

**`GmailToolProofs`** (from `LimitsAssumption`, the order of the limits in the code,
`MessagesAssumption`, `DecisionsAssumption`, `MailboxesAssumption`,
`MaxFailuresAssumption` and `ValuesAssumption`, which tells the values for "no
context" from contexts). It begins with what `PaymentScan`'s functions return for any
mailbox: a pick has each member once, two queries put together have no mail twice, and
the bodies opened of a longer list of candidates are at least those of the shorter one. Two
invariants follow.

* `KeptInv` gives `Typing`, `AnswersAreOfTheirPeriod`, `MailsAreCountedOnce` and
  `BodiesAreFew`. It says of every context, in memory, in the row or in a turn, that it has
  each mail once and, unless it was refined, of the period of its goal (`Holds`); and of
  every turn what is needed where it is (`Enters`) or, while it stores its context, where it
  goes then (`Towards`): the properties look at the end of a turn only, but the period
  of an answer is decided when its search begins, and whether it may read bodies when its
  goal is: a search that is not about a trip has read none at any of its stages, and the
  one stage that looks for issuers reads at most `MAX_TOPIC_BODY_CHECKS`.
* `LatestInv` gives `FollowUpsUseLatest`. Where no turn has written, the row has the latest
  context and the memory of its process has that or none (`RowInv`); a turn that is alone
  finds what it wrote itself (`AloneInv`, `OwnOf`); and a turn that expects a context,
  before it writes, sees no other; after it has deleted one that was over, none
  (`ExpectedOf`).

That `refined` and the anchored confirmation are in the model comes of these proofs: each
was a step in which the first invariant failed.

**`IdentityLinkProofs`** (from `IdentityAssumption`). `Typing`, and three arguments of
their own. `CodesLinkOnce` by `CodeInv`: every draw of a code has a number of its own, and
what is in the table has not linked yet (`FreshCodes`, `DistinctCodes`); a draw that
somebody has looked up is in the table under its digits or nowhere, and another is there
only if it was drawn again meanwhile (`HeldCodes`), so whoever deletes it takes it from
all others. `LinksWork` by `LinkInv`: of the handlers between the two
writes of a link, or between the two deletes, none has company that is not noted in
`crossed` (`AloneInv`), and a writer knows what its first write did (`WriterInv`).
`NobodyIsStranded` by `ContainerInv`: of an account that is linked, or is being linked
past the question for its container, there is no container and no message on its way to
start one, unless the question overlooked it (`raced`, `unseen`). A container can only
come of such a message, so what becomes of the rows afterwards, whoever puts or
deletes them, does not matter.

Only model-checked: all liveness (`LockEventuallyFreed`, `OnlyHangingTasksStay`,
`StarterIsServed`, `TurnEnds`), since fairness and ENABLED are out of the prover's
reach. Every safety property that a passing run checks is proved as well, without bounds
on users, messages, tasks, turns, failures or time.

## 5. What is not modelled, and the plan

Not modelled:

* *Workspace backup.* That a later container restores what an earlier one saved is a
  property of a directory's files, copied one by one; without their contents there is
  nothing to state but the order of two calls.
* *Direct chat and cost tools, prompts, formatting.* Calls of an external service and
  the wording of the answer; in `BridgeTurn` each is an answer or an exception.
* *Conversation and context stores*, except when a pair of messages is stored
  (`BridgeTurn`): single writes and reads with no protocol between them.
* *Handlers' authorisation, and the connections table*: single-row writes.
* *Configuration and secrets*: evaluated once.
* *Web client*: its reconnect is a timer of one process; its user interface is not
  a protocol.
* *CDK stacks*: their limits are constants of the models. The CloudWatch statistics
  behind the watchdog's timeout are a choice among the timeouts it can pick.
* *Patterns.* Regular expressions, in the classifier and the Gmail tool: a message is
  the set of those it matches, and the sets used are those of messages in the tests.
* *The operator's tools.* `scripts/redrive-pending-messages.ps1` clears the marks of dead
  letters by hand; nothing in the code runs it.
* *Mode `both` with everything at once.* `SharedTable` has Fargate and the locks on one
  table, `LockUnderWatchdog` the locks, the session files and the watchdog. The two are
  not composed with each other or with time: what the watchdog makes of a row that was
  a lock when it scanned and is a container's when it deletes is left out.

What is left of the plan: the web client's reconnect against the handlers' connections
table, and the watchdog in `SharedTable`.

## 6. Running

    tlc -config MCTaskFleet.cfg MCTaskFleet.tla
    tlapm TaskFleetProofs.tla

`PROJECT.json` lists the runs, the hazards of the code with the properties that
cover them, the findings, and the theorems.
