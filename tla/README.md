# NanoClaw in TLA+

NanoClaw is a host process (`src/src`, one JavaScript thread under Node) that connects chat
platforms to agents. Every session of an agent has a directory with two SQLite files,
`inbound.db` (written by the host) and `outbound.db` (written by the container), and at most one
container, in which an agent runner (`src/container/agent-runner/src`, Bun) feeds a provider
(the Claude SDK). Host and container never call each other: all they share are rows of these two
files, a heartbeat file, and the container being started and stopped. That is what makes the
system worth modelling: each side acts on what the other wrote some time ago. The same holds of
its smaller parts: setup and the running service share one JSON file, the tools process of a runner and its
poll loop share a directory of result files, the servers of the memory store share one database.

Paths below are relative to the repository, which is under `src/` here: `src/host-sweep.ts` of the
host is `src/src/host-sweep.ts` in `PROJECT.json`.

## 1. Inventory

| Component | State | Operations | Hard behaviour | Correct when | Module |
|---|---|---|---|---|---|
| **Inbound queue, host side** (`host-sweep.ts`, `db/session-db.ts`) | `messages_in`, `processing_ack`, `container_state`, heartbeat | insert, count due, sweep: sync, wake, judge, kill, reset with backoff, give up | stale claims, two clocks and two text formats of time, decisions over what a dead process left | each row is handled once or given up after `MAX_TRIES`; a live container is not reset under | SessionQueue |
| **Runner poll loop** (`poll-loop.ts`, `db/messages-in.ts`) | claims, batch in hand, rows pushed into the open query | clear claims, poll, gate, commands, claim, query, push follow-ups, acknowledge, reply | a timer beside the event loop of a query; crash anywhere | claims have an owner; an acknowledged row was prompted; no row starves | SessionQueue, Background |
| **Claude provider** (`providers/claude.ts`) | `container_state` | tool hooks, stream of events | the declaration, like heartbeat and claims, outlives process and query | a container is killed for a silence of its own only, longer than the Bash call it runs declared | SessionQueue |
| **Container lifecycle** (`container-runner.ts`, `container-runtime.ts`) | `activeContainers`, `wakePromises`, `container_status` | wake, spawn (container or host child), kill, error and close events, orphans | concurrent wakes, late events, processes that outlive the host | at most one runner per session, and it is polled | Containers |
| **Session rotation** (`modules/session-rotation`) | stored context, resume row | `end_session`, kill, resume | an init event stores the old context again | the resume prompt meets a fresh context | Containers |
| **Outbound delivery** (`delivery.ts`) | `messages_out`, `delivered`, attempts and lock in memory | two polls, drain, send, record, give up | two timer chains, awaited sends, crash between send and record | in order, no needless duplicate, every row settles | Delivery |
| **Scheduling** (`modules/scheduling`) | task rows, series | schedule, cancel, pause, resume, update; next occurrence | requests race an occurrence being run and replaced | a series neither vanishes, unless a row of it is given up, nor multiplies; cancelled tasks do not run | Scheduling |
| **Router, permissions** (`router.ts`, `command-gate.ts`, `modules/permissions`) | wirings, members, sessions, pending senders and chats | fan-out, engage modes, gates, approval by card, replay | awaits between lookup and use; fan-out with partial failure | an agent is woken only by those who may talk to it; what was approved is not lost | Router |
| **Approvals, questions, self-modification** (`modules/approvals`, `modules/interactive`, `modules/self-mod`) | pending rows, timers, resolvers, system row | ask, card, press, expire, apply, restart | double press, press after timer, failed card, crash between two databases | nothing without consent, no request closed silently | Approvals |
| **Agent to agent** (`modules/agent-to-agent`) | destinations and their projection into sessions | create an agent, route, resolve a name | projection stale in a running session; statements without a transaction | what an agent is told it can use it can; who is written to may answer | Agents |
| **Pairing** (`channels/telegram-pairing.ts`) | one JSON file | issue, guess, consume, wait | two processes, each with a lock of its own; a service without its username | the chat that is paired sent the code on show | Pairing |
| **Setup** (`setup/auto.ts` and its steps) | progress of the driver, what is in place | ten steps, retry with skip, restart under a group, seven channel flows | steps that fail half done, prompts nobody awaits | "completed" means that all is in place | Setup |
| **Local worker, deep work** (`mcp-tools/local-worker`, `deep-work.ts`) | semaphores, task and result files, `deep_work.json` | dispatch, agent loop, cancel, collect, iterate, finalize | two processes over files, slots, timers | slots are given back, results are reported once and in the end | Background |
| **Memory server** (`memory_server`, Python) | one SQLite file | store, reinforce, forget, contradict, prune, consolidate, import, migrate, extract | several processes, check and write in different transactions | merging loses nothing; duplicates come of races, or of texts Python and SQLite fold differently | Memory |
| Typing, Chat SDK state, central database, group files, mounts, memory context, knowledge tools, voice, pre-task scripts, the rest of the adapters | files, HTTP, text, timers | sequential | | | — |

How they interact: adapters call the **router**, which asks **permissions**, resolves a session, writes a
row of **inbound** and wakes the **container**. The runner's **poll loop** claims rows and prompts the
**provider**; tools and replies become rows of **outbound**, which **delivery** sends or hands to a
module (**scheduling**, **approvals**, **questions**, **agent to agent**, **rotation**), and these write rows of
inbound again. The **sweep** repairs what dies in between.

`PROJECT.json` lists all components with their files and, under "hazards", every place in the code
that is hard to test, with the properties that would catch it going wrong.

## 2. Modules

```
InboundLedger            what the host promises of an accepted message
     ^ implements
SessionQueue             inbound half of one session: rows, clocks, sweep, poll loop
Containers               the processes of one session, told apart; rotation
Delivery                 outbound half of all sessions: two polls, sends, crashes
Scheduling               task rows of one session: series of occurrences
Router                   one chat: fan-out, gates, approval of senders and chats
Approvals                requests of one session that a human decides by card
Agents                   agents that create agents, names, grants, projections
Background               local workers and deep work of one session
Memory                   the memory store and the processes that have it open
Pairing <- Setup         the pairing file; the driver of setup, EXTENDS Pairing
MC<Module>               instances for TLC where a cfg cannot say it
<Module>_proofs          theorems, checked by TLAPS
```

A step is a stretch of code that runs without giving up its thread or, in Memory and
Background, its file. Where an await, a commit, a rename or the death of a process may come between two
writes, these are two actions. History variables (marked `history` in the modules) are read by properties only.

### SessionQueue and InboundLedger

Rows are named by the order of their `seq`.

| Variables | Code |
|---|---|
| `kind status tries due` | the columns of `messages_in`; `due` is the time left until `process_after` |
| `ack claimAge` | `processing_ack.status`, age of `status_changed` |
| `bash` | the declared Bash timeout in `container_state` |
| `beat` | age of the heartbeat file |
| `quiet` | history: how long the container that lives now has been silent, from its start or its last event |
| `turn` | history: whether a row was prompted, or settled on the spot |
| `runner batch live own running` | where `runPollLoop`/`processQuery` is, the claimed batch, rows in the open query, a prompt of the runner's own, the Bash call that really runs |
| `tracked waking` | `activeContainers.has`, `wakePromises.has` |
| `sweep host` | where `sweepSession` is, whether the host is up |

`HostNext` has routing, scheduling of a task, the three ends of a wake, the sweep's steps, crash and
restart; `RunnerNext` the poll loop, the follow-up timer, the tool hooks, the ends of a turn, and
crashes; `Tick` is time. A sweep that awaits a wake is suspended (`sweep = "awaiting"`); during
`execSync(docker stop)` (`"killing"`) the host does nothing else while the container still runs. Ages
saturate at `AgeCap`, elapsed times at `-DueFloor`: past these the code does not tell them apart. `Skew`
is the error of `Date.parse` on the zone-less UTC text of SQLite: 0 in UTC, negative east of it.

`InboundLedger` is the promise: a message is accepted, handled at most once or dropped once, dropped
only after `MaxTries` retries, and then left alone. `SessionQueue` implements it (`ImplementsLedger`): a row
counts as handled from its acknowledgement on, not from the later copy into `status`.

`KilledForOwnSilence` compares what the sweep decides from files (heartbeat, declaration, claims, which outlive a
container) with `quiet`, which no file holds: the host removes the heartbeat when it spawns, the runner clears claims when
it boots, and a kill between the two is the exception `JudgedByPredecessor`.

### Containers

SessionQueue has one container without a name. Containers gives every process a record: its mode, the client
the host sees (`docker run`, or the child itself), the runner behind it, and the conversation it carries on.
`held` says that the host has not lost its hold: a `docker stop` that throws, a late event that
deletes the entry of a successor, and a process that comes up behind `cleanupOrphans` lose it, and
`OneRunner` speaks of the others. `store`, `end`, `resume` are the stored context and the `end_session` request.
The old context may be stored again by an init event after the request, and the kill hits whichever run is
current; `FreshResume` says that these are the only ways to miss the promise "fresh context window".

### Delivery

All sessions and both timer chains; the call that sends has a life of its own: open, landed or swallowed, then
returned or thrown. An adapter may pass over a message and return as if it had sent it (`Swallows`). So "landed, host dies" exists, and "threw although it landed". `memory` is what a
crash loses. `shown`, `doubt` and `threw` count effects, effects the host did not learn of, errors; `swallowed` are
the messages that were passed over.

### Scheduling

`status`, `recurs`, `series` of each row, its acknowledgement, and the fan-out of step 5 (`sweep`,
`todo`, `current`). Insert and clear are separate steps: two statements without a transaction. `expected` is what the
agent was told recurs (a row that is given up takes nothing out of it), `wish` what it last asked for, `interrupted` the series for which a
`clearRecurrence` was cut off.

### Router

One chat of a threaded platform. `Arrive` is `routeInbound` to its first await, `FanOut` the treatment of one
wiring; several messages are on their way at a time, so memberships and wirings change between two
wirings of one message; the policy is one of three from the start. Requests of approval are not awaited by the code: `requests` are those whose direct
message channel is still being resolved, `cards` those that are on screen. An answer routes the held message again; a message whose row is in an
inbox already ends the fan-out with an error (`collided`).

### Approvals

Three kinds of request share card, press and row: a question (`ask_user_question`), an action
(self-modification), and a credential the OneCLI gateway waits for. `flow` is where the asking code is, `row` the
pending row, `resolver` the timer and promise of a credential, `handling` the stretch between the note to the
agent and the deletion of the row, which are writes to different databases. The
bridge reads the row of a card when the press arrives, so a press can be dispatched long after it was read.

### Agents

`dest` is the central table, `proj` its copy in each session. `create_agent` is its statements one by one
(`Creation`), each of which may throw or be the last before a crash; meanwhile runners read projections and
setup wires a chat under the same name. `out` are undelivered rows; a failed row is retried up to `MAX_DELIVERY_ATTEMPTS`
times. `runner` remembers whom the open query answers. A file sent along is not told from the message.

### Background

The tools process (dispatch of tasks, two kinds of worker, semaphores) and the poll loop meet in files. `work` is where
a worker stands; `loop` and `after` where the poll loop is and what its query was opened by (`SkipBatch` is a batch of
commands, or held back by scripts, that opens none); `told` counts how
often a task was taken from `worker-results/`. `session` is the time left of deep work, `"unset"` if the deadline was no
time, so that every comparison with it is false.

### Memory

`job` is what a process has read and not yet written: a lookup, clusters whose merge Qwen is asked for, a pair
to mark, rows to prune. A statement that only reads takes no lock, so all of it may be stale when used. Texts are
model values; what the code tells apart are which are near or similar, and two normal forms: the one Python makes of the text it
looks up (`PyForm`) and the one SQLite makes of what is stored (`SqlForm`, ASCII and spaces only).

### Pairing and Setup

Pairing is the file with the step that issues a code and waits and the service that consumes it: both read and write
the whole file. `host.named` says whether the service got its username when it started; without it, it consumes nothing. Setup EXTENDS it with the driver: `driver.at` and `.sub` are the step and where it stands, `.todo`
the rest of a channel's flow as a sequence of checks and child processes, `.prompt` what an open `fail()` asks. A
`fail()` that is awaited stops the step; in the WhatsApp and Teams flows some are not awaited, and the flow goes on
under an open prompt (`Unawaited`). `inPlace` and `connected` are what steps have put in place, also half done; `driver.zone` is what became of
the timezone the operator wants.

## 3. Runs

All twelve pass. Every property has a mutant in `PROJECT.json`: an operator beside the definition it
replaces, written as a plausible bug, under which TLC finds the property violated.

| Run | Question | Instance |
|---|---|---|
| `SessionQueueSafety` | Do the tables, the host's maps and the container agree in every interleaving; is a container killed for its own silence only; is the ledger implemented? | 2 rows of all 4 kinds, 1 retry, 1 fault, Bash calls of 2 with a ceiling of 1, ages up to 3 |
| `SessionQueueLiveness` | Does every row that engages the agent settle? | 2 rows, chat or context, a poll of 1 row, 1 fault, ages up to 2, `FairSpec` |
| `Containers` | One runner, polled, and resumed in a fresh context? | 4 processes, 2 faults, `FairSpec` |
| `Delivery` | No needless duplicate, order; is every row settled? | 2 sessions, 2 rows, 3 kinds of destination, adapters that swallow, 2 attempts, 1 fault, `FairSpec` |
| `Scheduling` | Do series survive but for rows given up, and stay single; is a cancel that hit final; is the next occurrence inserted in the end? | 3 rows, 1 fault, `FairSpec` |
| `Router` | Are the gates kept over awaits and replays; can open cards be decided; is the approved agent woken? | 2 messages of 2 senders, 2 agents, 4 wirings, 3 policies, 1 crash |
| `Approvals` | Nothing without consent, nothing closed silently, no honoured card that says "Expired"; do credentials settle? | 1 request of 3 kinds, 3 presses, 2 crashes, `FairSpec` |
| `Agents` | Can a created agent be used; are stale names only behind; may who is written to answer? | 2 chats, 2 names, 2 created groups, 4 sessions, 5 messages, 2 attempts, 2 faults |
| `Workers` | Are slots accounted for, results reported once and in the end? | 2 tasks in the agent loop of 2 turns, 1 slot, 1 fault, `FairSpec` |
| `DeepWork` | Is an expired session finalized? | 2 single-shot tasks beside it, deadlines far off or not a time, 3 faults, `FairSpec` |
| `Memory` | Does merging lose nothing; do twins come of races or unlike forms, one-sided contradictions of races only? | 2 processes, 4 rows, 4 calls, 4 texts, one with a capital SQLite leaves alone; Qwen answers with a merge or a text of the cluster |
| `Setup` | Is everything in place, the zone too, when setup says so; is the paired chat the one that sent the code; does pairing end? | all 10 steps, 7 channels, 2 chats, 2 codes, 2 records, 1 regeneration, 2 faults, `FairSpec` |

Why these bounds. Two rows are the least with one in a batch and another pushed, overtaken, or, with a poll of one row, hidden by
the limit; one retry reaches every branch of the reset. Three rows of tasks let a series have a predecessor and
two rival successors. Two sessions are the least with a poll in one and its rival in the other. Four processes are
one that is leaving, one that the host lost hold of, one that it tracks, and one more; the bound never binds under two faults. Two
messages overtake each other at the router, and a second arrives while the first waits for its card. Requests of
`Approvals` share nothing but the host's clock and crashes, so one, of any kind, suffices; three presses are two
on one card and one that was read before the restart. Two created agents and two names let a child be a creator, a
name be taken, and a group be orphaned. Two tasks contend for one slot; three faults are the errors in a row after
which the continuation ends. Four rows are a cluster of two, its merge, and a newcomer that merges with it. Two pairing
codes are the least with reuse of a superseded one. Thresholds are small but ordered as in the code (claim tolerance <
ceiling < long Bash timeout). The proofs remove the bounds for safety where there are proofs.

Symmetry is used in safety runs only (chats and names in `Agents`, processes in `Memory`, messages in `Router`).
Runs without deadlock check are those of systems that may stop: requests run out in `Router`, `Approvals`,
`Agents` and `Memory`, setup ends in `Setup`, faults and processes in `Containers`.

### Fairness

Only what the code's scheduling gives.

- Timers re-arm themselves (`finally`, `setTimeout`, `setInterval`): weak fairness of sweep and polls, of expiry, and
  of `Tick`. Events of child processes and resolved promises are queued, not dropped: strong fairness where a
  synchronous step may come in between (`SpawnContainer`, `ContainerClosed`, `PushFollowUps`, the ends of
  an asking in Approvals).
- The host is restarted by its service manager (`setup/service.ts`: launchd, systemd), or by the operator.
- SessionQueue: a provider that is not silent answers, fails or falls silent; one that is silent is
  the sweep's business. Delivery and Approvals: a call that was started ends, which the code takes for granted (no
  timeout). Containers: `docker run` and SIGTERM come to an end.
- Background: the endpoint ends its answers (its timer is cleared once the headers are in) and tools return; a query
  that is open lasts longer than the 500 ms of the follow-up timer (strong fairness of `CollectOpen`).
  `DeepWorkEnds` is conditional on queries that end.
- Setup: the operator goes on sending the code on show; nothing is assumed of the prompts.
- Nowhere is anything assumed of users, agents, tools, new messages or faults.

Exceptions of the liveness properties, all of them behaviours of the code (section 5). `EngagingRowsSettle`: a given-up
row whose claim stays open makes the sweep kill every container it wakes (`Poisoned`), and newer context rows hide an older row
behind the limit of the poll (`Hidden`). `PairingEnds`: a service that did not get its username (`Nameless`).
`WorkerSettles`: the process that worked died, or a context row keeps the idle loop from looking; that batches which open no query do
not come for ever (`SkipsEnd`) is a condition of it and of `DeepWorkEnds`.

## 4. Proofs

Eight modules `*_proofs.tla`, for every value of the constants that meets the named assumptions of the
modules. No property is inductive alone; each module defines an inductive invariant, proves it in one lemma per
group of conjuncts and one step per action, and reads the theorems off it. The counts of sessions, messages, runs,
requests, groups, attempts and faults are unbounded in them.

- **SessionQueue_proofs.** `SessionInvariant`: the host's maps (`WakeIsForTheUntracked`, `MapsDieWithHost`), what the
  process has in hand (`NothingInHand`, `HeldRowsAreOpenToAck`, `HeldRowsWerePrompted`), the two tables
  (`AckFitsRow`), the declaration of Bash (`RunningIsDeclared`), that heartbeat and claims in hand are the
  container's own (`OwnHeartbeat`, `OwnClaims`). `TrackedCoversRunner` needs that a wake in flight excludes an entry,
  `CompletedWasHandled` that what is acknowledged was prompted. From it also the action properties
  (`ResetsSpareRunners`, `GivenUpStays`, `AckStays`, `KillsAreForSilence`) and the refinement `LedgerImplemented`.
  `KillsAreForSilence` needs `Skew \in Nat`, UTC or west, and is false otherwise.
- **Containers_proofs.** `HoldInvariant`: one wake at most and only while nothing is tracked; the tracked run is marked;
  while the host runs the held runner is the tracked one, behind a live client; while it does not there is at most one. That
  the held runner is the tracked one is what makes "one runner" survive a step. `ContextInvariant`: after the request the old context is
  in the store or in a held runner only if an init event put it back.
- **Delivery_proofs.** `DeliveryInvariant`: the lock (`DrainsAreLocked`), the snapshots (`SnapshotIsUnsettled`,
  `SnapshotIsClosed`) and the accounting `UnsettledIsAccounted`, an exact count of effects for unsettled rows, which makes
  `NoNeedlessDuplicate` and `DeliveredTookEffect` inductive.
- **Scheduling_proofs.** `SchedulingInvariant`: the snapshot over the awaits (`SnapshotIsRecurring`), the row between
  insert and clear (`CurrentIsRecurring`), membership of series (`SeriesOfWritten`).
- **Router_proofs.** `RouterInvariant`: what is on its way came with a message that arrived, the wirings ahead of a
  route are wirings of the chat, and the row behind an open card is the row of that very card: `OpenCardHasRow` alone
  would not survive the decision of another card. `ApprovedArrives` follows a message from the press on its card:
  `EngagedSenders` (who waits for a decision engages some wiring of the chat) and `GrantFollowed` (until it is in an inbox, a
  route still has ahead of it an agent that will take it, unless the message collided with a row of its own), which rest
  on `NothingForgotten`, also a theorem (`OnlyAdded`).
- **Router_proofs, setup.** The second half is about Setup and the file of Pairing. `PairInvariant`: while a code is shown that was
  not shown before, whoever consumed it, in the file or in the copy the service is about to write back, sent it since it
  was shown (`EchoedIn`, `ConsumerEchoes`). This survives both whole-file writes because every record either process writes is drawn
  from one it read (`DrawnFrom`). `SetupInvariant`: the effect of each step that lies behind, was logged as completed or may be
  skipped is in place (`BehindInPlace`), the zone is settled behind its step unless a retry gave it up (`ZoneIsGood`), and the chat is connected unless the flow of Telegram is about to
  connect it (`AboutToConnect`). Every action of the driver but the choice of a channel is one of four moves (`DriverMoves`), each with one lemma.
- **Approvals_proofs.** `ApprovalsInvariant`, request by request: presses are counted (an Approve that was read and not dispatched
  is still owed), a row is closed only behind the note, the connection of a credential is open exactly while it is being asked
  or has a resolver. Requests do not disturb each other (`AskingOthers`, `AnsweringOthers`), so one lemma per request suffices.
- **Agents_proofs.** `AgentsInvariant`: what `create_agent` has done by each of its statements (`Done`), what was told is granted
  (`ToldIsGranted`), grants are mutual but for a creation broken off or half way (`Mutual`), a projection is the table or
  behind it. `GrantsOnlyGrow` states the reason: no step takes a grant back or gives a name to somebody else.
- **Tools_proofs, Background.** `SlotInvariant`: each worker stands where its place in a queue or its slot says, no task is twice in a
  queue, and the free slots and the holders add up; the sum alone is not inductive, for a release hands its slot to the head of the
  queue. `ResultOnce`: a task that was told has neither a result nor a worker that could write one. It also yields the action property
  `ResultsFinal`.
- **Tools_proofs, Memory.** `StoreTypes` with the shape of what a process has in hand (`ShapeOf`) carries three invariants.
  `TwinInvariant`: a lookup that found nothing stays true of the store, but for a form that raced or a text no lookup finds. `LinkInvariant`: what a process read of a
  pair is still what the rows say, unless the pair clashed. `MergeInvariant`: outside `echoed` a merge leads from an older row to a newer one.
  A circle of merged rows without one of `echoed` would then have no greatest row, which is how `MergesKept` does without an induction
  over chains.

Memory and Setup share a proof module with Background and Router, which it EXTENDS together; hence their `MemoryInit`, `MemoryNext`,
`MemorySpec`, `SetupInit`, `SetupNext` and `SetupSpec`. The two have no variable in common and no theorem is about both.

Every invariant and action property of the runs is proved. Only model-checked is what needs fairness:
`EngagingRowsSettle`, `EveryRowSettles`, `RecurrenceHandled`, `CredentialsSettle`, `ResumeReachesRunner`, `PairingEnds`,
`WorkerSettles`, `DeepWorkEnds` (TLAPS proves nothing about fairness and ENABLED here).

## 5. What the models show of the code

Behaviours a reader of the comments may not expect. None contradicts a property above. Where one forced an exception, the
property names it, and the list comes first; each of them occurs in the run of its property.

| Property, exception | The code | What the repository says |
|---|---|---|
| `KilledForOwnSilence`, `JudgedByPredecessor` | the sweep judges the container it has just woken by claims that container had no time to clear (`host-sweep.ts:171-178`) | "so a fresh container gets a chance to clean its own orphan processing_ack rows on startup" (`:163`) |
| `EngagingRowsSettle`, `Hidden` | newest rows first, LIMIT before the claim filter, trigger looked at afterwards: context rows hide an older row (`messages-in.ts:62`, `poll-loop.ts:163`) | context rows "ride along the next time" (`poll-loop.ts:157`) |
| `EngagingRowsSettle`, `Poisoned` | a given-up row keeps its claim, by which later sweeps kill the containers they wake (`host-sweep.ts:263`) | "a fresh container will clean the orphan claim on startup" (`:264`) |
| `DeliveredTookEffect`, `swallowed` | an adapter that returns without doing anything is recorded as delivered (`delivery.ts:193`): no CLI client or a failed write to it (`cli.ts:119-136`), a card without a title (`chat-sdk-bridge.ts:374`), an unknown system action (`delivery.ts:427`) | "instead of marking it delivered when nothing was actually delivered, which was the pre-refactor bug" (`delivery.ts`, permission check); of the CLI the silence is documented (`cli.ts:32`) |
| `SeriesNeverLost`, `GivenUp` | a task row given up after `MAX_TRIES` ends its series; recurrence follows completed rows only, and the agent is not told (`host-sweep.ts:267`, `scheduling/db.ts:124`) | nothing |
| `OneStemPerSeries`, `interrupted` | a crash or an error between insert and clear inserts the next occurrence twice (`recurrence.ts:36`) | nothing |
| `ApprovedNotLost`, `collided` | the replay inserts under the id the message has already: under `accumulate`, or when another agent got it before, the insert throws, and the approved agent is not woken (`router.ts:425`, `permissions/index.ts:243`) | "add the sender ... + re-invoke routeInbound" (`permissions/index.ts:192`); the test has it wake the agent (`sender-approval.test.ts`) |
| `CompletedInPlace`, `ZoneGivenUp` | detection completes the step; when the zone named by hand cannot be saved, the retry skips it (`auto.ts:701-817`, `logs.ts:85`, `runner.ts:386-396`) | the retry resumes "at the step that failed" (`runner.ts:374-377`) |
| `PairingEnds`, `Nameless` | the username is fetched once, when the service starts; without it every code is passed on as a message, and the step waits for ever (`telegram.ts:51-61`, `:121`, `:215`) | "Cached after first call" (`:50`) |
| `TwinsRaced`, `Unfound` | Python's `strip().lower()` against SQLite's `LOWER(TRIM())`: a capital beyond ASCII or a newline at the end is never found (`storage.py:235-238`) | "re-runs idempotent" (`migrate.py:4-5`), as `test_migration.py` has it for ASCII |
| `MergedKept`, `echoed` | a cluster one of whose own texts Qwen gives back is superseded by itself, or two by each other (`consolidator.py:146`); nothing of it stays active | "every original is superseded by it" |
| `WorkerSettles`, context | the idle loop looks for results only with no row pending, not even one of context (`poll-loop.ts:82`) | "Results will auto-surface when complete" |

*Rows and containers.* Rows with `trigger = 0` are pushed into an open query, where no gate looks (`poll-loop.ts:456`). A follow-up
is acknowledged as it is pushed (`:463`), so a kill does not bring it back; a reply is acknowledged before it is written
(`:509`). East of UTC a fresh claim looks hours old (`host-sweep.ts:97`). A container that is woken before the sweep looks clears its predecessor's claims without a try being counted. A late event
deletes the entry of a successor (`container-runner.ts:210`). `end_session` kills whichever run is current.

*Delivery, scheduling, approvals, routing.* A row with nowhere to go is recorded as delivered (`delivery.ts:284`, `:342`). A paused task whose
occurrence is in hand runs again: the sweep copies "completed" over "paused" and inserts a successor (`scheduling/db.ts:46` against
`mcp-tools/scheduling.ts:189`). A late answer to a question stays due and keeps waking the container. Two Approves of one card may both
be applied, as its row is deleted behind the handler (`response-handler.ts:95`). A follower wired without a mention does not
follow (`router.ts:333`).

*Agents.* A reply to an agent goes to the newest session of its group, not to the one that asked
(`docs/architecture.md`: "goes back where it came from"). A note of `notifyAgent` is addressed from the group to itself, so
a plain reply to it loops. `create_agent` refreshes the caller's projection only; a wiring made in the host by a channel approval
refreshes none in a running container (`db/messaging-groups.ts:154`). Broken off, it leaves an orphan, or a child without "parent"
that may never answer, and the retry finds the name taken. A wake that fails after the row was written duplicates the message up to the attempt limit.

*Background.* The result file is written before `postProcessResult` adds its remarks, so "NEEDS REVIEW" (`tools.ts:201`) is not
reached. Two maps of semaphores let an endpoint have twice `max_concurrent` calls. The timer of a call ends with its
headers. A tools process that dies leaves tasks pending for ever. The idle loop takes results even with nobody to tell
(`poll-loop.ts:85`). A deadline that is no time lets deep work go on for ever, or ends it as "reached" after any query.

*Memory.* Twins are stored by two processes at a time, contradictions of one pair overwritten. A merged entry starts at
strength 1 and low trust, and prune may take it at once.

*Setup.* A `fail()` that is not awaited (`whatsapp.ts:71` and others, against "Callers must await", `runner.ts:355`) lets the flow go on
under its open prompt, and the run may end "completed"; so there is no property that a failed run aborts. A failed
package of Teams ends the driver. `creds.json` left by a pairing that timed out is read as authenticated. verify asks for a line such as
`ONECLI_URL` in `.env`, not for the secret (`verify.ts:137-145`). A pairing code may be one that was issued before.

## 6. What is assumed, and what is left out

- `docker stop` ends the container in SessionQueue; if it throws, see Containers. One result event answers everything prompted
  so far; tools run one at a time.
- Rows of Delivery are totally ordered; the code orders by a timestamp of one second, and numbers rows by a maximum that two processes read.
- Cron expressions are valid; times of occurrences are left open. An omitted field of `update_task` changes nothing.
- Router: session modes other than per thread, attachments, typing, voice. Approvals: who is picked as approver.
- Background: cancel and collect are atomic against each other; prompts, parsing, and what articles say.
- Memory: tags, search and ranking, export, the verifier, embedding, trust; `forget` with a replacement.
- Setup: prompts that only collect a value, texts, browsers; of the service's platforms the control flow only.
- Cards, prompts, replies, logs and their text, everywhere.

Not modelled at all: **pre-task scripts** (they block the loop and touch no shared state), **typing** (cosmetic), **chat SDK state** (locks
with expiry used by an external SDK), **central database**, **group files**, **mount security** (pure or single
statements), **memory and wiki context**, **knowledge, wiki and research tools**, **voice** (sequential, over
text, files and HTTP), the benchmark scripts, and what the adapters do inside external SDKs.

The map in `PROJECT.json` names for each definition the code it translates; where two definitions of different modules translate the
same lines (a crash of the host, its restart, a copy of acknowledgements), one of them is listed.

## 7. Plan

Done, in this order: SessionQueue with InboundLedger, Delivery, Scheduling, Containers, Approvals, Router, Agents, Background,
Memory, Pairing and Setup; proofs of every invariant and action property that a run checks. What would come next:

1. **HostSweep**: several sessions in one loop and a throw in one of them that ends the pass for the rest.
2. **Proofs** of what the liveness arguments rest on: that the steps with fairness stay possible until taken, as invariants.
3. **SeqParity**: the two writers of `messages_out` and the numbering of rows.
4. **ChatState**: the locks of the chat SDK, one holder at a time.
5. The refinement of SessionQueue's `tracked` and `waking` by Containers.
