---------------------------- MODULE SessionQueue ----------------------------
(***************************************************************************)
(* The inbound half of one NanoClaw session: the rows of messages_in       *)
(* (inbound.db, written by the host), the claims of processing_ack         *)
(* (outbound.db, written by the agent container), the container process,   *)
(* and the three host activities that drive them: routing, wake-up and the *)
(* periodic sweep of src/host-sweep.ts.                                    *)
(*                                                                         *)
(* Time is relative: the age of a claim, the age of the heartbeat file and *)
(* the time left until a row's process_after grow or shrink with Tick and  *)
(* saturate (AgeCap, DueFloor) where the code no longer distinguishes      *)
(* them.  One tick is the resolution of SQLite's datetime('now').          *)
(*                                                                         *)
(* Sessions with recurring tasks and kind='system' rows are not modelled   *)
(* here: step 5 of the sweep does nothing for the rows of this module.     *)
(***************************************************************************)
EXTENDS Integers, FiniteSets

CONSTANTS
  MaxRows,       \* bound on the rows ever written to messages_in
  Kinds,         \* the kinds of row the environment may send
  Delays,        \* ticks until process_after of a newly scheduled task
  MaxTries,      \* MAX_TRIES
  Backoff,       \* Backoff[tries]: ticks, the code's 5s * 2^tries
  ClaimStuck,    \* CLAIM_STUCK_MS in ticks
  Ceiling,       \* ABSOLUTE_CEILING_MS in ticks
  BashTimeouts,  \* the Bash timeouts a tool call may declare, in ticks
  PromptLimit,   \* maxMessagesPerPrompt
  Skew,          \* ticks by which Date.parse of a zone-less UTC text errs
  MaxFaults,     \* bound on crashes and failed spawns together
  AgeCap,        \* saturation of the ages
  DueFloor       \* saturation of an elapsed process_after

ASSUME CountsAssumption ==
  /\ MaxRows \in Nat /\ MaxTries \in Nat /\ PromptLimit \in Nat \ {0}
  /\ MaxFaults \in Nat /\ ClaimStuck \in Nat /\ Ceiling \in Nat
  /\ AgeCap \in Nat /\ DueFloor \in Nat /\ Skew \in Int
ASSUME OrderAssumption == ClaimStuck <= Ceiling
ASSUME ChoicesAssumption ==
  /\ Kinds \subseteq {"chat", "context", "clear", "task"}
  /\ Delays \subseteq Nat
  /\ BashTimeouts \subseteq Nat \ {0}
  /\ Backoff \in [0..MaxTries -> Nat]

Rows == 1..MaxRows          \* a row is named by the order of its seq

Absent == -1                \* no heartbeat file

VARIABLES
  kind,      \* [Rows -> kind]; "context" is a chat row with trigger = 0
  status,    \* messages_in.status, "none" before the insert
  tries,     \* messages_in.tries
  due,       \* ticks until messages_in.process_after; NULL counts as 0
  ack,       \* processing_ack.status, "none" when there is no row
  claimAge,  \* age of processing_ack.status_changed of a 'processing' row
  bash,      \* container_state: declared timeout of the Bash in flight, or 0
  beat,      \* age of the heartbeat file, or Absent
  runner,    \* where the container process is, "down" when there is none
  batch,     \* processingIds of the turn the runner is in
  live,      \* rows given to the open query and not yet answered
  own,       \* the query works on a prompt of the runner's own making
  running,   \* the Bash call that really is running in the container, or 0
  tracked,   \* activeContainers has an entry for the session
  waking,    \* wakePromises has an entry for the session
  sweep,     \* where sweepSession is
  host,      \* is the host process up
  turn,      \* history: was the row prompted, was that settled by a result or otherwise
  quiet,     \* history: time since the container was started, or showed life
  faults     \* history: crashes and failed spawns so far

inbound  == <<kind, status, tries, due>>
outbound == <<ack, claimAge, bash>>
process  == <<runner, batch, live, own, running>>
hostMem  == <<tracked, waking, sweep, host>>
vars == <<inbound, outbound, beat, quiet, process, hostMem, turn, faults>>

RunnerStates ==
  {"down", "booting", "fresh", "idle", "window", "scripts", "query", "hung", "replying"}
Polling == {"fresh", "idle"}   \* lastRouting is null, or known

TypeOK ==
  /\ kind \in [Rows -> Kinds \union {"none"}]
  /\ status \in [Rows -> {"none", "pending", "completed", "failed"}]
  /\ tries \in [Rows -> 0..MaxTries]
  /\ due \in [Rows -> Int]
  /\ ack \in [Rows -> {"none", "processing", "completed"}]
  /\ claimAge \in [Rows -> Nat]
  /\ bash \in BashTimeouts \union {0}
  /\ beat \in Nat \union {Absent}
  /\ quiet \in Nat
  /\ runner \in RunnerStates
  /\ batch \in SUBSET Rows
  /\ live \in SUBSET Rows
  /\ own \in BOOLEAN
  /\ running \in BashTimeouts \union {0}
  /\ tracked \in BOOLEAN
  /\ waking \in BOOLEAN
  /\ sweep \in {"idle", "awaiting", "resuming", "killing"}
  /\ host \in {"up", "down"}
  /\ turn \in [Rows -> {"none", "prompted", "settled"}]
  /\ faults \in 0..MaxFaults

-----------------------------------------------------------------------------
(* What the queries and the pure helpers compute.                          *)

\* countDueMessages, over the statuses st.
DueForWake(st) ==
  {m \in Rows : st[m] = "pending" /\ kind[m] # "context" /\ due[m] <= 0}

\* Mutant of DueForRunner: the status is not compared with 'pending'.
UnfinishedForRunner == {m \in Rows : status[m] \in {"pending", "failed"} /\ due[m] <= 0}

\* The rows the SELECT of getPendingMessages can see.
DueForRunner == {m \in Rows : status[m] = "pending" /\ due[m] <= 0}

\* ORDER BY seq DESC LIMIT n ...
Newest ==
  {m \in DueForRunner :
     Cardinality({k \in DueForRunner : k > m}) < PromptLimit}

\* ... and only then the rows already in processing_ack are filtered out.
PendingMessages == {m \in Newest : ack[m] = "none"}

Engages(S) == \E m \in S : kind[m] # "context"

Claims == {m \in Rows : ack[m] = "processing"}

Larger(a, b) == IF a >= b THEN a ELSE b

\* Date.parse(status_changed): SQLite writes UTC without a zone designator
\* and Date.parse reads such a text as local time.
ParsedClaimAge(m) == claimAge[m] - Skew

PastCeiling == beat # Absent /\ beat > Larger(Ceiling, bash)

StuckClaim(m) ==
  /\ ParsedClaimAge(m) > Larger(ClaimStuck, bash)
  /\ ~(beat # Absent /\ beat <= ParsedClaimAge(m))

\* decideStuckAction answers kill-ceiling or kill-claim.
MustKill == PastCeiling \/ \E m \in Claims : StuckClaim(m)

\* "Date.parse(msg.processAfter) > now": a retried row holds SQLite's zone-less
\* text, a scheduled one the ISO text of the tool call.
RetryScheduled(m) == (IF tries[m] > 0 THEN due[m] + Skew ELSE due[m]) > 0

\* Mutant of Exhausted: one try too few.
ExhaustedEarly(m) == tries[m] + 1 >= MaxTries

Exhausted(m) == tries[m] >= MaxTries

\* resetStuckProcessingRows works on these rows: it gives up those that have
\* exhausted their tries and schedules a retry of the others.
Resettable == {m \in Claims : status[m] = "pending" /\ ~RetryScheduled(m)}
GivenUp == {m \in Resettable : Exhausted(m)}
Retried == Resettable \ GivenUp

ResetStuckProcessingRows ==
  /\ status' = [m \in Rows |-> IF m \in GivenUp THEN "failed" ELSE status[m]]
  /\ tries' = [m \in Rows |-> IF m \in Retried THEN tries[m] + 1 ELSE tries[m]]
  /\ due' = [m \in Rows |-> IF m \in Retried THEN Backoff[tries[m]] ELSE due[m]]
  /\ UNCHANGED kind

\* Mutant of Synced: a claim is taken for an acknowledgement.
SyncedWithClaims ==
  [m \in Rows |-> IF ack[m] # "none" THEN "completed" ELSE status[m]]

\* syncProcessingAcks
Synced == [m \in Rows |-> IF ack[m] = "completed" THEN "completed" ELSE status[m]]

\* The process is gone: its memory goes with it, container_state stays behind.
RunnerDies ==
  /\ runner' = "down"
  /\ batch' = {} /\ live' = {} /\ own' = FALSE /\ running' = 0

\* markCompleted, for the ids in S.
MarkCompleted(S) ==
  /\ ack' = [m \in Rows |-> IF m \in S THEN "completed" ELSE ack[m]]
  /\ claimAge' = [m \in Rows |-> IF m \in S THEN 0 ELSE claimAge[m]]

\* clearStaleProcessingAcks
ClearStaleProcessingAcks ==
  /\ ack' = [m \in Rows |-> IF ack[m] = "processing" THEN "none" ELSE ack[m]]
  /\ claimAge' = [m \in Rows |-> 0]

SetTurn(S, t) == [m \in Rows |-> IF m \in S THEN t ELSE turn[m]]

-----------------------------------------------------------------------------
(* The host: one JavaScript thread.  Between "resuming" and the end of a   *)
(* sweep step, and while execSync waits for docker stop, it runs nothing   *)
(* else.                                                                   *)

HostFree == host = "up" /\ sweep \in {"idle", "awaiting"}

\* wakeContainer: no-op when an entry exists, joins a wake in flight.
WakeContainer == waking' = (waking \/ ~tracked)

InsertRow(m, k, d) ==
  /\ status[m] = "none"
  /\ \A j \in Rows : j < m => status[j] # "none"
  /\ status' = [status EXCEPT ![m] = "pending"]
  /\ kind' = [kind EXCEPT ![m] = k]
  /\ due' = [due EXCEPT ![m] = d]
  /\ UNCHANGED tries

\* deliverToAgent of the router: write the row; wake when the agent engages.
RouteInbound(m, k) ==
  /\ HostFree
  /\ k \in Kinds \ {"task"}
  /\ InsertRow(m, k, 0)
  /\ IF k = "context" THEN UNCHANGED waking ELSE WakeContainer
  /\ UNCHANGED <<outbound, beat, quiet, process, tracked, sweep, host, turn, faults>>

\* insertTask on behalf of the agent: no wake, the sweep will find it.
ScheduleTask(m, d) ==
  /\ HostFree
  /\ "task" \in Kinds
  /\ InsertRow(m, "task", d)
  /\ UNCHANGED <<outbound, beat, quiet, process, hostMem, turn, faults>>

\* Mutant of SpawnContainer: the heartbeat file of the predecessor is not removed.
SpawnKeepsHeartbeat ==
  /\ HostFree /\ waking
  /\ waking' = FALSE /\ tracked' = TRUE
  /\ quiet' = 0
  /\ runner' = "booting"
  /\ sweep' = IF sweep = "awaiting" THEN "resuming" ELSE sweep
  /\ UNCHANGED <<inbound, outbound, beat, batch, live, own, running, host, turn, faults>>

\* The awaited part of spawnContainer ends: heartbeat removed, process spawned,
\* entry recorded.  A sweep that awaited it goes on at once (a microtask).
SpawnContainer ==
  /\ HostFree /\ waking
  /\ waking' = FALSE
  /\ tracked' = TRUE
  /\ beat' = Absent /\ quiet' = 0
  /\ runner' = "booting"
  /\ sweep' = IF sweep = "awaiting" THEN "resuming" ELSE sweep
  /\ UNCHANGED <<inbound, outbound, batch, live, own, running, host, turn, faults>>

\* spawnContainer throws: an awaiting sweep of this session is abandoned.
WakeFails ==
  /\ HostFree /\ waking
  /\ faults < MaxFaults
  /\ faults' = faults + 1
  /\ waking' = FALSE
  /\ sweep' = "idle"
  /\ UNCHANGED <<inbound, outbound, beat, quiet, process, tracked, host, turn>>

\* Mutant of ContainerClosed: the handler forgets activeContainers.delete.
ClosedEntryKept == HostFree /\ tracked /\ runner = "down" /\ UNCHANGED vars

\* The 'close' event of the container's process.
ContainerClosed ==
  /\ HostFree /\ tracked /\ runner = "down"
  /\ tracked' = FALSE
  /\ UNCHANGED <<inbound, outbound, beat, quiet, process, waking, sweep, host, turn, faults>>

\* Steps 1 and 2 of sweepSession.
SweepBegin ==
  /\ HostFree /\ sweep = "idle"
  /\ status' = Synced
  /\ IF DueForWake(Synced) # {} /\ ~tracked
     THEN sweep' = "awaiting" /\ WakeContainer
     ELSE sweep' = "resuming" /\ UNCHANGED waking
  /\ UNCHANGED <<kind, tries, due, outbound, beat, quiet, process, tracked, host, turn, faults>>

\* Step 3 with nothing to do.
SweepFindsHealthy ==
  /\ host = "up" /\ sweep = "resuming" /\ tracked /\ ~MustKill
  /\ sweep' = "idle"
  /\ UNCHANGED <<inbound, outbound, beat, quiet, process, tracked, waking, host, turn, faults>>

\* Step 3: enforceRunningContainerSla decides to kill; docker stop is running.
SweepFindsStuck ==
  /\ host = "up" /\ sweep = "resuming" /\ tracked /\ MustKill
  /\ sweep' = "killing"
  /\ UNCHANGED <<inbound, outbound, beat, quiet, process, tracked, waking, host, turn, faults>>

\* docker stop has returned: the claims that are still open are reset.
KillContainer ==
  /\ host = "up" /\ sweep = "killing"
  /\ RunnerDies
  /\ ResetStuckProcessingRows
  /\ sweep' = "idle"
  /\ UNCHANGED <<outbound, beat, quiet, tracked, waking, host, turn, faults>>

\* Mutant of SweepFindsDown: the reset does not wait for the container to be gone.
SweepResetsAnyway ==
  /\ host = "up" /\ sweep = "resuming"
  /\ ResetStuckProcessingRows
  /\ sweep' = "idle"
  /\ UNCHANGED <<outbound, beat, quiet, process, tracked, waking, host, turn, faults>>

\* Step 4: no container, so the claims left behind are reset.
SweepFindsDown ==
  /\ host = "up" /\ sweep = "resuming" /\ ~tracked
  /\ ResetStuckProcessingRows
  /\ sweep' = "idle"
  /\ UNCHANGED <<outbound, beat, quiet, process, tracked, waking, host, turn, faults>>

\* The host process dies: its maps are gone, the container runs on.
HostCrash ==
  /\ host = "up" /\ faults < MaxFaults
  /\ faults' = faults + 1
  /\ host' = "down" /\ tracked' = FALSE /\ waking' = FALSE /\ sweep' = "idle"
  /\ UNCHANGED <<inbound, outbound, beat, quiet, process, turn>>

\* Mutant of CleanupOrphans: the containers of the previous run live on.
LeaveOrphans == UNCHANGED process

\* cleanupOrphans: every container of this install is stopped.
CleanupOrphans == RunnerDies

\* main()
HostStart ==
  /\ host = "down"
  /\ host' = "up"
  /\ CleanupOrphans
  /\ UNCHANGED <<inbound, outbound, beat, quiet, tracked, waking, sweep, turn, faults>>

-----------------------------------------------------------------------------
(* The container: runPollLoop and processQuery.                            *)

runnerFrame == <<inbound, hostMem, faults>>

\* runPollLoop starts: clearStaleProcessingAcks.
Boot ==
  /\ runner = "booting"
  /\ runner' = "fresh"
  /\ ClearStaleProcessingAcks
  /\ UNCHANGED <<runnerFrame, bash, beat, quiet, batch, live, own, running, turn>>

\* The idle branch touches the heartbeat, but only while nothing is pending.
IdleBeat ==
  /\ runner \in Polling /\ PendingMessages = {}
  /\ beat' = 0 /\ quiet' = 0
  /\ UNCHANGED <<runnerFrame, outbound, process, turn>>

\* The trigger gate lets the batch through; the accumulation window opens.
OpenWindow ==
  /\ runner \in Polling /\ Engages(PendingMessages)
  /\ runner' = "window"
  /\ UNCHANGED <<runnerFrame, outbound, beat, quiet, batch, live, own, running, turn>>

\* The window closes: re-read, claim, and handle /clear on the spot.
ClaimBatch ==
  /\ runner = "window"
  /\ LET clears == {m \in PendingMessages : kind[m] = "clear"}
         rest   == PendingMessages \ clears
     IN  /\ ack' = [m \in Rows |-> IF m \in clears THEN "completed"
                                   ELSE IF m \in rest THEN "processing" ELSE ack[m]]
         /\ claimAge' = [m \in Rows |-> IF m \in PendingMessages THEN 0 ELSE claimAge[m]]
         /\ turn' = SetTurn(clears, "settled")
         /\ batch' = rest
         /\ runner' = IF rest = {} THEN "idle" ELSE "scripts"
  /\ UNCHANGED <<runnerFrame, bash, beat, quiet, live, own, running>>

\* applyPreTaskScripts gates some tasks; the others are given to the provider.
StartQuery ==
  /\ runner = "scripts"
  /\ \E gated \in SUBSET {m \in batch : kind[m] = "task"} :
       /\ MarkCompleted(gated)
       /\ batch' = batch \ gated
       /\ live' = batch \ gated
       /\ turn' = [m \in Rows |-> IF m \in gated THEN "settled"
                                  ELSE IF m \in batch THEN "prompted" ELSE turn[m]]
       /\ runner' = IF batch \ gated = {} THEN "idle" ELSE "query"
  /\ UNCHANGED <<runnerFrame, bash, beat, quiet, own, running>>

\* The timer of processQuery pushes whatever is pending into the open query
\* and acknowledges it in the same callback, whether or not events still come.
PushFollowUps ==
  /\ runner \in {"query", "hung"}
  /\ LET new == {m \in PendingMessages : kind[m] # "clear"}
     IN  /\ new # {}
         /\ MarkCompleted(new)
         /\ live' = live \union new
         /\ turn' = SetTurn(new, "prompted")
  /\ UNCHANGED <<runnerFrame, bash, beat, quiet, runner, batch, own, running>>

\* Worker results and deep work prompt the provider without a row: in a query
\* of their own when the idle branch finds them, or pushed by the timer.
OwnPrompt ==
  /\ own' = TRUE
  /\ \/ runner = "idle" /\ PendingMessages = {} /\ runner' = "query"
     \/ runner \in {"query", "hung"} /\ UNCHANGED runner
  /\ UNCHANGED <<runnerFrame, outbound, beat, quiet, batch, live, running, turn>>

Busy == runner = "query" /\ (live # {} \/ own)

\* Any event of the stream, the first or a later one: processQuery touches the
\* heartbeat.
QueryBeat ==
  /\ Busy
  /\ beat' = 0 /\ quiet' = 0
  /\ UNCHANGED <<runnerFrame, outbound, process, turn>>

\* PreToolUse and PostToolUse hooks around a Bash call with a timeout.
BashStarts(t) ==
  /\ Busy /\ running = 0
  /\ running' = t /\ bash' = t
  /\ UNCHANGED <<runnerFrame, ack, claimAge, beat, quiet, runner, batch, live, own, turn>>

BashEnds ==
  /\ runner = "query" /\ running # 0
  /\ running' = 0 /\ bash' = 0
  /\ UNCHANGED <<runnerFrame, ack, claimAge, beat, quiet, runner, batch, live, own, turn>>

\* A result event: the claims are acknowledged before its text is dispatched.
\* One result is taken to answer everything prompted so far.
TurnResult ==
  /\ Busy /\ running = 0
  /\ beat' = 0 /\ quiet' = 0
  /\ MarkCompleted(batch)
  /\ turn' = SetTurn(live, "settled")
  /\ runner' = "replying"
  /\ UNCHANGED <<runnerFrame, bash, batch, live, own, running>>

\* dispatchResultText wrote the reply; the stream stays open for follow-ups.
DispatchReply ==
  /\ runner = "replying"
  /\ live' = {} /\ own' = FALSE
  /\ runner' = "query"
  /\ UNCHANGED <<runnerFrame, outbound, beat, quiet, batch, running, turn>>

\* compact_boundary is translated to a result event in the middle of a turn.
CompactBoundary ==
  /\ Busy /\ running = 0
  /\ beat' = 0 /\ quiet' = 0
  /\ MarkCompleted(batch)
  /\ UNCHANGED <<runnerFrame, bash, process, turn>>

\* processQuery is over and the batch acknowledged: the worker pick-up or deep
\* work may open a query of its own before the loop polls again.
LeaveQuery ==
  /\ MarkCompleted(batch)
  /\ batch' = {} /\ live' = {} /\ running' = 0
  /\ \/ runner' = "idle" /\ own' = FALSE
     \/ runner' = "query" /\ own' = TRUE

\* The stream throws (or never yields a first event within INIT_TIMEOUT_MS):
\* an error reply is written for the batch, which is acknowledged.
QueryFails ==
  /\ runner = "query"
  /\ LeaveQuery
  /\ turn' = SetTurn(live \intersect batch, "settled")
  /\ UNCHANGED <<runnerFrame, bash, beat, quiet>>

\* The stream ends; the batch is acknowledged even without a result event.
QueryEnds ==
  /\ runner = "query"
  /\ LeaveQuery
  /\ UNCHANGED <<runnerFrame, bash, beat, quiet, turn>>

\* The provider falls silent for good.
QueryHangs ==
  /\ Busy
  /\ runner' = "hung"
  /\ UNCHANGED <<runnerFrame, outbound, beat, quiet, batch, live, own, running, turn>>

ContainerCrash ==
  /\ runner # "down" /\ faults < MaxFaults
  /\ faults' = faults + 1
  /\ RunnerDies
  /\ UNCHANGED <<inbound, outbound, beat, quiet, hostMem, turn>>

-----------------------------------------------------------------------------
(* Time.  The synchronous part of a sweep step takes less than a tick.     *)

Tick ==
  /\ sweep # "resuming"
  /\ claimAge' = [m \in Rows |->
       IF ack[m] = "processing" /\ claimAge[m] < AgeCap
       THEN claimAge[m] + 1 ELSE claimAge[m]]
  /\ beat' = IF beat # Absent /\ beat < AgeCap THEN beat + 1 ELSE beat
  /\ quiet' = IF quiet < AgeCap THEN quiet + 1 ELSE quiet
  /\ due' = [m \in Rows |->
       IF status[m] = "pending" /\ due[m] > -DueFloor THEN due[m] - 1 ELSE due[m]]
  /\ UNCHANGED <<kind, status, tries, ack, bash, process, hostMem, turn, faults>>

-----------------------------------------------------------------------------

Init ==
  /\ kind = [m \in Rows |-> "none"]
  /\ status = [m \in Rows |-> "none"]
  /\ tries = [m \in Rows |-> 0]
  /\ due = [m \in Rows |-> 0]
  /\ ack = [m \in Rows |-> "none"]
  /\ claimAge = [m \in Rows |-> 0]
  /\ bash = 0
  /\ beat = Absent /\ quiet = 0
  /\ runner = "down" /\ batch = {} /\ live = {} /\ own = FALSE /\ running = 0
  /\ tracked = FALSE /\ waking = FALSE /\ sweep = "idle" /\ host = "up"
  /\ turn = [m \in Rows |-> "none"]
  /\ faults = 0

HostNext ==
  \/ \E m \in Rows, k \in Kinds : RouteInbound(m, k)
  \/ \E m \in Rows, d \in Delays : ScheduleTask(m, d)
  \/ SpawnContainer \/ WakeFails \/ ContainerClosed
  \/ SweepBegin \/ SweepFindsHealthy \/ SweepFindsStuck \/ SweepFindsDown
  \/ KillContainer
  \/ HostCrash \/ HostStart

RunnerNext ==
  \/ Boot \/ IdleBeat \/ OpenWindow \/ ClaimBatch \/ StartQuery
  \/ PushFollowUps \/ OwnPrompt \/ QueryBeat \/ BashEnds
  \/ \E t \in BashTimeouts : BashStarts(t)
  \/ TurnResult \/ DispatchReply \/ CompactBoundary
  \/ QueryFails \/ QueryEnds \/ QueryHangs
  \/ ContainerCrash

Next == HostNext \/ RunnerNext \/ Tick

Spec == Init /\ [][Next]_vars

(* Fairness: timers of the host keep firing, events of child processes are *)
(* delivered, the runner's loops keep turning, time passes.  Nothing is    *)
(* assumed of users, tools, crashes or of a provider that has fallen       *)
(* silent; a provider that has not must answer, fail or fall silent.       *)
(* Strong fairness where a sweep step in between disables the action: the  *)
(* event loop queues the event, it does not drop it.                       *)
SweepResumes == SweepFindsHealthy \/ SweepFindsStuck \/ SweepFindsDown
QueryMoves == Busy /\ (TurnResult \/ QueryFails \/ QueryEnds \/ QueryHangs)

Fairness ==
  /\ WF_vars(HostStart) /\ SF_vars(SpawnContainer) /\ SF_vars(ContainerClosed)
  /\ WF_vars(SweepBegin) /\ WF_vars(SweepResumes) /\ WF_vars(KillContainer)
  /\ WF_vars(Boot) /\ WF_vars(OpenWindow) /\ WF_vars(ClaimBatch)
  /\ WF_vars(StartQuery) /\ WF_vars(DispatchReply)
  /\ SF_vars(PushFollowUps)
  /\ WF_vars(QueryMoves) /\ SF_vars(Tick)

FairSpec == Spec /\ Fairness

-----------------------------------------------------------------------------
(* Properties.                                                             *)

\* A row the host shows as completed was really handled: given to the
\* provider, answered on the spot, or gated by its script.
\* (syncProcessingAcks, markCompleted and the resets act on it in any order.)
CompletedWasHandled == \A m \in Rows : status[m] = "completed" => turn[m] # "none"

\* No claim is orphaned behind a live runner: an open claim belongs to the
\* batch in hand, or to a process that is dead or about to clear it.
\* (clearStaleProcessingAcks, markProcessing, markCompleted)
ClaimsHaveOwner ==
  \A m \in Claims : m \in batch \/ runner \in {"down", "booting"}

\* While the host is up it knows of every container, so no second one is
\* spawned on the same session directory.  (wakePromises, activeContainers,
\* the close handler, cleanupOrphans)
TrackedCoversRunner == host = "up" /\ runner # "down" => tracked

\* What TrackedCoversRunner rests on: a wake is in flight only for a session
\* without a container, and the maps die with the host.
WakeIsForTheUntracked == waking => host = "up" /\ ~tracked
MapsDieWithHost == tracked => host = "up"

\* What ClaimsHaveOwner and CompletedWasHandled rest on: what a runner has in
\* hand, and how status, acknowledgement and progress of a row fit together.
NothingInHand ==
  runner \in {"down", "booting", "window"} \union Polling => batch = {} /\ live = {}
HeldRowsAreOpenToAck ==
  \A m \in batch \union live : status[m] \in {"pending", "completed"}
HeldRowsWerePrompted ==
  runner \in {"query", "hung", "replying"} => \A m \in batch \union live : turn[m] # "none"
AckFitsRow ==
  \A m \in Rows :
    /\ ack[m] # "none" => status[m] # "none"
    /\ ack[m] = "completed" => status[m] \in {"pending", "completed"} /\ turn[m] # "none"
    /\ status[m] = "completed" => ack[m] = "completed"

\* What KilledForOwnSilence rests on: a Bash call that runs is declared, the
\* heartbeat file is the container's own, and so are the claims it has in hand.
RunningIsDeclared == running # 0 => bash = running
OwnHeartbeat == beat # Absent => beat = quiet
OwnClaims == beat = Absent => \A m \in Claims \intersect batch : claimAge[m] <= quiet

\* All of it together, the inductive invariant of the module: the two maps of
\* the host, the process, what it has in hand and the two tables agree.
SessionInvariant ==
  /\ TypeOK
  /\ ClaimsHaveOwner /\ TrackedCoversRunner
  /\ WakeIsForTheUntracked /\ MapsDieWithHost
  /\ NothingInHand /\ HeldRowsAreOpenToAck /\ HeldRowsWerePrompted
  /\ AckFitsRow
  /\ RunningIsDeclared /\ OwnHeartbeat /\ OwnClaims

\* The host never resets or fails a row under a live container.
\* (resetStuckProcessingRows is reached only past killContainer or with no
\* entry in activeContainers.)
ResetOnlyWithoutRunner ==
  [][(tries' # tries \/ \E m \in Rows : status'[m] = "failed" /\ status[m] # "failed")
       => runner' = "down"]_vars

\* A row that was given up stays given up, and is never prompted again, even
\* though its claim outlives the container.
GivenUpIsFinal ==
  [][\A m \in Rows : status[m] = "failed" => status'[m] = "failed" /\ turn'[m] = turn[m]]_vars

\* A completed acknowledgement is never withdrawn, so an acknowledged row is
\* never claimed or prompted a second time across restarts of the container.
AckIsFinal ==
  [][\A m \in Rows : ack[m] = "completed" => ack'[m] = "completed"]_vars

\* The exception of KilledForOwnSilence: a container that the sweep has just
\* woken is judged before it can clear the claims of its predecessor.
JudgedByPredecessor == runner = "booting" /\ Claims # {}

\* A live container is killed only for a silence of its own: counted from its
\* start or its last event, that is longer than the tolerance, and longer than
\* the timeout of a Bash call that is running.  What a predecessor left in the
\* session directory (heartbeat file, container_state, claims over restarts of
\* either side) does not kill it, with one exception.  (spawnContainer, the
\* tool hooks, clearStaleProcessingAcks, decideStuckAction)
KilledForOwnSilence ==
  [][sweep = "resuming" /\ sweep' = "killing" /\ runner # "down" =>
       quiet > Larger(ClaimStuck, running) \/ JudgedByPredecessor]_vars

\* Seen from outside, a row is handled as soon as it is acknowledged.
Outcome ==
  [m \in Rows |-> IF status[m] = "none" THEN "absent"
                  ELSE IF ack[m] = "completed" THEN "handled"
                  ELSE IF status[m] = "failed" THEN "dropped" ELSE "open"]

Ledger == INSTANCE InboundLedger WITH Messages <- Rows, outcome <- Outcome

\* The session implements the ledger: no interleaving of acknowledgement,
\* sync, crash, retry and give-up settles a row twice, retries a settled row
\* or drops one before its tries are used up.
ImplementsLedger == Ledger!Spec

\* A claim outlives its row: it belongs to a row already given up.
Poisoned == \E m \in Claims : status[m] = "failed"

\* The poll does not see the row: newer rows that are due fill the limit, none
\* of them engages the agent, and no open query is there to take them.
Hidden(m) ==
  /\ m \in DueForRunner \ Newest
  /\ PendingMessages = Newest /\ ~Engages(Newest)
  /\ runner \notin {"query", "hung", "replying"}

\* Every row that engages the agent is eventually completed or given up, unless
\* context rows hide it, or a given-up row keeps an open claim in the session.
\* A row that comes into view again is owed the same from then on.  (wake on
\* arrival, the sweep's wake, the poll loop and its push timer, the limit of
\* the poll, retries)
EngagingRowsSettle ==
  \A m \in Rows :
    (status[m] = "pending" /\ kind[m] # "context")
      ~> (status[m] \in {"completed", "failed"} \/ Poisoned \/ Hidden(m))
=============================================================================
