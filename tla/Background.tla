----------------------------- MODULE Background -----------------------------
(***************************************************************************)
(* What the agent of one session does between messages: the tasks it gives *)
(* to the local worker (mcp-tools/local-worker/) and its deep work session *)
(* (mcp-tools/deep-work.ts), with the part of the poll loop that picks     *)
(* both up (poll-loop.ts).                                                 *)
(*                                                                         *)
(* Two processes meet in the files of the agent's directory.  The tools    *)
(* process takes a task, waits for a slot of the endpoint, calls it, and   *)
(* writes a file into worker-results/; the poll loop looks there between   *)
(* messages and while a query is open, deletes what it finds and puts it   *)
(* before the agent.  deep_work.json is read by both.                      *)
(*                                                                         *)
(* One endpoint; the rows of the session are reduced to "a message waits". *)
(***************************************************************************)
EXTENDS Naturals, Sequences, FiniteSets

CONSTANTS
  Tasks,          \* worker tasks
  LoopTasks,      \* those that name tools and run in the agent loop
  MaxConcurrent,  \* max_concurrent of the endpoint
  MaxIterations,  \* max_iterations of the agent loop
  Deadlines,      \* the deadlines start_deep_work may be given
  MaxFaults       \* bound: exits of a process, failed queries, torn files

ASSUME TasksAssumption == LoopTasks \subseteq Tasks
ASSUME LimitsAssumption ==
  MaxConcurrent \in Nat \ {0} /\ MaxIterations \in Nat \ {0} /\ MaxFaults \in Nat

VARIABLES
  task,       \* worker-tasks/<id>.json: its status, or none
  result,     \* worker-results/<id>.json: its status, or none
  work,       \* where the worker of a task stands
  turns,      \* iterations its agent loop has begun
  wait,       \* the queue of each semaphore
  free,       \* the slots each semaphore has left
  told,       \* history: how often a task was taken from worker-results/
  loop,       \* the poll loop: idle, open (a query is), post, deep, pause
  after,      \* what the open query was opened by
  busy,       \* the agent is in a turn of the open query
  mail,       \* what waits in messages_in: none, context (trigger = 0), message
  routed,     \* lastRouting: a message was taken since the runner booted
  session,    \* deep_work.json: none, or the time left to the deadline
  errors,     \* consecutiveErrors of the continuation loop
  faults      \* what is left of MaxFaults

workerVars == <<work, turns, wait, free>>
fileVars == <<task, result, told>>
loopVars == <<loop, after, busy, mail, routed, errors>>
vars == <<workerVars, fileVars, loopVars, session, faults>>

\* dispatch.ts and agent-loop.ts keep one map of semaphores each, so a task
\* that names tools and one that does not never wait for each other.
Map == {"single", "loop"}
MapOf(t) == IF t \in LoopTasks THEN "loop" ELSE "single"

Ended == {"completed", "failed", "timeout"}
\* asking: the request is out and the timer runs; reading: the headers are in,
\* the timer is cleared and the body is awaited; calling: the tools of a turn
\* run, no slot is held; written: the result is on file, postProcessResult is
\* next.
Work == {"idle", "queued", "asking", "reading", "calling", "written", "done", "lost"}
Holds(t, m) == MapOf(t) = m /\ \/ work[t] \in {"asking", "reading"}
                               \/ work[t] = "written" /\ m = "single"

\* The tools process is single threaded: between the two writes of a result it
\* does nothing else.
Free == \A t \in Tasks : work[t] # "written"

Open == loop = "open"
Fault == faults > 0 /\ faults' = faults - 1

\* long: more than half an hour is left; unset: deadline_time was not a time, so
\* that every comparison with it is false.
Left == {"long", "short", "over", "unset"}

ASSUME DeadlinesAssumption == Deadlines \subseteq Left

-----------------------------------------------------------------------------
(* The worker *)

\* Semaphore.acquire: a slot, or the end of the queue.
Acquire(t, phase) ==
  LET m == MapOf(t) IN
  IF free[m] > 0
  THEN /\ work' = [phase EXCEPT ![t] = "asking"]
       /\ free' = [free EXCEPT ![m] = @ - 1]
       /\ UNCHANGED wait
  ELSE /\ work' = [phase EXCEPT ![t] = "queued"]
       /\ wait' = [wait EXCEPT ![m] = Append(@, t)]
       /\ UNCHANGED free

\* Mutant of Release: the slot is handed on and counted as free as well.
ReleaseTwice(t, phase) ==
  LET m == MapOf(t) IN
  /\ free' = [free EXCEPT ![m] = @ + 1]
  /\ IF wait[m] = <<>>
     THEN work' = phase /\ UNCHANGED wait
     ELSE /\ work' = [phase EXCEPT ![Head(wait[m])] = "asking"]
          /\ wait' = [wait EXCEPT ![m] = Tail(@)]

\* Mutant of Release: the slot is freed and nobody is woken.
ReleaseQuietly(t, phase) ==
  /\ free' = [free EXCEPT ![MapOf(t)] = @ + 1]
  /\ work' = phase
  /\ UNCHANGED wait

\* Semaphore.release: the slot goes to the head of the queue.
Release(t, phase) ==
  LET m == MapOf(t) IN
  IF wait[m] = <<>>
  THEN /\ free' = [free EXCEPT ![m] = @ + 1]
       /\ work' = phase
       /\ UNCHANGED wait
  ELSE /\ work' = [phase EXCEPT ![Head(wait[m])] = "asking"]
       /\ wait' = [wait EXCEPT ![m] = Tail(@)]
       /\ UNCHANGED free

\* writeTaskState, then postProcessResult for what completed: the other process
\* can look at the directory in between.
Write(t, status) == result' = [result EXCEPT ![t] = status]

\* dispatch_worker: the task file, and the worker up to its first await. A tool
\* name the registry does not know fails the task at once.
Dispatch(t, known) ==
  /\ Free /\ Open /\ busy /\ work[t] = "idle" /\ task[t] = "none"
  /\ task' = [task EXCEPT ![t] = "pending"]
  /\ IF known
     THEN Acquire(t, work) /\ UNCHANGED result
     ELSE /\ t \in LoopTasks
          /\ Write(t, "failed")
          /\ work' = [work EXCEPT ![t] = "done"]
          /\ UNCHANGED <<wait, free>>
  /\ turns' = [turns EXCEPT ![t] = 1]
  /\ UNCHANGED <<told, loopVars, session, faults>>

\* The headers of the answer clear the timer.
Headers(t) ==
  /\ Free /\ work[t] = "asking"
  /\ work' = [work EXCEPT ![t] = "reading"]
  /\ UNCHANGED <<turns, wait, free, fileVars, loopVars, session, faults>>

\* A single-shot call ends: abort, network error or HTTP error, output that
\* does not parse, output that does. finally() gives the slot back.
SingleEnds(t, status) ==
  /\ Free /\ t \notin LoopTasks
  /\ \/ status = "timeout" /\ work[t] = "asking"
     \/ status = "failed" /\ work[t] \in {"asking", "reading"}
     \/ status = "completed" /\ work[t] = "reading"
  /\ Write(t, status)
  /\ IF status = "completed"
     THEN work' = [work EXCEPT ![t] = "written"] /\ UNCHANGED <<wait, free>>
     ELSE Release(t, [work EXCEPT ![t] = "done"])
  /\ UNCHANGED <<turns, task, told, loopVars, session, faults>>

\* A turn of the agent loop ends: the slot goes back first; then tool calls to
\* run, or the end of the loop and its result.
TurnAnswered(t, status) ==
  /\ Free /\ t \in LoopTasks
  /\ \/ status = "timeout" /\ work[t] = "asking"
     \/ status = "failed" /\ work[t] \in {"asking", "reading"}
     \/ status \in {"completed", "calls"} /\ work[t] = "reading"
  /\ Release(t, [work EXCEPT ![t] = CASE status = "calls" -> "calling"
                                      [] status = "completed" -> "written"
                                      [] OTHER -> "done"])
  /\ IF status = "calls" THEN UNCHANGED result ELSE Write(t, status)
  /\ UNCHANGED <<turns, task, told, loopVars, session, faults>>

\* The tool calls of a turn are over: the deadline, the limit of iterations, or
\* the next turn.
NextTurn(t, late) ==
  /\ Free /\ work[t] = "calling"
  /\ IF ~late /\ turns[t] < MaxIterations
     THEN /\ Acquire(t, work)
          /\ turns' = [turns EXCEPT ![t] = @ + 1]
          /\ UNCHANGED result
     ELSE /\ \/ late /\ turns[t] < MaxIterations /\ Write(t, "timeout")
             \/ turns[t] = MaxIterations /\ \E s \in {"completed", "failed"} : Write(t, s)
          /\ work' = [work EXCEPT ![t] = IF result'[t] = "completed" THEN "written" ELSE "done"]
          /\ UNCHANGED <<turns, wait, free>>
  /\ UNCHANGED <<task, told, loopVars, session, faults>>

\* postProcessResult writes the article and swallows what it throws; what it
\* finds wrong with it comes too late for the file. finally() gives the slot back.
PostProcess(t) ==
  /\ work[t] = "written"
  /\ IF t \in LoopTasks
     THEN work' = [work EXCEPT ![t] = "done"] /\ UNCHANGED <<wait, free>>
     ELSE Release(t, [work EXCEPT ![t] = "done"])
  /\ UNCHANGED <<turns, fileVars, loopVars, session, faults>>

\* cancel_worker rewrites the task file; the worker goes on.
Cancel(t) ==
  /\ Free /\ Open /\ busy /\ task[t] = "pending"
  /\ task' = [task EXCEPT ![t] = "cancelled"]
  /\ UNCHANGED <<workerVars, result, told, loopVars, session, faults>>

\* What the end of the tools process leaves: the files.
ToolsGone ==
  /\ work' = [t \in Tasks |-> IF work[t] \in {"idle", "done"} THEN work[t] ELSE "lost"]
  /\ wait' = [m \in Map |-> <<>>]
  /\ free' = [m \in Map |-> MaxConcurrent]

ToolsExit ==
  /\ Fault /\ ToolsGone
  /\ UNCHANGED <<turns, fileVars, loopVars, session>>

-----------------------------------------------------------------------------
(* The poll loop *)

\* A row wakes the runner or is written under it.
MailArrives ==
  /\ mail # "message"
  /\ mail' \in {"context", "message"}
  /\ UNCHANGED <<workerVars, fileVars, loop, after, busy, routed, errors, session, faults>>

Query(by) == loop' = "open" /\ after' = by /\ busy' = TRUE

\* A batch that is all commands, or that the pre-task scripts hold back, opens no
\* query; whom to answer is known all the same.
SkipBatch ==
  /\ loop = "idle" /\ mail = "message"
  /\ mail' = "none" /\ routed' = TRUE
  /\ UNCHANGED <<workerVars, fileVars, loop, after, busy, errors, session, faults>>

\* Any other batch with a message opens one, with the context before it; an open
\* query is pushed whatever is there.
TakeMail ==
  /\ mail' = "none"
  /\ \/ loop = "idle" /\ mail = "message" /\ Query("batch") /\ routed' = TRUE
     \/ Open /\ mail # "none" /\ busy' = TRUE /\ UNCHANGED <<loop, after, routed>>
  /\ UNCHANGED <<workerVars, fileVars, errors, session, faults>>

\* A turn ends with a result event; the stream stays open for pushes.
TurnEnds ==
  /\ Open /\ busy
  /\ busy' = FALSE
  /\ UNCHANGED <<workerVars, fileVars, loop, after, mail, routed, errors, session, faults>>

\* The stream ends by itself, or with an error, which the continuation loop
\* counts.
QueryEnds(ok) ==
  /\ Open
  /\ busy' = FALSE /\ after' = "idle"
  /\ loop' = CASE after = "batch" -> "post"
               [] after \in {"results", "deep"} -> "deep"
               [] after = "idle" -> "idle"
  /\ errors' = IF ok \/ after # "deep" THEN 0 ELSE errors + 1
  /\ IF ok THEN UNCHANGED faults ELSE Fault
  /\ UNCHANGED <<workerVars, fileVars, mail, routed, session>>

Ready == {t \in Tasks : result[t] \in Ended}

\* Mutant of Collect: the file stays.
CollectKeeps ==
  /\ Ready # {}
  /\ told' = [t \in Tasks |-> IF t \in Ready /\ told[t] < 2 THEN told[t] + 1 ELSE told[t]]
  /\ UNCHANGED result
  /\ task' = [t \in Tasks |-> IF t \in Ready THEN "none" ELSE task[t]]

\* checkWorkerResults: deletes the results it can read and their task files, and
\* makes one prompt of them.
Collect ==
  /\ Ready # {}
  /\ told' = [t \in Tasks |-> IF t \in Ready /\ told[t] < 2 THEN told[t] + 1 ELSE told[t]]
  /\ result' = [t \in Tasks |-> IF t \in Ready THEN "none" ELSE result[t]]
  /\ task' = [t \in Tasks |-> IF t \in Ready THEN "none" ELSE task[t]]

\* Idle, with no row pending, not even one of context: a query of their own, or
\* nothing when no message has been taken yet.
CollectIdle ==
  /\ loop = "idle" /\ mail = "none"
  /\ Collect
  /\ IF routed THEN Query("idle") ELSE UNCHANGED <<loop, after, busy>>
  /\ UNCHANGED <<workerVars, mail, routed, errors, session, faults>>

\* The timer of an open query pushes them.
CollectOpen ==
  /\ Open
  /\ Collect
  /\ busy' = TRUE
  /\ UNCHANGED <<workerVars, loop, after, mail, routed, errors, session, faults>>

\* After the query of a batch: a query of their own, then the continuation loop.
CollectPost ==
  /\ loop = "post"
  /\ \/ Collect /\ Query("results")
     \/ Ready = {} /\ loop' = "deep" /\ UNCHANGED <<fileVars, after, busy>>
  /\ UNCHANGED <<workerVars, mail, routed, errors, session, faults>>

-----------------------------------------------------------------------------
(* Deep work *)

\* checkDeepWorkContinuation has a prompt.
Continues == session \in {"long", "short", "unset"}

\* finalizeExpiredDeepWork: it asks whether time remains, and NaN does not.
Finalize == session' = IF session \in {"over", "unset"} THEN "none" ELSE session

\* start_deep_work, in a turn of the agent.
StartDeepWork(left) ==
  /\ Free /\ Open /\ busy /\ session = "none"
  /\ session' = left
  /\ UNCHANGED <<workerVars, fileVars, loopVars, faults>>

\* update_deep_work rewrites the file in place: a process that ends in the middle
\* leaves one that does not parse, which reads as no session.
UpdateTorn ==
  /\ Free /\ Open /\ busy /\ session # "none" /\ Fault
  /\ session' = "none"
  /\ ToolsGone
  /\ UNCHANGED <<turns, fileVars, loopVars>>

\* end_deep_work refuses while more than half an hour is left.
EndDeepWork ==
  /\ Free /\ Open /\ busy /\ session \in {"short", "over", "unset"}
  /\ session' = "none"
  /\ UNCHANGED <<workerVars, fileVars, loopVars, faults>>

\* Mutant of Leave: the session is finalized at idle only.
LeaveAtOnce ==
  /\ loop' = "idle"
  /\ UNCHANGED <<after, busy, session>>

\* Out of the continuation loop, through finalization.
Leave ==
  /\ loop' = "idle"
  /\ Finalize
  /\ UNCHANGED <<after, busy>>

\* The loop after a batch: a pause and another turn, unless three turns in a row
\* failed, the session is over or a message has come.
DeepStep ==
  /\ \/ /\ loop = "deep" /\ errors < 3 /\ Continues
        /\ loop' = "pause" /\ UNCHANGED <<after, busy, session>>
     \/ loop = "deep" /\ (errors = 3 \/ ~Continues) /\ Leave
     \/ loop = "pause" /\ mail = "message" /\ Leave
     \/ loop = "pause" /\ mail # "message" /\ Query("deep") /\ UNCHANGED session
  /\ UNCHANGED <<workerVars, fileVars, mail, routed, errors, faults>>

\* Idle: continue or finalize, once there is somebody to tell.
IdleStep ==
  /\ loop = "idle" /\ mail = "none" /\ Ready = {} /\ routed
  /\ \/ Continues /\ Query("idle") /\ UNCHANGED session
     \/ session = "over" /\ Finalize /\ UNCHANGED <<loop, after, busy>>
  /\ UNCHANGED <<workerVars, fileVars, mail, routed, errors, faults>>

\* The deadline draws near.
Tick ==
  /\ session \in {"long", "short"}
  /\ session' = IF session = "long" THEN "short" ELSE "over"
  /\ UNCHANGED <<workerVars, fileVars, loopVars, faults>>

\* The runner is killed or exits, its tools process with it, and another boots.
Restart ==
  /\ Fault /\ ToolsGone
  /\ loop' = "idle" /\ after' = "idle" /\ busy' = FALSE /\ routed' = FALSE
  /\ errors' = 0
  /\ UNCHANGED <<turns, fileVars, mail, session>>

-----------------------------------------------------------------------------
Init ==
  /\ task = [t \in Tasks |-> "none"] /\ result = task
  /\ work = [t \in Tasks |-> "idle"] /\ turns = [t \in Tasks |-> 0]
  /\ wait = [m \in Map |-> <<>>] /\ free = [m \in Map |-> MaxConcurrent]
  /\ told = turns
  /\ loop = "idle" /\ after = "idle" /\ busy = FALSE
  /\ mail = "none" /\ routed = FALSE
  /\ session = "none" /\ errors = 0 /\ faults = MaxFaults

Answered(t) ==
  \/ Headers(t)
  \/ \E s \in Ended : SingleEnds(t, s)
  \/ \E s \in Ended \union {"calls"} : TurnAnswered(t, s)
  \/ \E late \in BOOLEAN : NextTurn(t, late)
  \/ PostProcess(t)

LoopStep == SkipBatch \/ TakeMail \/ CollectIdle \/ CollectOpen \/ CollectPost \/ DeepStep \/ IdleStep

Next ==
  \/ \E t \in Tasks : (\E known \in BOOLEAN : Dispatch(t, known)) \/ Answered(t) \/ Cancel(t)
  \/ ToolsExit \/ Restart
  \/ MailArrives \/ LoopStep \/ TurnEnds \/ \E ok \in BOOLEAN : QueryEnds(ok)
  \/ \E left \in Deadlines : StartDeepWork(left)
  \/ UpdateTorn \/ EndDeepWork \/ Tick

Spec == Init /\ [][Next]_vars

\* The endpoint answers to the end (nothing bounds the time a body may take) and
\* tools return; the poll loop goes round, and a query that is open lasts longer
\* than the 500 ms of its timer; the clock runs.  Nothing is assumed of
\* messages, of what the agent does, of the end of a query, and of faults.
Fairness ==
  /\ \A t \in Tasks : WF_vars(Answered(t))
  /\ WF_vars(LoopStep) /\ SF_vars(CollectOpen) /\ WF_vars(Tick)

FairSpec == Spec /\ Fairness

-----------------------------------------------------------------------------
(* Properties *)

TypeOK ==
  /\ task \in [Tasks -> {"none", "pending", "cancelled"}]
  /\ result \in [Tasks -> Ended \union {"none"}]
  /\ work \in [Tasks -> Work] /\ turns \in [Tasks -> 0..MaxIterations]
  /\ wait \in [Map -> Seq(Tasks)] /\ free \in [Map -> 0..MaxConcurrent]
  /\ told \in [Tasks -> 0..2]
  /\ loop \in {"idle", "open", "post", "deep", "pause"}
  /\ after \in {"idle", "batch", "results", "deep"}
  /\ busy \in BOOLEAN /\ mail \in {"none", "context", "message"} /\ routed \in BOOLEAN
  /\ session \in Left \union {"none"} /\ errors \in 0..3 /\ faults \in 0..MaxFaults

\* The slots of each semaphore are the calls it has out and those it has left,
\* and nobody waits while there is one: however calls end, and whatever ends
\* between two writes of a result, no slot is lost or given twice.
SlotsAccounted ==
  \A m \in Map :
    /\ free[m] + Cardinality({t \in Tasks : Holds(t, m)}) = MaxConcurrent
    /\ wait[m] # <<>> => free[m] = 0

\* The agent is told of a task at most once, across the three places that look
\* for results, restarts, and a cancel of what is already on file.
ReportedOnce == \A t \in Tasks : told[t] <= 1

\* Batches that open no query, one after another for ever, keep the loop from
\* everything else.
SkipsEnd == <>[][~SkipBatch]_vars

\* "Results will auto-surface when complete": the result of a task is taken from
\* its file, unless the process that worked on it came to an end, or a row of
\* context keeps the idle poll loop from looking, or skipped batches do.
WorkerSettles ==
  SkipsEnd => \A t \in Tasks :
    work[t] # "idle" ~> told[t] > 0 \/ work[t] = "lost" \/ (loop = "idle" /\ mail = "context")

\* An expired deep work session is finalized, as long as queries keep coming to
\* an end with a message taken before, and neither a context row nor skipped
\* batches stand in the way.
DeepWorkEnds ==
  SkipsEnd /\ []<>(~Open /\ routed /\ mail # "context") => (session = "over" ~> session # "over")
=============================================================================
