------------------------------- MODULE Scheduling -------------------------------
(***************************************************************************)
(* Scheduled tasks of one session (src/modules/scheduling): a task is a    *)
(* row of messages_in, a recurring task is a series of rows that share a   *)
(* series_id, one row per occurrence.  The agent schedules, cancels,       *)
(* pauses, resumes and updates tasks through system messages the delivery  *)
(* poll applies; the container claims and acknowledges due rows; the sweep *)
(* copies acknowledgements, gives rows up, and inserts the next occurrence *)
(* of every completed row that still carries a recurrence.                 *)
(*                                                                         *)
(* A step is a stretch of host code without an await; the import of a      *)
(* module that is not loaded yet is an await as well.  When a row is due,  *)
(* which container activity acknowledges it and how often it was retried   *)
(* are left open here (SessionQueue has them); cron expressions are valid. *)
(***************************************************************************)
EXTENDS Integers, FiniteSets

CONSTANTS
  MaxOcc,     \* bound on the task rows ever written
  MaxFaults   \* bound on host crashes and database errors together

ASSUME SchedulingAssumption == MaxOcc \in Nat /\ MaxFaults \in Nat

Occ == 1..MaxOcc     \* a row is named by the order of its seq

VARIABLES
  status,      \* messages_in.status, "none" before the insert
  recurs,      \* messages_in.recurrence IS NOT NULL
  series,      \* messages_in.series_id: the first row of the series, or 0
  ack,         \* processing_ack.status, "none" when there is no row
  runner,      \* is a container up
  sweep,       \* where sweepSession is
  todo,        \* the completed rows handleRecurrence has read and not handled
  current,     \* the row whose next occurrence has just been inserted, or 0
  host,        \* is the host process up
  expected,    \* history: the series the agent was told will recur
  wish,        \* history: what the agent last asked of the series
  interrupted, \* history: series whose clearRecurrence never ran
  faults       \* history: crashes and database errors so far

rows    == <<status, recurs, series>>
fanout  == <<sweep, todo, current>>
history == <<expected, wish, interrupted>>
vars == <<rows, ack, runner, fanout, host, history, faults>>

TypeOK ==
  /\ status \in [Occ -> {"none", "pending", "paused", "completed", "failed"}]
  /\ recurs \in [Occ -> BOOLEAN]
  /\ series \in [Occ -> Occ \union {0}]
  /\ ack \in [Occ -> {"none", "processing", "completed"}]
  /\ runner \in {"up", "down"}
  /\ sweep \in {"idle", "awaiting", "resumed", "importing", "looping", "inserted"}
  /\ todo \in SUBSET Occ
  /\ current \in Occ \union {0}
  /\ host \in {"up", "down"}
  /\ expected \in SUBSET Occ
  /\ wish \in [Occ -> {"none", "on", "paused", "cancelled"}]
  /\ interrupted \in SUBSET Occ
  /\ faults \in 0..MaxFaults

-----------------------------------------------------------------------------
(* The statements of db.ts.                                                *)

Written == {m \in Occ : status[m] # "none"}

\* status IN ('pending', 'paused')
Live == {m \in Occ : status[m] \in {"pending", "paused"}}

\* id = ? OR series_id = ?
Named(t) == {m \in Written : m = t \/ series[m] = t}

\* Mutant of Insert: the new row carries no recurrence.
InsertOneShot(n, r, s) ==
  /\ status[n] = "none"
  /\ \A k \in Occ : k < n => status[k] # "none"
  /\ status' = [status EXCEPT ![n] = "pending"]
  /\ recurs' = [recurs EXCEPT ![n] = r /\ s = n]
  /\ series' = [series EXCEPT ![n] = s]

\* insertTask and insertRecurrence; seq comes from nextEvenSeq.
Insert(n, r, s) ==
  /\ status[n] = "none"
  /\ \A k \in Occ : k < n => status[k] # "none"
  /\ status' = [status EXCEPT ![n] = "pending"]
  /\ recurs' = [recurs EXCEPT ![n] = r]
  /\ series' = [series EXCEPT ![n] = s]

\* getCompletedRecurring
Recurring == {m \in Written : status[m] = "completed" /\ recurs[m]}

\* Mutant of Synced: a claim is taken for an acknowledgement.
SyncedWithClaims == [m \in Occ |-> IF ack[m] # "none" THEN "completed" ELSE status[m]]

\* syncProcessingAcks
Synced == [m \in Occ |-> IF ack[m] = "completed" THEN "completed" ELSE status[m]]

-----------------------------------------------------------------------------
(* The agent's requests, applied by a delivery poll whenever the host is   *)
(* not in the middle of a synchronous stretch of the sweep.  A request     *)
(* that matches no row changes no task row.                                *)

HostFree == host = "up" /\ sweep \in {"idle", "awaiting", "importing", "looping"}

\* schedule_task, as handleScheduleTask applies it.
ScheduleTask(n, r) ==
  /\ HostFree
  /\ Insert(n, r, n)
  /\ expected' = IF r THEN expected \union {n} ELSE expected
  /\ wish' = [wish EXCEPT ![n] = "on"]
  /\ UNCHANGED <<ack, runner, fanout, host, interrupted, faults>>

\* Mutant of CancelTask: the recurrence stays on the cancelled row.
CancelKeepsRecurrence(t) ==
  /\ HostFree /\ t \in Written
  /\ LET hit == Named(t) \intersect Live
     IN  /\ status' = [m \in Occ |-> IF m \in hit THEN "completed" ELSE status[m]]
         /\ wish' = [wish EXCEPT ![series[t]] = IF hit # {} THEN "cancelled" ELSE @]
  /\ expected' = expected \ {series[t]}
  /\ UNCHANGED <<recurs, series, ack, runner, fanout, host, interrupted, faults>>

\* handleCancelTask; the agent is not told when no row matched.
CancelTask(t) ==
  /\ HostFree /\ t \in Written
  /\ LET hit == Named(t) \intersect Live
     IN  /\ status' = [m \in Occ |-> IF m \in hit THEN "completed" ELSE status[m]]
         /\ recurs' = [m \in Occ |-> recurs[m] /\ m \notin hit]
         /\ wish' = [wish EXCEPT ![series[t]] = IF hit # {} THEN "cancelled" ELSE @]
  /\ expected' = expected \ {series[t]}
  /\ UNCHANGED <<series, ack, runner, fanout, host, interrupted, faults>>

\* handlePauseTask
PauseTask(t) ==
  /\ HostFree /\ t \in Written
  /\ LET hit == {m \in Named(t) : status[m] = "pending"}
     IN  /\ hit # {}
         /\ status' = [m \in Occ |-> IF m \in hit THEN "paused" ELSE status[m]]
  /\ wish' = [wish EXCEPT ![series[t]] = "paused"]
  /\ UNCHANGED <<recurs, series, ack, runner, fanout, host, expected, interrupted, faults>>

\* handleResumeTask
ResumeTask(t) ==
  /\ HostFree /\ t \in Written
  /\ LET hit == {m \in Named(t) : status[m] = "paused"}
     IN  /\ hit # {}
         /\ status' = [m \in Occ |-> IF m \in hit THEN "pending" ELSE status[m]]
  /\ wish' = [wish EXCEPT ![series[t]] = "on"]
  /\ UNCHANGED <<recurs, series, ack, runner, fanout, host, expected, interrupted, faults>>

\* handleUpdateTask with a new recurrence, or with null.
UpdateTask(t, r) ==
  /\ HostFree /\ t \in Written
  /\ LET hit == Named(t) \intersect Live
     IN  /\ hit # {}
         /\ recurs' = [m \in Occ |-> IF m \in hit THEN r ELSE recurs[m]]
  /\ expected' = IF r THEN expected \union {series[t]} ELSE expected \ {series[t]}
  /\ UNCHANGED <<status, series, ack, runner, fanout, host, wish, interrupted, faults>>

-----------------------------------------------------------------------------
(* The container.                                                          *)

\* A wake succeeds, and the new container clears the claims it finds.
StartContainer ==
  /\ HostFree /\ runner = "down"
  /\ runner' = "up"
  /\ ack' = [m \in Occ |-> IF ack[m] = "processing" THEN "none" ELSE ack[m]]
  /\ UNCHANGED <<rows, fanout, host, history, faults>>

\* Rows the container can see: pending, and not yet in processing_ack.
Claimable == {m \in Occ : status[m] = "pending" /\ ack[m] = "none"}

\* markProcessing for a batch.
Claim(S) ==
  /\ runner = "up" /\ S # {} /\ S \subseteq Claimable
  /\ ack' = [m \in Occ |-> IF m \in S THEN "processing" ELSE ack[m]]
  /\ UNCHANGED <<rows, runner, fanout, host, history, faults>>

\* markCompleted: the claimed rows whose turn is over, or rows that were
\* pushed into an open query.
Acknowledge(S) ==
  /\ runner = "up" /\ S # {}
  /\ S \subseteq Claimable \union {m \in Occ : ack[m] = "processing"}
  /\ ack' = [m \in Occ |-> IF m \in S THEN "completed" ELSE ack[m]]
  /\ UNCHANGED <<rows, runner, fanout, host, history, faults>>

\* The container exits; its claims stay behind.
ContainerStops ==
  /\ runner = "up"
  /\ runner' = "down"
  /\ UNCHANGED <<rows, ack, fanout, host, history, faults>>

-----------------------------------------------------------------------------
(* The sweep.                                                              *)

\* Steps 1 and 2: acknowledgements are copied, a wake may be awaited.
SweepBegin ==
  /\ host = "up" /\ sweep = "idle"
  /\ status' = Synced
  /\ \/ sweep' = "resumed"
     \/ runner = "down" /\ sweep' = "awaiting"
  /\ UNCHANGED <<recurs, series, ack, runner, todo, current, host, history, faults>>

\* Mutant of SweepResumes: after a throw the timer is not armed again.
SweepNotRearmed ==
  /\ host = "up" /\ sweep = "awaiting"
  /\ \/ sweep' = "resumed" /\ UNCHANGED faults
     \/ sweep' = "stopped" /\ faults < MaxFaults /\ faults' = faults + 1
  /\ UNCHANGED <<rows, ack, runner, todo, current, host, history>>

\* The awaited wake is over; one that threw takes the rest of the sweep with it.
SweepResumes ==
  /\ host = "up" /\ sweep = "awaiting"
  /\ \/ sweep' = "resumed" /\ UNCHANGED faults
     \/ sweep' = "idle" /\ faults < MaxFaults /\ faults' = faults + 1
  /\ UNCHANGED <<rows, ack, runner, todo, current, host, history>>

\* Steps 3 and 4: the container may be killed; of the claims left without a
\* container, those that have used up their tries fail.  Nobody tells the agent.
SweepResets(F) ==
  /\ host = "up" /\ sweep = "resumed"
  /\ runner' \in {runner, "down"}
  /\ F \subseteq {m \in Occ : ack[m] = "processing" /\ status[m] = "pending"}
  /\ F # {} => runner' = "down"
  /\ status' = [m \in Occ |-> IF m \in F THEN "failed" ELSE status[m]]
  /\ sweep' = "importing"
  /\ UNCHANGED <<recurs, series, ack, todo, current, host, history, faults>>

\* Step 5: handleRecurrence reads the completed rows.
ReadRecurring ==
  /\ host = "up" /\ sweep = "importing"
  /\ todo' = Recurring
  /\ sweep' = IF Recurring = {} THEN "idle" ELSE "looping"
  /\ UNCHANGED <<rows, ack, runner, current, host, history, faults>>

\* insertRecurrence copies kind, content, recurrence and series_id.
InsertNext(m, n) ==
  /\ host = "up" /\ sweep = "looping" /\ m \in todo
  /\ Insert(n, TRUE, series[m])
  /\ todo' = todo \ {m}
  /\ current' = m
  /\ sweep' = "inserted"
  /\ UNCHANGED <<ack, runner, host, history, faults>>

NextInLoop == IF todo = {} THEN "idle" ELSE "looping"

\* Mutant of ClearRecurrence: the statement is missing.
ClearsNothing ==
  /\ host = "up" /\ sweep = "inserted"
  /\ current' = 0
  /\ sweep' = NextInLoop
  /\ UNCHANGED <<rows, ack, runner, todo, host, history, faults>>

\* clearRecurrence, in the same stretch of code.
ClearRecurrence ==
  /\ host = "up" /\ sweep = "inserted"
  /\ recurs' = [recurs EXCEPT ![current] = FALSE]
  /\ current' = 0
  /\ sweep' = NextInLoop
  /\ UNCHANGED <<status, series, ack, runner, todo, host, history, faults>>

\* clearRecurrence throws; the loop logs it and goes on.
ClearFails ==
  /\ host = "up" /\ sweep = "inserted" /\ faults < MaxFaults
  /\ faults' = faults + 1
  /\ interrupted' = interrupted \union {series[current]}
  /\ current' = 0
  /\ sweep' = NextInLoop
  /\ UNCHANGED <<rows, ack, runner, todo, host, expected, wish>>

\* insertRecurrence throws; the row waits for the next sweep.
InsertFails(m) ==
  /\ host = "up" /\ sweep = "looping" /\ m \in todo /\ faults < MaxFaults
  /\ faults' = faults + 1
  /\ todo' = todo \ {m}
  /\ sweep' = IF todo = {m} THEN "idle" ELSE "looping"
  /\ UNCHANGED <<rows, ack, runner, current, host, history>>

HostCrash ==
  /\ host = "up" /\ faults < MaxFaults
  /\ faults' = faults + 1
  /\ host' = "down"
  /\ interrupted' = interrupted \union
       (IF sweep = "inserted" THEN {series[current]} ELSE {})
  /\ sweep' = "idle" /\ todo' = {} /\ current' = 0
  /\ UNCHANGED <<rows, ack, runner, expected, wish>>

\* cleanupOrphans stops the container on the way up.
HostStart ==
  /\ host = "down"
  /\ host' = "up"
  /\ runner' = "down"
  /\ UNCHANGED <<rows, ack, fanout, history, faults>>

-----------------------------------------------------------------------------

Init ==
  /\ status = [m \in Occ |-> "none"]
  /\ recurs = [m \in Occ |-> FALSE]
  /\ series = [m \in Occ |-> 0]
  /\ ack = [m \in Occ |-> "none"]
  /\ runner = "down" /\ host = "up"
  /\ sweep = "idle" /\ todo = {} /\ current = 0
  /\ expected = {} /\ interrupted = {}
  /\ wish = [m \in Occ |-> "none"]
  /\ faults = 0

\* The requests of the agent's tools, rows of messages_out, as the delivery applies
\* them: an omitted recurrence of update_task changes nothing here, an empty one
\* ends the series.
AgentNext ==
  \/ \E n \in Occ, r \in BOOLEAN : ScheduleTask(n, r) \/ UpdateTask(n, r)
  \/ \E t \in Occ : CancelTask(t) \/ PauseTask(t) \/ ResumeTask(t)

ContainerNext ==
  \/ StartContainer \/ ContainerStops
  \/ \E S \in SUBSET Occ : Claim(S) \/ Acknowledge(S)

SweepNext ==
  \/ SweepBegin \/ SweepResumes \/ ReadRecurring
  \/ \E F \in SUBSET Occ : SweepResets(F)
  \/ \E m \in Occ, n \in Occ : InsertNext(m, n)
  \/ ClearRecurrence \/ ClearFails
  \/ \E m \in Occ : InsertFails(m)
  \/ HostCrash \/ HostStart

Next == AgentNext \/ ContainerNext \/ SweepNext

Spec == Init /\ [][Next]_vars

(* Fairness: the host is restarted, the sweep's timer keeps firing, an     *)
(* awaited wake ends and the loop goes on.  Nothing is assumed of the      *)
(* agent or the container.                                                 *)
SweepMoves ==
  \/ SweepBegin \/ SweepResumes \/ ReadRecurring \/ ClearRecurrence
  \/ \E F \in SUBSET Occ : SweepResets(F)
  \/ \E m \in Occ, n \in Occ : InsertNext(m, n)

FairSpec == Spec /\ WF_vars(HostStart) /\ WF_vars(SweepMoves)

-----------------------------------------------------------------------------
(* Properties.                                                             *)

\* What can still give rise to a run: a live row, or a completed one whose
\* next occurrence is not inserted yet.
Stems == Live \union Recurring

\* The rows given up while they carried a recurrence: step 5 follows completed
\* rows only, so that their series ends and the agent is not told.
GivenUp == {m \in Written : status[m] = "failed" /\ recurs[m]}

\* A series the agent was told will recur is not lost: some row carries its
\* recurrence on, unless the row that did was given up after MAX_TRIES.  (insert
\* before clear, sync, crash, update)
SeriesNeverLost ==
  \A s \in expected : \E m \in Stems \union GivenUp : series[m] = s /\ recurs[m]

\* Occurrences do not multiply: unless clearRecurrence was cut off once, a
\* series has one stem, besides the row whose successor was just inserted.
OneStemPerSeries ==
  \A m, n \in Stems \ {current} :
    series[m] = series[n] /\ series[m] \notin interrupted => m = n

\* The next occurrence follows only an occurrence the agent really handled.
\* (cancelled rows are completed too, and must not be taken for handled ones)
NextFollowsARun == \A m \in Recurring : ack[m] = "completed"

\* What newly goes to the agent in a step.
Started == {m \in Occ : ack[m] = "none" /\ ack'[m] # "none"}

\* A cancel that found its row is final: the series never runs again.
CancelThatHitHolds ==
  [][\A m \in Started : wish[series[m]] = "cancelled" => series[m] \in interrupted]_vars

\* What these rest on: the snapshot of the loop stays valid over its awaits,
\* an inserted row belongs to a series, a given-up one is never acknowledged.
SnapshotIsRecurring == todo \subseteq Recurring
CurrentIsRecurring ==
  /\ sweep = "inserted" =>
       /\ current \in Recurring /\ current \notin todo
       /\ \E n \in Live : series[n] = series[current] /\ recurs[n]
  /\ sweep # "inserted" => current = 0
  /\ sweep \notin {"looping", "inserted"} => todo = {}
SeriesOfWritten ==
  /\ \A m \in Occ : status[m] # "none" => series[m] \in Written
  /\ \A m \in Written : series[series[m]] = series[m]
  /\ \A m \in Occ : status[m] = "none" => ack[m] = "none" /\ wish[m] = "none"
FailedIsNotAcked ==
  \A m \in Occ : status[m] = "failed" =>
    ack[m] # "completed" /\ (runner = "up" => ack[m] = "none")
CancelledHasNoStem ==
  \A m \in Stems : wish[series[m]] = "cancelled" => series[m] \in interrupted

\* The inductive invariant of the module.
SchedulingInvariant ==
  /\ TypeOK
  /\ SeriesOfWritten /\ FailedIsNotAcked
  /\ SnapshotIsRecurring /\ CurrentIsRecurring
  /\ NextFollowsARun /\ SeriesNeverLost /\ OneStemPerSeries /\ CancelledHasNoStem

\* The occurrence after a completed one is inserted in the end.  (the sweep's
\* timer, the loop over what it read, crashes in between)
RoomLeft == \E n \in Occ : status[n] = "none"
RecurrenceHandled == \A m \in Occ : m \in Recurring /\ RoomLeft ~> (m \notin Recurring \/ ~RoomLeft)
=============================================================================
