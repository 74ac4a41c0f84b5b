----------------------------- MODULE Containers -----------------------------
(***************************************************************************)
(* The processes that run the agent of ONE session, told apart: the wake   *)
(* in flight, the entry in activeContainers, the docker client (or the     *)
(* host-mode child) with its error and close events, the runner behind it, *)
(* and what outlives the host process (container-runner.ts,                *)
(* container-runtime.ts, session-rotation/index.ts, host-sweep.ts).        *)
(*                                                                         *)
(* SessionQueue follows the rows of a session and takes one container for  *)
(* granted; here the rows are reduced to the resume prompt of end_session, *)
(* and the questions are how many runners there are, who has a hold on     *)
(* them, and which conversation they carry on.                             *)
(***************************************************************************)
EXTENDS Naturals

CONSTANTS
  Slots,      \* bound: processes at one time; large enough never to bind
  MaxFaults   \* bound: exits, kills, failed spawns, wakes and stops, host stops

ASSUME SlotsAssumption == Slots \in Nat \ {0}
ASSUME MaxFaultsAssumption == MaxFaults \in Nat

VARIABLES
  up,        \* the host process runs
  waking,    \* wakePromises: doWake calls in flight
  entry,     \* activeContainers: the run the host tracks, 0 for none
  status,    \* sessions.container_status, in the central database
  run,       \* the processes of the session
  store,     \* session_state: the context to continue
  end,       \* the end_session request: none, asked or done
  resume,    \* its resume row: none, waiting (processAfter), due, taken
  restored,  \* history: a context from before the request was stored after it
  taken,     \* history: the context that received the resume prompt
  faults     \* what is left of MaxFaults

hostVars == <<up, waking, entry, status>>
endVars == <<store, end, resume, restored, taken>>
vars == <<hostVars, run, endVars, faults>>

Runs == 1..Slots
Mode == {"container", "host"}
\* live: the child process runs; failed: it could not be spawned and the error
\* event is due; closing: it is gone and the close event is due.
Client == {"none", "live", "failed", "closing", "closed"}
\* pending: started, not yet running; stopping: it has been sent SIGTERM.
Runner == {"none", "pending", "live", "stopping"}
\* old: begun before end_session was called; new: begun after.
Context == {"none", "old", "new"}
Process == [mode : Mode, client : Client, runner : Runner, context : Context, held : BOOLEAN]
NoRun == [mode |-> "container", client |-> "none", runner |-> "none",
          context |-> "none", held |-> TRUE]

Alive(i) == run[i].runner \in {"live", "stopping"}
Started(i) == run[i].runner # "none"

\* A process of which nothing is left, and whose events are over, is forgotten.
Settled(r) == IF r.runner = "none" /\ r.client \in {"none", "closed"} THEN NoRun ELSE r
Gone(r) == Settled([r EXCEPT !.runner = "none", !.context = "none"])

Fault == faults > 0 /\ faults' = faults - 1

-----------------------------------------------------------------------------
(* Wake and spawn *)

\* Mutant of Wake: only the map is looked at, not the wake in flight.
WakeAgain ==
  /\ up /\ entry = 0
  /\ waking' = waking + 1
  /\ UNCHANGED <<up, entry, status, run, endVars, faults>>

\* wakeContainer: a no-op when the session is tracked or a wake is in flight.
Wake ==
  /\ up /\ entry = 0 /\ waking = 0
  /\ waking' = waking + 1
  /\ UNCHANGED <<up, entry, status, run, endVars, faults>>

\* doWake finds no agent group or throws before the spawn; finally() clears the promise.
WakeFails ==
  /\ up /\ waking > 0 /\ Fault
  /\ waking' = waking - 1
  /\ UNCHANGED <<up, entry, status, run, endVars>>

\* sweepSession, step 2: due rows and nothing running.
SweepWakes == resume = "due" /\ Wake

\* spawnContainer and spawnHostRunner behind their awaits: spawn, set, mark; the
\* promise is done. The error event of a spawn that fails is still to come.
Spawn(i, mode, ok) ==
  /\ up /\ waking > 0
  /\ run[i] = NoRun /\ \A j \in Runs : j < i => run[j] # NoRun
  /\ run' = [run EXCEPT ![i] = [mode |-> mode, context |-> "none", held |-> TRUE,
                                client |-> IF ok THEN "live" ELSE "failed",
                                runner |-> IF ok THEN "pending" ELSE "none"]]
  /\ IF ok THEN UNCHANGED faults ELSE Fault
  /\ entry' = i
  /\ status' = "running"
  /\ waking' = waking - 1
  /\ UNCHANGED <<up, endVars>>

-----------------------------------------------------------------------------
(* The runner *)

\* The stored context, or one it begins.
Continued ==
  CASE store # "none" -> store
    [] store = "none" /\ end = "none" -> "old"
    [] OTHER -> "new"

\* main of the runner enters runPollLoop, which continues its context.
StartUp(i) ==
  /\ run[i].runner = "pending"
  /\ run' = [run EXCEPT ![i].runner = "live", ![i].context = Continued]
  /\ UNCHANGED <<hostVars, endVars, faults>>

\* It never boots (no image, no runtime), or exits by itself.
RunnerExits(i) ==
  /\ Started(i) /\ Fault
  /\ run' = [run EXCEPT ![i] = Gone(@)]
  /\ UNCHANGED <<hostVars, endVars>>

\* SIGTERM takes effect.
TermExit(i) ==
  /\ run[i].runner = "stopping"
  /\ run' = [run EXCEPT ![i] = Gone(@)]
  /\ UNCHANGED <<hostVars, endVars, faults>>

\* An init event of the provider, at the start of a turn, stores the context.
InitEvent(i) ==
  /\ run[i].runner = "live" /\ store # run[i].context
  /\ store' = run[i].context
  /\ restored' = (restored \/ (end # "none" /\ run[i].context = "old"))
  /\ UNCHANGED <<hostVars, run, end, resume, taken, faults>>

\* Mutant of AskEnd: session_state is left as it is.
AskEndOnly(i) ==
  /\ run[i].runner = "live" /\ end = "none"
  /\ end' = "asked"
  /\ UNCHANGED <<hostVars, run, store, resume, restored, taken, faults>>

\* The end_session tool clears session_state, then asks the host to kill and resume.
AskEnd(i) ==
  /\ run[i].runner = "live" /\ end = "none"
  /\ store' = "none"
  /\ end' = "asked"
  /\ UNCHANGED <<hostVars, run, resume, restored, taken, faults>>

\* The poll loop claims the resume row once processAfter has passed.
TakeResume(i) ==
  /\ run[i].runner = "live" /\ resume = "due"
  /\ resume' = "taken"
  /\ taken' = IF run[i].held THEN run[i].context ELSE "none"
  /\ UNCHANGED <<hostVars, run, store, end, restored, faults>>

-----------------------------------------------------------------------------
(* The events of the child process *)

\* docker run returns with its container; a host-mode child is the runner.
ClientEnds(i) ==
  /\ up /\ run[i].client = "live" /\ ~Started(i)
  /\ run' = [run EXCEPT ![i].client = "closing"]
  /\ UNCHANGED <<hostVars, endVars, faults>>

\* Both handlers delete the entry by session id, whichever run it is of: the
\* host loses its hold on a successor.
Dropped(i) == {entry} \ {0, i}

\* The error event of a failed spawn; Node emits close after it.
ErrorEvent(i) ==
  /\ up /\ run[i].client = "failed"
  /\ run' = [j \in Runs |-> CASE j = i -> [run[j] EXCEPT !.client = "closing"]
                              [] j \in Dropped(i) -> [run[j] EXCEPT !.held = FALSE]
                              [] OTHER -> run[j]]
  /\ entry' = 0
  /\ status' = "stopped"
  /\ UNCHANGED <<up, waking, endVars, faults>>

\* Mutant of CloseEvent: it spares the entry of a successor, not its status.
CloseOwn(i) ==
  /\ up /\ run[i].client = "closing"
  /\ run' = [run EXCEPT ![i] = Settled([@ EXCEPT !.client = "closed"])]
  /\ entry' = IF entry = i THEN 0 ELSE entry
  /\ status' = "stopped"
  /\ UNCHANGED <<up, waking, endVars, faults>>

\* Mutant of CloseEvent: the entry outlives the process.
CloseKeepsEntry(i) ==
  /\ up /\ run[i].client = "closing"
  /\ run' = [run EXCEPT ![i] = Settled([@ EXCEPT !.client = "closed"])]
  /\ status' = "stopped"
  /\ UNCHANGED <<up, waking, entry, endVars, faults>>

CloseEvent(i) ==
  /\ up /\ run[i].client = "closing"
  /\ run' = [j \in Runs |-> CASE j = i -> Settled([run[j] EXCEPT !.client = "closed"])
                              [] j \in Dropped(i) -> [run[j] EXCEPT !.held = FALSE]
                              [] OTHER -> run[j]]
  /\ entry' = 0
  /\ status' = "stopped"
  /\ UNCHANGED <<up, waking, endVars, faults>>

-----------------------------------------------------------------------------
(* Kill, by the sweep, an approved change or end_session *)

\* What killContainer leaves of the run: a host-mode child is sent SIGTERM;
\* docker stop has waited for the container when it returns; when it throws (no
\* such container yet, or docker fails) only the client is killed, and what it
\* was about to start or has started goes its own way.
Killed(r, stopped) ==
  CASE r.client # "live" -> r
    [] r.client = "live" /\ r.mode = "host" ->
         IF r.runner = "none" THEN r ELSE [r EXCEPT !.runner = "stopping"]
    [] r.client = "live" /\ r.mode = "container" ->
         IF stopped /\ r.runner = "live" THEN Gone(r)
         ELSE [r EXCEPT !.client = "closing", !.held = (r.runner = "none")]

\* The entry stays until the close event.
KillContainer(stopped) ==
  /\ run' = [i \in Runs |-> IF i = entry THEN Killed(run[i], stopped) ELSE run[i]]
  /\ UNCHANGED entry

\* The sweep's ceiling or claim rule, or a change of the agent group.
Kill(stopped) ==
  /\ up /\ entry # 0 /\ Fault
  /\ KillContainer(stopped)
  /\ UNCHANGED <<up, waking, status, endVars>>

\* handleEndSession: kills whichever run is there by now, then writes the row.
EndSession(stopped) ==
  /\ up /\ end = "asked"
  /\ KillContainer(stopped)
  /\ end' = "done"
  /\ resume' = "waiting"
  /\ UNCHANGED <<up, waking, status, store, restored, taken, faults>>

\* processAfter, five seconds on.
ResumeDue ==
  /\ resume = "waiting"
  /\ resume' = "due"
  /\ UNCHANGED <<hostVars, run, store, end, restored, taken, faults>>

-----------------------------------------------------------------------------
(* The host *)

\* A crash or shutdown(): the maps die with the process; containers and
\* host-mode children do not (nothing stops them, and the unit says
\* KillMode=process). The next host knows of containers only.
HostStops ==
  /\ up /\ Fault
  /\ up' = FALSE
  /\ waking' = 0 /\ entry' = 0
  /\ run' = [i \in Runs |-> IF run[i] = NoRun THEN NoRun
                            ELSE Settled([run[i] EXCEPT !.client = "closed",
                                            !.held = (@ /\ run[i].mode = "container")])]
  /\ UNCHANGED <<status, endVars>>

\* main() up to the polls. cleanupOrphans stops the running containers of this
\* install; those whose stop throws and those not yet running stay behind.
HostStart(left) ==
  LET orphans == {i \in Runs : run[i].mode = "container" /\ run[i].runner = "live"}
  IN  /\ ~up
      /\ up' = TRUE
      /\ left \subseteq orphans
      /\ run' = [i \in Runs |-> IF i \in orphans \ left THEN Gone(run[i])
                                ELSE IF Started(i) THEN [run[i] EXCEPT !.held = FALSE]
                                ELSE run[i]]
      /\ IF left = {} THEN UNCHANGED faults ELSE Fault
      /\ UNCHANGED <<waking, entry, status, endVars>>

-----------------------------------------------------------------------------
Init ==
  /\ up = TRUE /\ waking = 0 /\ entry = 0 /\ status = "stopped"
  /\ run = [i \in Runs |-> NoRun]
  /\ store = "none" /\ end = "none" /\ resume = "none"
  /\ restored = FALSE /\ taken = "none" /\ faults = MaxFaults

SpawnAny == \E i \in Runs, mode \in Mode, ok \in BOOLEAN : Spawn(i, mode, ok)
ChildEvent(i) == ClientEnds(i) \/ ErrorEvent(i) \/ CloseEvent(i)
EndAny == \E stopped \in BOOLEAN : EndSession(stopped)
HostStartAny == \E left \in SUBSET Runs : HostStart(left)

Next ==
  \/ Wake \/ WakeFails \/ SweepWakes \/ SpawnAny
  \/ \E i \in Runs : \/ StartUp(i) \/ RunnerExits(i) \/ TermExit(i)
                     \/ InitEvent(i) \/ AskEnd(i) \/ TakeResume(i) \/ ChildEvent(i)
  \/ \E stopped \in BOOLEAN : Kill(stopped)
  \/ EndAny \/ ResumeDue \/ HostStops \/ HostStartAny

Spec == Init /\ [][Next]_vars

\* The event loop delivers what is pending, docker run and SIGTERM come to an
\* end, the service manager restarts the host, timers fire, the poll loop and
\* the delivery poll go round. Nothing is assumed of wakes by new messages,
\* end_session calls, init events and faults.
Fairness ==
  /\ \A i \in Runs : /\ WF_vars(StartUp(i)) /\ WF_vars(TermExit(i))
                     /\ WF_vars(TakeResume(i)) /\ WF_vars(ChildEvent(i))
  /\ WF_vars(SpawnAny) /\ WF_vars(EndAny) /\ WF_vars(ResumeDue)
  /\ WF_vars(SweepWakes) /\ WF_vars(HostStartAny)

FairSpec == Spec /\ Fairness

-----------------------------------------------------------------------------
(* Properties *)

TypeOK ==
  /\ up \in BOOLEAN /\ waking \in Nat /\ entry \in 0..Slots
  /\ status \in {"running", "stopped"}
  /\ run \in [Runs -> Process]
  /\ store \in Context /\ end \in {"none", "asked", "done"}
  /\ resume \in {"none", "waiting", "due", "taken"}
  /\ restored \in BOOLEAN /\ taken \in Context /\ faults \in 0..MaxFaults

\* Two runners never work on the session directory at once, whatever wakes,
\* kills, events, crashes and restarts come together, except one the host has
\* lost its hold on: its docker stop threw, a late event of another run deleted
\* its entry, or it came up or lived on behind cleanupOrphans.
OneRunner ==
  \A i, j \in Runs : Alive(i) /\ run[i].held /\ Alive(j) /\ run[j].held => i = j

\* A runner the host has a hold on is polled for its output every second:
\* getRunningSessions selects by container_status, which the spawn and the
\* events write without looking at each other.
RunnerIsPolled ==
  \A i \in Runs : Alive(i) /\ run[i].held => status = "running"

\* end_session resumes "with a fresh context window": a runner in the host's
\* hold takes the resume prompt in a context begun before the request only if
\* an init event stored that context again between the request and the kill.
FreshResume == taken = "old" => restored

\* The resume prompt reaches a runner, across kills, failed spawns, lost entries
\* and restarts of the host.
ResumeReachesRunner == resume = "waiting" ~> resume = "taken"
=============================================================================
