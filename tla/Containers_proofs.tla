-------------------------- MODULE Containers_proofs --------------------------
(***************************************************************************)
(* What Containers guarantees for every number of processes and of faults. *)
(***************************************************************************)
EXTENDS Containers, TLAPS

-----------------------------------------------------------------------------
(* The inductive invariant *)

\* A runner is at work and nobody has lost hold of it.
HeldRunner(i) == Started(i) /\ run[i].held

\* A wake is in flight only while nothing is tracked, and only one.
OneWake == waking <= 1 /\ (waking = 1 => up /\ entry = 0)

\* The tracked run is marked as running.
EntryIsMarked == entry # 0 => up /\ status = "running"

\* While the host runs, the held runner is the one it tracks, behind a live
\* client.
HeldIsTracked == up => \A i \in Runs : HeldRunner(i) => entry = i /\ run[i].client = "live"

\* While it does not, the one it held is left alone and still marked.
HeldIsLeft ==
  ~up => \A i, j \in Runs : /\ HeldRunner(i) => status = "running"
                            /\ HeldRunner(i) /\ HeldRunner(j) => i = j

HoldInvariant == TypeOK /\ OneWake /\ EntryIsMarked /\ HeldIsTracked /\ HeldIsLeft

\* After end_session was asked for, the old context is in the store, or in a held
\* runner that takes rows after the kill, only if it was stored again.
ContextInvariant ==
  /\ end # "none" /\ store = "old" => restored
  /\ resume # "none" => end = "done"
  /\ \A i \in Runs : end = "done" /\ run[i].held /\ run[i].runner = "live"
                       /\ run[i].context = "old" => restored
  /\ FreshResume
-----------------------------------------------------------------------------
(* Types *)

\* What is left of a process is a process.
LEMMA ProcessForms ==
  /\ NoRun \in Process
  /\ \A r \in Process : Settled(r) \in Process /\ Gone(r) \in Process
  /\ \A r \in Process, stopped \in BOOLEAN : Killed(r, stopped) \in Process
<1>1. NoRun \in Process
  BY DEF NoRun, Process, Mode, Client, Runner, Context
<1>2. ASSUME NEW r \in Process PROVE Settled(r) \in Process /\ Gone(r) \in Process
  <2>1. ASSUME NEW s \in Process PROVE Settled(s) \in Process
    BY <1>1 DEF Settled
  <2>2. [r EXCEPT !.runner = "none", !.context = "none"] \in Process
    BY DEF Process, Runner, Context
  <2> QED
    BY <2>1, <2>2 DEF Gone
<1>3. ASSUME NEW r \in Process, NEW stopped \in BOOLEAN PROVE Killed(r, stopped) \in Process
  <2>1. [r EXCEPT !.runner = "stopping"] \in Process
    BY DEF Process, Mode, Client, Runner, Context
  <2>2. [r EXCEPT !.client = "closing", !.held = (r.runner = "none")] \in Process
    BY DEF Process, Mode, Client, Runner, Context
  <2> QED
    BY <1>2, <2>1, <2>2 DEF Killed, Process, Mode, Client
<1> QED
  BY <1>1, <1>2, <1>3

\* No process appears in it that was not there, and a hold is not regained.
LEMMA RemainsHeld ==
  /\ NoRun.runner = "none"
  /\ \A r \in Process : /\ Gone(r).runner = "none"
                        /\ Settled(r).runner = r.runner
                        /\ r.runner # "none" => Settled(r) = r
  /\ \A r \in Process, stopped \in BOOLEAN :
       Killed(r, stopped).runner # "none" /\ Killed(r, stopped).held
         => /\ r.runner # "none" /\ r.held
            /\ Killed(r, stopped).client = r.client
            /\ Killed(r, stopped).context = r.context
            /\ r.client = "live" => Killed(r, stopped).runner = "stopping"
<1>1. NoRun.runner = "none"
  BY DEF NoRun
<1>2. ASSUME NEW r \in Process
      PROVE  Gone(r).runner = "none" /\ Settled(r).runner = r.runner /\ (r.runner # "none" => Settled(r) = r)
  BY <1>1 DEF Gone, Settled, Process
<1>3. ASSUME NEW r \in Process, NEW stopped \in BOOLEAN,
             Killed(r, stopped).runner # "none", Killed(r, stopped).held
      PROVE  /\ r.runner # "none" /\ r.held
             /\ Killed(r, stopped).client = r.client
             /\ Killed(r, stopped).context = r.context
             /\ r.client = "live" => Killed(r, stopped).runner = "stopping"
  <2>1. CASE r.client # "live"
    BY <1>3, <2>1 DEF Killed
  <2>2. CASE r.client = "live" /\ r.mode = "host"
    BY <1>3, <2>2 DEF Killed, Process
  <2>3. CASE r.client = "live" /\ r.mode = "container"
    BY <1>2, <1>3, <2>3 DEF Killed, Process
  <2> QED
    BY <2>1, <2>2, <2>3 DEF Process, Mode
<1> QED
  BY <1>1, <1>2, <1>3

\* Every step keeps every variable in its type.
LEMMA TypeInductive == TypeOK /\ [Next]_vars => TypeOK'
<1> SUFFICES ASSUME TypeOK, [Next]_vars PROVE TypeOK'
  OBVIOUS
<1> USE SlotsAssumption, MaxFaultsAssumption, ProcessForms DEF TypeOK, Runs
<1>1. CASE Wake \/ SweepWakes
  BY <1>1 DEF Wake, SweepWakes, endVars
<1>2. CASE WakeFails
  BY <1>2 DEF WakeFails, Fault, endVars
<1>3. ASSUME NEW i \in Runs, NEW mode \in Mode, NEW ok \in BOOLEAN, Spawn(i, mode, ok)
      PROVE  TypeOK'
  BY <1>3 DEF Spawn, Fault, endVars, Process, Client, Runner, Context
<1>4. ASSUME NEW i \in Runs, StartUp(i) PROVE TypeOK'
  <2>1. Continued \in Context
    BY DEF Continued, Context
  <2>2. [run[i] EXCEPT !.runner = "live", !.context = Continued] \in Process
    BY <2>1 DEF Process, Runner
  <2>3. run' \in [Runs -> Process]
    BY <1>4, <2>2 DEF StartUp
  <2> QED
    BY <1>4, <2>3 DEF StartUp, hostVars, endVars
<1>5. ASSUME NEW i \in Runs, RunnerExits(i) \/ TermExit(i) PROVE TypeOK'
  BY <1>5 DEF RunnerExits, TermExit, Fault, hostVars, endVars
<1>6. ASSUME NEW i \in Runs, InitEvent(i) \/ AskEnd(i) \/ TakeResume(i) PROVE TypeOK'
  BY <1>6 DEF InitEvent, AskEnd, TakeResume, hostVars, Process, Context
<1>7. ASSUME NEW i \in Runs, ClientEnds(i) PROVE TypeOK'
  BY <1>7 DEF ClientEnds, hostVars, endVars, Process, Client
<1>8. ASSUME NEW i \in Runs, ErrorEvent(i) \/ CloseEvent(i) PROVE TypeOK'
  <2>1. \A j \in Runs : /\ [run[j] EXCEPT !.client = "closing"] \in Process
                        /\ [run[j] EXCEPT !.client = "closed"] \in Process
                        /\ [run[j] EXCEPT !.held = FALSE] \in Process
    BY DEF Process, Client
  <2>2. run' \in [Runs -> Process]
    BY <1>8, <2>1 DEF ErrorEvent, CloseEvent
  <2> QED
    BY <1>8, <2>2 DEF ErrorEvent, CloseEvent, endVars
<1>9. ASSUME NEW stopped \in BOOLEAN, Kill(stopped) \/ EndSession(stopped) PROVE TypeOK'
  BY <1>9 DEF Kill, EndSession, KillContainer, Fault, endVars
<1>10. CASE ResumeDue
  BY <1>10 DEF ResumeDue, hostVars
<1>11. CASE HostStops
  <2>1. \A j \in Runs : [run[j] EXCEPT !.client = "closed",
                           !.held = (@ /\ run[j].mode = "container")] \in Process
    BY DEF Process, Client
  <2>2. run' \in [Runs -> Process]
    BY <1>11, <2>1 DEF HostStops
  <2>3. up' \in BOOLEAN
    BY <1>11, Zenon DEF HostStops
  <2>4. UNCHANGED <<status, endVars>> /\ waking' = 0 /\ entry' = 0 /\ Fault
    BY <1>11 DEF HostStops
  <2> QED
    BY <2>2, <2>3, <2>4 DEF Fault, endVars
<1>12. ASSUME NEW left \in SUBSET Runs, HostStart(left) PROVE TypeOK'
  <2>1. \A j \in Runs : [run[j] EXCEPT !.held = FALSE] \in Process
    BY DEF Process
  <2>2. run' \in [Runs -> Process]
    BY <1>12, <2>1 DEF HostStart
  <2> QED
    BY <1>12, <2>2 DEF HostStart, Fault, endVars
<1>13. CASE UNCHANGED vars
  BY <1>13 DEF vars, hostVars, endVars
<1> QED
  BY <1>1, <1>2, <1>3, <1>4, <1>5, <1>6, <1>7, <1>8, <1>9, <1>10, <1>11, <1>12, <1>13
     DEF Next, SpawnAny, ChildEvent, EndAny, HostStartAny
-----------------------------------------------------------------------------
(* The hold on runners *)

\* A step in which no runner comes into the hold, and the host's tables stay.
LEMMA HoldKept ==
  ASSUME HoldInvariant, TypeOK', UNCHANGED <<up, waking, entry, status>>,
         \A i \in Runs : HeldRunner(i)' => HeldRunner(i) /\ run'[i].client = run[i].client
  PROVE  HoldInvariant'
BY DEF HoldInvariant, OneWake, EntryIsMarked, HeldIsTracked, HeldIsLeft

\* An error or close event takes holds and processes away and adds neither.
LEMMA EventKeeps ==
  ASSUME TypeOK, NEW i \in Runs, ErrorEvent(i) \/ CloseEvent(i),
         NEW j \in Runs, run'[j].runner # "none", run'[j].held
  PROVE  /\ j \notin Dropped(i)
         /\ run[j].held /\ run'[j].runner = run[j].runner /\ run'[j].context = run[j].context
<1> DEFINE closed == [run[i] EXCEPT !.client = "closed"]
           closing == [run[i] EXCEPT !.client = "closing"]
<1>1. run \in [Runs -> Process]
  BY DEF TypeOK
<1>2. CASE j = i
  <2>1. /\ closed \in Process /\ closed.runner = run[i].runner
        /\ closed.held = run[i].held /\ closed.context = run[i].context
    BY <1>1 DEF Process, Client
  <2>2. /\ closing.runner = run[i].runner
        /\ closing.held = run[i].held /\ closing.context = run[i].context
    BY <1>1 DEF Process
  <2>3. i \notin Dropped(i)
    BY DEF Dropped
  <2>4. run'[i] = closing \/ run'[i] = Settled(closed)
    BY <2>3 DEF ErrorEvent, CloseEvent
  <2> HIDE DEF closed, closing
  <2>5. run'[i] = closing \/ run'[i] = closed
    BY <1>2, <2>1, <2>4, RemainsHeld
  <2> QED
    BY <1>2, <2>1, <2>2, <2>3, <2>5
<1>3. CASE j # i /\ j \in Dropped(i)
  <2>1. run'[j] = [run[j] EXCEPT !.held = FALSE]
    BY <1>3 DEF ErrorEvent, CloseEvent
  <2> QED
    BY <1>1, <2>1 DEF Process
<1>4. CASE j # i /\ j \notin Dropped(i)
  BY <1>4 DEF ErrorEvent, CloseEvent
<1> QED
  BY <1>2, <1>3, <1>4

\* A kill leaves the runners it does not reach as they are.
LEMMA KilledLive ==
  \A r \in Process, stopped \in BOOLEAN :
    Killed(r, stopped).runner = "live" /\ Killed(r, stopped).held
      => r.held /\ r.runner = "live" /\ Killed(r, stopped).context = r.context
<1> SUFFICES ASSUME NEW r \in Process, NEW stopped \in BOOLEAN,
                    Killed(r, stopped).runner = "live", Killed(r, stopped).held
             PROVE  r.held /\ r.runner = "live" /\ Killed(r, stopped).context = r.context
  OBVIOUS
<1>1. r.client # "live" /\ r.runner # "none" /\ r.held
  BY RemainsHeld
<1> QED
  BY <1>1 DEF Killed

\* Wakes, spawns, the child's events, kills, crashes and restarts keep the hold
\* on at most one runner.
LEMMA HoldInductive == HoldInvariant /\ [Next]_vars => HoldInvariant'
<1> SUFFICES ASSUME HoldInvariant, [Next]_vars PROVE HoldInvariant'
  OBVIOUS
<1>0. TypeOK /\ TypeOK'
  BY TypeInductive DEF HoldInvariant
<1>t. /\ run \in [Runs -> Process] /\ waking \in Nat /\ entry \in 0..Slots
      /\ \A i \in Runs : i # 0
  BY <1>0 DEF TypeOK, Runs
<1> USE DEF HoldInvariant
<1>1. CASE Wake \/ SweepWakes \/ WakeFails
  BY <1>0, <1>1, <1>t DEF Wake, SweepWakes, WakeFails, endVars, HeldRunner, Started,
                          OneWake, EntryIsMarked, HeldIsTracked, HeldIsLeft
<1>2. ASSUME NEW i \in Runs, NEW mode \in Mode, NEW ok \in BOOLEAN, Spawn(i, mode, ok)
      PROVE  HoldInvariant'
  <2>1. up /\ entry = 0 /\ waking = 1
    BY <1>2, <1>t DEF Spawn, OneWake
  <2>2. up' /\ entry' = i /\ waking' = 0 /\ status' = "running"
    BY <1>2, <2>1 DEF Spawn
  <2>3. \A j \in Runs : ~HeldRunner(j)
    BY <1>t, <2>1 DEF HeldIsTracked
  <2>4. \A j \in Runs : HeldRunner(j)' => j = i /\ run'[j].client = "live"
    BY <1>2, <1>t, <2>3 DEF Spawn, HeldRunner, Started
  <2> QED
    BY <1>0, <1>t, <2>2, <2>4 DEF OneWake, EntryIsMarked, HeldIsTracked, HeldIsLeft
<1>3. ASSUME NEW i \in Runs, StartUp(i) \/ ClientEnds(i) PROVE HoldInvariant'
  <2>1. \A j \in Runs : HeldRunner(j)' => HeldRunner(j) /\ run'[j].client = run[j].client
    BY <1>3, <1>t DEF StartUp, ClientEnds, HeldRunner, Started, Process
  <2> QED
    BY <1>0, <1>3, <2>1, HoldKept DEF StartUp, ClientEnds, hostVars
<1>4. ASSUME NEW i \in Runs, RunnerExits(i) \/ TermExit(i) PROVE HoldInvariant'
  <2>1. \A j \in Runs : HeldRunner(j)' => HeldRunner(j) /\ run'[j].client = run[j].client
    BY <1>4, <1>t, RemainsHeld DEF RunnerExits, TermExit, HeldRunner, Started
  <2> QED
    BY <1>0, <1>4, <2>1, HoldKept DEF RunnerExits, TermExit, hostVars
<1>5. ASSUME NEW i \in Runs, InitEvent(i) \/ AskEnd(i) \/ TakeResume(i) PROVE HoldInvariant'
  <2>1. UNCHANGED <<hostVars, run>>
    BY <1>5 DEF InitEvent, AskEnd, TakeResume
  <2> QED
    BY <1>0, <2>1, HoldKept DEF hostVars, HeldRunner, Started
<1>6. ASSUME NEW i \in Runs, ErrorEvent(i) \/ CloseEvent(i) PROVE HoldInvariant'
  <2>1. up /\ run[i].client # "live" /\ ~HeldRunner(i)
    BY <1>6, <1>t DEF ErrorEvent, CloseEvent, HeldIsTracked
  <2>2. up' /\ entry' = 0 /\ waking' = waking
    BY <1>6, <2>1 DEF ErrorEvent, CloseEvent
  <2>3. \A j \in Runs : ~HeldRunner(j)'
    <3> SUFFICES ASSUME NEW j \in Runs, HeldRunner(j)' PROVE FALSE
      OBVIOUS
    <3>1. HeldRunner(j) /\ j \notin Dropped(i)
      BY <1>0, <1>6, EventKeeps DEF HeldRunner, Started
    <3>2. j = entry /\ j # i
      BY <2>1, <3>1 DEF HeldIsTracked
    <3> QED
      BY <1>t, <3>1, <3>2 DEF Dropped
  <2> QED
    BY <1>0, <2>1, <2>2, <2>3 DEF OneWake, EntryIsMarked, HeldIsTracked, HeldIsLeft
<1>7. ASSUME NEW stopped \in BOOLEAN, Kill(stopped) \/ EndSession(stopped) PROVE HoldInvariant'
  <2>1. \A j \in Runs : HeldRunner(j)' => HeldRunner(j) /\ run'[j].client = run[j].client
    BY <1>7, <1>t, RemainsHeld DEF Kill, EndSession, KillContainer, HeldRunner, Started
  <2> QED
    BY <1>0, <1>7, <2>1, HoldKept DEF Kill, EndSession, KillContainer
<1>8. CASE ResumeDue \/ UNCHANGED vars
  <2>1. UNCHANGED <<hostVars, run>>
    BY <1>8 DEF ResumeDue, vars
  <2> QED
    BY <1>0, <2>1, HoldKept DEF hostVars, HeldRunner, Started
<1>9. CASE HostStops
  <2>1. up /\ ~up' /\ waking' = 0 /\ entry' = 0 /\ status' = status
    BY <1>9 DEF HostStops
  <2>2. \A j \in Runs : HeldRunner(j)' => HeldRunner(j)
    <3> SUFFICES ASSUME NEW j \in Runs, HeldRunner(j)' PROVE HeldRunner(j)
      OBVIOUS
    <3> DEFINE r == [run[j] EXCEPT !.client = "closed", !.held = (@ /\ run[j].mode = "container")]
    <3>1. r \in Process /\ r.runner = run[j].runner /\ (r.held => run[j].held)
      BY <1>t DEF Process, Client
    <3>2. run'[j] = NoRun \/ run'[j] = Settled(r)
      BY <1>9 DEF HostStops
    <3> HIDE DEF r
    <3> QED
      BY <3>1, <3>2, RemainsHeld DEF HeldRunner, Started
  <2>3. \A j \in Runs : HeldRunner(j)' => j = entry /\ status = "running"
    BY <1>t, <2>1, <2>2 DEF HeldIsTracked, EntryIsMarked
  <2> QED
    BY <1>0, <2>1, <2>3 DEF OneWake, EntryIsMarked, HeldIsTracked, HeldIsLeft
<1>10. ASSUME NEW left \in SUBSET Runs, HostStart(left) PROVE HoldInvariant'
  <2>1. ~up /\ up' /\ UNCHANGED <<waking, entry, status>>
    BY <1>10 DEF HostStart
  <2>2. \A j \in Runs : ~HeldRunner(j)'
    BY <1>10, <1>t, RemainsHeld DEF HostStart, HeldRunner, Started, Process
  <2> QED
    BY <1>0, <2>1, <2>2 DEF OneWake, EntryIsMarked, HeldIsTracked, HeldIsLeft
<1> QED
  BY <1>1, <1>2, <1>3, <1>4, <1>5, <1>6, <1>7, <1>8, <1>9, <1>10
     DEF Next, SpawnAny, ChildEvent, EndAny, HostStartAny
-----------------------------------------------------------------------------
(* The context that is resumed *)

\* After the request the old context spreads only from an init event.
LEMMA ContextInductive == HoldInvariant /\ ContextInvariant /\ [Next]_vars => ContextInvariant'
<1> SUFFICES ASSUME HoldInvariant, ContextInvariant, [Next]_vars PROVE ContextInvariant'
  OBVIOUS
<1>t. /\ run \in [Runs -> Process] /\ \A i \in Runs : i # 0
      /\ store \in Context /\ end \in {"none", "asked", "done"}
  BY DEF HoldInvariant, TypeOK, Runs
<1>k. ASSUME UNCHANGED <<store, end, resume, restored, taken>>,
             \A j \in Runs : run'[j].held /\ run'[j].runner = "live" =>
               run[j].held /\ run[j].runner = "live" /\ run'[j].context = run[j].context
      PROVE  ContextInvariant'
  BY <1>k DEF ContextInvariant, FreshResume
<1>1. CASE Wake \/ SweepWakes \/ WakeFails \/ UNCHANGED vars
  BY <1>1, <1>k DEF Wake, SweepWakes, WakeFails, vars, endVars
<1>2. ASSUME NEW i \in Runs, NEW mode \in Mode, NEW ok \in BOOLEAN, Spawn(i, mode, ok)
      PROVE  ContextInvariant'
  BY <1>2, <1>t, <1>k DEF Spawn, endVars
<1>3. ASSUME NEW i \in Runs, StartUp(i) PROVE ContextInvariant'
  <2>1. end = "done" /\ Continued = "old" => restored
    BY <1>t DEF ContextInvariant, Continued, Context
  <2>2. /\ run'[i].context = Continued
        /\ \A j \in Runs : j # i => run'[j] = run[j]
    BY <1>3, <1>t DEF StartUp, Process
  <2> QED
    BY <1>3, <2>1, <2>2 DEF StartUp, endVars, ContextInvariant, FreshResume
<1>4. ASSUME NEW i \in Runs, RunnerExits(i) \/ TermExit(i) \/ ClientEnds(i) PROVE ContextInvariant'
  <2>1. \A j \in Runs : run'[j].held /\ run'[j].runner = "live" =>
          run[j].held /\ run[j].runner = "live" /\ run'[j].context = run[j].context
    BY <1>4, <1>t, RemainsHeld DEF RunnerExits, TermExit, ClientEnds, Process
  <2> QED
    BY <1>4, <1>k, <2>1 DEF RunnerExits, TermExit, ClientEnds, endVars
<1>5. ASSUME NEW i \in Runs, InitEvent(i) PROVE ContextInvariant'
  BY <1>5 DEF InitEvent, ContextInvariant, FreshResume
<1>6. ASSUME NEW i \in Runs, AskEnd(i) PROVE ContextInvariant'
  BY <1>6 DEF AskEnd, ContextInvariant, FreshResume
<1>7. ASSUME NEW i \in Runs, TakeResume(i) PROVE ContextInvariant'
  BY <1>7 DEF TakeResume, ContextInvariant, FreshResume
<1>8. ASSUME NEW i \in Runs, ErrorEvent(i) \/ CloseEvent(i) PROVE ContextInvariant'
  <2>1. \A j \in Runs : run'[j].held /\ run'[j].runner = "live" =>
          run[j].held /\ run[j].runner = "live" /\ run'[j].context = run[j].context
    BY <1>8, EventKeeps DEF HoldInvariant
  <2> QED
    BY <1>8, <1>k, <2>1 DEF ErrorEvent, CloseEvent, endVars
<1>9. ASSUME NEW stopped \in BOOLEAN, Kill(stopped) PROVE ContextInvariant'
  <2>1. \A j \in Runs : run'[j].held /\ run'[j].runner = "live" =>
          run[j].held /\ run[j].runner = "live" /\ run'[j].context = run[j].context
    BY <1>9, <1>t, KilledLive DEF Kill, KillContainer
  <2> QED
    BY <1>9, <1>k, <2>1 DEF Kill, endVars
<1>10. ASSUME NEW stopped \in BOOLEAN, EndSession(stopped) PROVE ContextInvariant'
  <2>1. ASSUME NEW j \in Runs PROVE ~(run'[j].held /\ run'[j].runner = "live")
    <3>1. CASE j = entry
      <4>1. run'[j] = Killed(run[j], stopped)
        BY <1>10, <3>1 DEF EndSession, KillContainer
      <4>2. run[j].runner # "none" /\ run[j].held => run[j].client = "live"
        BY <1>10 DEF EndSession, HoldInvariant, HeldIsTracked, HeldRunner, Started
      <4> QED
        BY <1>t, <4>1, <4>2, RemainsHeld
    <3>2. CASE j # entry
      <4>1. run'[j] = run[j]
        BY <1>10, <3>2 DEF EndSession, KillContainer
      <4>2. ~(run[j].runner # "none" /\ run[j].held)
        BY <1>10, <3>2 DEF EndSession, HoldInvariant, HeldIsTracked, HeldRunner, Started
      <4> QED
        BY <4>1, <4>2
    <3> QED
      BY <3>1, <3>2
  <2> QED
    BY <1>10, <2>1 DEF EndSession, ContextInvariant, FreshResume
<1>11. CASE ResumeDue
  BY <1>11 DEF ResumeDue, hostVars, ContextInvariant, FreshResume
<1>12. CASE HostStops
  <2>1. ASSUME NEW j \in Runs, run'[j].held, run'[j].runner = "live"
        PROVE  run[j].held /\ run[j].runner = "live" /\ run'[j].context = run[j].context
    <3> DEFINE r == [run[j] EXCEPT !.client = "closed", !.held = (@ /\ run[j].mode = "container")]
    <3>1. /\ r \in Process /\ r.runner = run[j].runner /\ r.context = run[j].context
          /\ r.held => run[j].held
      BY <1>t DEF Process, Client
    <3>2. run'[j] = NoRun \/ run'[j] = Settled(r)
      BY <1>12 DEF HostStops
    <3> HIDE DEF r
    <3> QED
      BY <2>1, <3>1, <3>2, RemainsHeld
  <2> QED
    BY <1>12, <1>k, <2>1 DEF HostStops, endVars
<1>13. ASSUME NEW left \in SUBSET Runs, HostStart(left) PROVE ContextInvariant'
  <2>1. \A j \in Runs : ~(run'[j].held /\ run'[j].runner = "live")
    BY <1>13, <1>t, RemainsHeld DEF HostStart, Started, Process
  <2> QED
    BY <1>13, <1>k, <2>1 DEF HostStart, endVars
<1> QED
  BY <1>1, <1>2, <1>3, <1>4, <1>5, <1>6, <1>7, <1>8, <1>9, <1>10, <1>11, <1>12, <1>13
     DEF Next, SpawnAny, ChildEvent, EndAny, HostStartAny

-----------------------------------------------------------------------------
(* The results *)

\* The inductive invariant holds in every reachable state.
THEOREM HoldCorrect == Spec => [](HoldInvariant /\ ContextInvariant)
<1>0. Init => up \in BOOLEAN /\ restored \in BOOLEAN
  BY Zenon DEF Init
<1>1. Init => TypeOK
  BY <1>0, SlotsAssumption, MaxFaultsAssumption, ProcessForms DEF Init, TypeOK, Context
<1>2. Init => \A i \in Runs : run[i].runner = "none"
  BY RemainsHeld DEF Init
<1>3. Init => HoldInvariant /\ ContextInvariant
  BY <1>1, <1>2 DEF Init, HoldInvariant, OneWake, EntryIsMarked, HeldIsTracked, HeldIsLeft,
                    HeldRunner, Started, ContextInvariant, FreshResume
<1> QED
  BY <1>3, HoldInductive, ContextInductive, PTL DEF Spec

\* Every variable stays in its type, for any number of processes and faults.
THEOREM TypeCorrect == Spec => []TypeOK
<1>1. HoldInvariant => TypeOK
  BY DEF HoldInvariant
<1> QED
  BY <1>1, HoldCorrect, PTL

\* No two runners in the hold of the host ever work on the session directory.
THEOREM NeverTwoRunners == Spec => []OneRunner
<1>1. HoldInvariant => OneRunner
  BY DEF HoldInvariant, OneRunner, HeldIsTracked, HeldIsLeft, HeldRunner, Started, Alive
<1> QED
  BY <1>1, HoldCorrect, PTL

\* A runner in the hold of the host is always among those polled for output.
THEOREM AlwaysPolled == Spec => []RunnerIsPolled
<1>1. HoldInvariant => RunnerIsPolled
  <2> SUFFICES ASSUME HoldInvariant, NEW i \in Runs, HeldRunner(i) PROVE status = "running"
    BY DEF RunnerIsPolled, HeldRunner, Started, Alive
  <2>1. i # 0
    BY SlotsAssumption DEF Runs
  <2> QED
    BY <2>1 DEF HoldInvariant, EntryIsMarked, HeldIsTracked, HeldIsLeft
<1> QED
  BY <1>1, HoldCorrect, PTL

\* The resume prompt meets the old context only if an init event stored it again.
THEOREM ResumeIsFresh == Spec => []FreshResume
<1>1. ContextInvariant => FreshResume
  BY DEF ContextInvariant
<1> QED
  BY <1>1, HoldCorrect, PTL
=============================================================================
