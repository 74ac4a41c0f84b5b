----------------------------- MODULE Tools_proofs -----------------------------
(***************************************************************************)
(* What the tools of the agent guarantee: the local worker and deep work   *)
(* (Background) for every number of tasks, of slots and of faults, the     *)
(* memory store (Memory) for every number of processes, rows and calls and *)
(* whatever its texts are.                                                 *)
(***************************************************************************)
EXTENDS Background, Memory, TLAPS, FiniteSetTheorems, SequenceTheorems, WellFoundedInduction

-----------------------------------------------------------------------------
(* The inductive invariant *)

Holders(m) == {t \in Tasks : Holds(t, m)}

WorkerTypes ==
  /\ work \in [Tasks -> Work]
  /\ wait \in [Map -> Seq(Tasks)]
  /\ free \in [Map -> Nat]

\* Who is in the queue of a semaphore waits, for that semaphore, in one place.
QueuedInLine ==
  \A m \in Map : \A i \in 1..Len(wait[m]) :
    /\ work[wait[m][i]] = "queued" /\ MapOf(wait[m][i]) = m
    /\ \A j \in 1..Len(wait[m]) : wait[m][i] = wait[m][j] => i = j

\* Only the agent loop calls tools. (A single call that ended in "calling" would
\* go on to "written" with a slot nobody gave it.)
CallsAreTurns == \A t \in Tasks : work[t] = "calling" => t \in LoopTasks

SlotsOf(m) ==
  /\ IsFiniteSet(Holders(m))
  /\ free[m] + Cardinality(Holders(m)) = MaxConcurrent
  /\ wait[m] # <<>> => free[m] = 0

SlotInvariant ==
  WorkerTypes /\ QueuedInLine /\ CallsAreTurns /\ \A m \in Map : SlotsOf(m)

\* Turns of a session that failed are counted up to the one that ends it.
ErrorsCounted == loop = "pause" \/ (Open /\ after = "deep") => errors < 3

\* A result is written once, at the end of the work, and what was told of is not
\* on file any more.
ResultOnce ==
  \A t \in Tasks :
    /\ told[t] > 0 => result[t] = "none" /\ told[t] = 1
    /\ told[t] > 0 \/ result[t] # "none" => work[t] \in {"written", "done", "lost"}

-----------------------------------------------------------------------------
(* Slots *)

\* One more task holds a slot of m.
LEMMA SlotGiven ==
  ASSUME NEW m \in Map, NEW t, IsFiniteSet(Holders(m)), t \notin Holders(m),
         Holders(m)' = Holders(m) \union {t}
  PROVE  IsFiniteSet(Holders(m)') /\ Cardinality(Holders(m)') = Cardinality(Holders(m)) + 1
BY FS_AddElement

\* One less.
LEMMA SlotReturned ==
  ASSUME NEW m \in Map, NEW t \in Holders(m), IsFiniteSet(Holders(m)),
         Holders(m)' = Holders(m) \ {t}
  PROVE  IsFiniteSet(Holders(m)') /\ Cardinality(Holders(m)') = Cardinality(Holders(m)) - 1
BY FS_RemoveElement

LEMMA MapOfType == \A t \in Tasks : MapOf(t) \in Map
BY DEF MapOf, Map

\* What becomes of a semaphore with which nothing happens.
LEMMA OtherMap ==
  ASSUME NEW m \in Map, SlotsOf(m), Holders(m)' = Holders(m),
         wait'[m] = wait[m], free'[m] = free[m]
  PROVE  SlotsOf(m)'
BY DEF SlotsOf

\* The work of one task, which is in no queue, moves on; its slot stays as it is.
LEMMA PhaseKeepsSlots ==
  ASSUME SlotInvariant, NEW t \in Tasks, NEW phase \in Work \ {"queued"},
         work[t] # "queued", phase = "calling" => t \in LoopTasks,
         work' = [work EXCEPT ![t] = phase], UNCHANGED <<wait, free>>,
         \A m \in Map : t \in Holders(m)' <=> t \in Holders(m)
  PROVE  SlotInvariant'
<1>1. WorkerTypes'
  BY DEF SlotInvariant, WorkerTypes
<1>2. QueuedInLine'
  BY DEF SlotInvariant, WorkerTypes, QueuedInLine
<1>3. CallsAreTurns'
  BY DEF SlotInvariant, WorkerTypes, CallsAreTurns
<1>4. ASSUME NEW m \in Map PROVE SlotsOf(m)'
  <2>1. ASSUME NEW u \in Tasks PROVE u \in Holders(m)' <=> u \in Holders(m)
    BY DEF SlotInvariant, WorkerTypes, Holders, Holds
  <2>2. Holders(m)' = Holders(m)
    BY <2>1 DEF Holders
  <2> QED
    BY <2>2, OtherMap DEF SlotInvariant
<1> QED
  BY <1>1, <1>2, <1>3, <1>4 DEF SlotInvariant

\* Semaphore.acquire keeps the account.
LEMMA AcquireKeepsSlots ==
  ASSUME SlotInvariant, NEW t \in Tasks, work[t] \in {"idle", "calling"}, Acquire(t, work)
  PROVE  SlotInvariant'
<1> DEFINE m == MapOf(t)
<1>m. m \in Map
  BY MapOfType
<1>a. \A k \in Map : t \notin Holders(k)
  BY DEF Holders, Holds
<1>1. CASE free[m] > 0
  <2>1. /\ work' = [work EXCEPT ![t] = "asking"]
        /\ free' = [free EXCEPT ![m] = @ - 1] /\ wait' = wait
    BY <1>1 DEF Acquire
  <2>2. WorkerTypes'
    BY <1>1, <1>m, <2>1 DEF SlotInvariant, WorkerTypes, Work
  <2>3. QueuedInLine' /\ CallsAreTurns'
    BY <2>1 DEF SlotInvariant, WorkerTypes, QueuedInLine, CallsAreTurns
  <2>4. SlotsOf(m)'
    <3>1. Holders(m)' = Holders(m) \union {t}
      BY <2>1 DEF SlotInvariant, WorkerTypes, Holders, Holds
    <3>2. SlotsOf(m)
      BY <1>m DEF SlotInvariant
    <3>3. IsFiniteSet(Holders(m)') /\ Cardinality(Holders(m)') = Cardinality(Holders(m)) + 1
      BY <1>m, <1>a, <3>1, <3>2, SlotGiven DEF SlotsOf
    <3>4. Cardinality(Holders(m)) \in Nat
      BY <3>2, FS_CardinalityType DEF SlotsOf
    <3>5. free[m] \in Nat /\ free'[m] = free[m] - 1 /\ wait'[m] = wait[m] /\ wait[m] = <<>>
      BY <1>1, <1>m, <2>1, <3>2 DEF SlotInvariant, WorkerTypes, SlotsOf
    <3> QED
      BY <3>2, <3>3, <3>4, <3>5 DEF SlotsOf
  <2>5. ASSUME NEW k \in Map, k # m PROVE SlotsOf(k)'
    <3>1. Holders(k)' = Holders(k)
      BY <2>1, <2>5 DEF SlotInvariant, WorkerTypes, Holders, Holds
    <3> QED
      BY <2>1, <2>5, <3>1, OtherMap DEF SlotInvariant, WorkerTypes
  <2> QED
    BY <2>2, <2>3, <2>4, <2>5 DEF SlotInvariant
<1>2. CASE ~(free[m] > 0)
  <2>1. /\ work' = [work EXCEPT ![t] = "queued"]
        /\ wait' = [wait EXCEPT ![m] = Append(@, t)] /\ free' = free
    BY <1>2 DEF Acquire
  <2>2. wait[m] \in Seq(Tasks) /\ free[m] \in Nat
    BY <1>m DEF SlotInvariant, WorkerTypes
  <2>3. WorkerTypes'
    BY <1>m, <2>1, <2>2 DEF SlotInvariant, WorkerTypes, Work
  <2>4. CallsAreTurns'
    BY <2>1 DEF SlotInvariant, WorkerTypes, CallsAreTurns
  <2>5. QueuedInLine'
    <3> SUFFICES ASSUME NEW k \in Map, NEW i \in 1..Len(wait'[k]), NEW j \in 1..Len(wait'[k])
                 PROVE  /\ work'[wait'[k][i]] = "queued" /\ MapOf(wait'[k][i]) = k
                        /\ wait'[k][i] = wait'[k][j] => i = j
      BY DEF QueuedInLine
    <3>1. CASE k # m
      BY <2>1, <3>1 DEF SlotInvariant, WorkerTypes, QueuedInLine
    <3>2. CASE k = m
      <4>1. wait'[m] = Append(wait[m], t)
        BY <1>m, <2>1 DEF SlotInvariant, WorkerTypes
      <4>2. \A l \in 1..Len(wait[m]) :
              /\ wait'[m][l] = wait[m][l] /\ wait[m][l] \in Tasks
              /\ work[wait[m][l]] = "queued" /\ MapOf(wait[m][l]) = m
        BY <1>m, <2>2, <4>1 DEF SlotInvariant, QueuedInLine
      <4>3. wait'[m][Len(wait[m]) + 1] = t /\ Len(wait'[m]) = Len(wait[m]) + 1
        BY <2>2, <4>1
      <4>4. work'[t] = "queued" /\ MapOf(t) = m
        BY <2>1 DEF SlotInvariant, WorkerTypes
      <4>5. \A l \in 1..Len(wait[m]) : wait[m][l] # t /\ work'[wait[m][l]] = "queued"
        BY <2>1, <4>2 DEF SlotInvariant, WorkerTypes
      <4>6. \A l, n \in 1..Len(wait[m]) : wait[m][l] = wait[m][n] => l = n
        BY <1>m DEF SlotInvariant, QueuedInLine
      <4>7. i \in 1..Len(wait[m]) \/ i = Len(wait[m]) + 1
        BY <2>2, <3>2, <4>3
      <4>8. j \in 1..Len(wait[m]) \/ j = Len(wait[m]) + 1
        BY <2>2, <3>2, <4>3
      <4>9. work'[wait'[k][i]] = "queued" /\ MapOf(wait'[k][i]) = k
        BY <3>2, <4>2, <4>3, <4>4, <4>5, <4>7
      <4>10. wait'[k][i] = wait'[k][j] => i = j
        BY <3>2, <4>2, <4>3, <4>5, <4>6, <4>7, <4>8
      <4> QED
        BY <4>9, <4>10
    <3> QED
      BY <3>1, <3>2
  <2>6. ASSUME NEW k \in Map PROVE SlotsOf(k)'
    <3>1. Holders(k)' = Holders(k)
      BY <1>a, <2>1 DEF SlotInvariant, WorkerTypes, Holders, Holds
    <3>2. free'[k] = free[k] /\ (k # m => wait'[k] = wait[k]) /\ (k = m => free[k] = 0)
      BY <1>2, <2>1, <2>2 DEF SlotInvariant, WorkerTypes
    <3> QED
      BY <3>1, <3>2 DEF SlotInvariant, SlotsOf
  <2> QED
    BY <2>3, <2>4, <2>5, <2>6 DEF SlotInvariant
<1> QED
  BY <1>1, <1>2

\* Semaphore.release keeps it, when what the task goes on with holds no slot.
LEMMA ReleaseKeepsSlots ==
  ASSUME SlotInvariant, NEW t \in Tasks, Holds(t, MapOf(t)),
         NEW phase \in {"calling", "written", "done"}, phase # "done" => t \in LoopTasks,
         Release(t, [work EXCEPT ![t] = phase])
  PROVE  SlotInvariant'
<1> DEFINE m == MapOf(t)
           on == [work EXCEPT ![t] = phase]
<1>m. m \in Map
  BY MapOfType
<1>a. /\ wait[m] \in Seq(Tasks) /\ free[m] \in Nat
      /\ work[t] # "queued" /\ t \in Holders(m)
      /\ \A k \in Map : k # m => t \notin Holders(k)
  BY <1>m DEF SlotInvariant, WorkerTypes, Holders, Holds
<1>b. on \in [Tasks -> Work] /\ on[t] = phase /\ \A u \in Tasks \ {t} : on[u] = work[u]
  BY DEF SlotInvariant, WorkerTypes, Work
<1>c. phase = "written" => m = "loop"
  BY DEF MapOf
<1>d. SlotsOf(m) /\ Cardinality(Holders(m)) \in Nat
  BY <1>m, FS_CardinalityType DEF SlotInvariant, SlotsOf
<1>1. CASE wait[m] = <<>>
  <2>1. free' = [free EXCEPT ![m] = @ + 1] /\ work' = on /\ wait' = wait
    BY <1>1 DEF Release
  <2>2. WorkerTypes'
    BY <1>a, <1>b, <1>m, <2>1 DEF SlotInvariant, WorkerTypes
  <2>3. QueuedInLine' /\ CallsAreTurns'
    BY <1>a, <1>b, <2>1 DEF SlotInvariant, WorkerTypes, QueuedInLine, CallsAreTurns
  <2>4. SlotsOf(m)'
    <3>1. Holders(m)' = Holders(m) \ {t}
      BY <1>b, <1>c, <2>1 DEF Holders, Holds
    <3>2. IsFiniteSet(Holders(m)') /\ Cardinality(Holders(m)') = Cardinality(Holders(m)) - 1
      BY <1>a, <1>d, <1>m, <3>1, SlotReturned DEF SlotsOf
    <3>3. free'[m] = free[m] + 1 /\ wait'[m] = <<>>
      BY <1>1, <1>m, <2>1 DEF SlotInvariant, WorkerTypes
    <3> QED
      BY <1>a, <1>d, <3>2, <3>3 DEF SlotsOf
  <2>5. ASSUME NEW k \in Map, k # m PROVE SlotsOf(k)'
    <3>1. Holders(k)' = Holders(k)
      BY <1>b, <2>1, <2>5 DEF Holders, Holds
    <3> QED
      BY <2>1, <2>5, <3>1, OtherMap DEF SlotInvariant, WorkerTypes
  <2> QED
    BY <2>2, <2>3, <2>4, <2>5 DEF SlotInvariant
<1>2. CASE wait[m] # <<>>
  <2> DEFINE h == Head(wait[m])
  <2>1. work' = [on EXCEPT ![h] = "asking"] /\ wait' = [wait EXCEPT ![m] = Tail(@)] /\ free' = free
    BY <1>2 DEF Release
  <2>2. /\ h = wait[m][1] /\ h \in Tasks /\ 1 \in 1..Len(wait[m])
        /\ Tail(wait[m]) \in Seq(Tasks) /\ Len(Tail(wait[m])) = Len(wait[m]) - 1
        /\ \A l \in 1..Len(Tail(wait[m])) : l + 1 \in 1..Len(wait[m]) /\ Tail(wait[m])[l] = wait[m][l + 1]
    BY <1>2, <1>a
  <2>3. work[h] = "queued" /\ MapOf(h) = m /\ h # t
    BY <1>a, <1>m, <2>2 DEF SlotInvariant, QueuedInLine
  <2>4. work'[h] = "asking" /\ work'[t] = phase /\ \A u \in Tasks \ {t, h} : work'[u] = work[u]
    BY <1>b, <2>1, <2>2, <2>3
  <2>5. /\ wait'[m] = Tail(wait[m]) /\ \A k \in Map : k # m => wait'[k] = wait[k]
    BY <1>m, <2>1 DEF SlotInvariant, WorkerTypes
  <2>6. WorkerTypes'
    BY <1>b, <1>m, <2>1, <2>2 DEF SlotInvariant, WorkerTypes, Work
  <2>7. CallsAreTurns'
    BY <2>2, <2>4 DEF SlotInvariant, CallsAreTurns
  <2>8. QueuedInLine'
    <3>1. ASSUME NEW k \in Map, k # m, NEW i \in 1..Len(wait'[k])
          PROVE  /\ work'[wait'[k][i]] = "queued" /\ MapOf(wait'[k][i]) = k
                 /\ \A j \in 1..Len(wait'[k]) : wait'[k][i] = wait'[k][j] => i = j
      <4>1. wait'[k] = wait[k] /\ wait[k] \in Seq(Tasks)
        BY <2>5, <3>1 DEF SlotInvariant, WorkerTypes
      <4>2. /\ wait[k][i] \in Tasks /\ work[wait[k][i]] = "queued" /\ MapOf(wait[k][i]) = k
            /\ \A j \in 1..Len(wait[k]) : wait[k][i] = wait[k][j] => i = j
        BY <3>1, <4>1 DEF SlotInvariant, QueuedInLine
      <4>3. wait[k][i] # t /\ wait[k][i] # h
        BY <1>a, <2>3, <3>1, <4>2
      <4> QED
        BY <2>4, <4>1, <4>2, <4>3
    <3>2. ASSUME NEW i \in 1..Len(wait'[m])
          PROVE  /\ work'[wait'[m][i]] = "queued" /\ MapOf(wait'[m][i]) = m
                 /\ \A j \in 1..Len(wait'[m]) : wait'[m][i] = wait'[m][j] => i = j
      <4>1. i + 1 \in 1..Len(wait[m]) /\ wait'[m][i] = wait[m][i + 1] /\ i + 1 # 1
        BY <2>2, <2>5, <3>2
      <4>2. /\ wait[m][i + 1] \in Tasks /\ work[wait[m][i + 1]] = "queued" /\ MapOf(wait[m][i + 1]) = m
            /\ \A j \in 1..Len(wait[m]) : wait[m][i + 1] = wait[m][j] => i + 1 = j
        BY <1>a, <1>m, <4>1 DEF SlotInvariant, QueuedInLine
      <4>3. wait[m][i + 1] # t /\ wait[m][i + 1] # h
        BY <1>a, <2>2, <4>1, <4>2
      <4>4. work'[wait'[m][i]] = "queued" /\ MapOf(wait'[m][i]) = m
        BY <2>4, <4>1, <4>2, <4>3
      <4>5. ASSUME NEW j \in 1..Len(wait'[m]), wait'[m][i] = wait'[m][j] PROVE i = j
        <5>1. j + 1 \in 1..Len(wait[m]) /\ wait'[m][j] = wait[m][j + 1]
          BY <2>2, <2>5
        <5>2. i + 1 = j + 1
          BY <4>1, <4>2, <4>5, <5>1
        <5> QED
          BY <5>2
      <4> QED
        BY <4>4, <4>5
    <3> QED
      BY <3>1, <3>2 DEF QueuedInLine
  <2>9. SlotsOf(m)'
    <3>1. h \notin Holders(m) \ {t} /\ Holders(m)' = (Holders(m) \ {t}) \union {h}
      BY <1>c, <2>2, <2>3, <2>4 DEF Holders, Holds
    <3>2. /\ IsFiniteSet(Holders(m) \ {t})
          /\ Cardinality(Holders(m) \ {t}) = Cardinality(Holders(m)) - 1
      BY <1>a, <1>d, FS_RemoveElement DEF SlotsOf
    <3>3. /\ IsFiniteSet(Holders(m)')
          /\ Cardinality(Holders(m)') = Cardinality(Holders(m) \ {t}) + 1
      BY <3>1, <3>2, FS_AddElement
    <3>4. Cardinality(Holders(m)') = Cardinality(Holders(m))
      BY <1>d, <3>2, <3>3
    <3> QED
      BY <1>2, <1>d, <2>1, <3>3, <3>4 DEF SlotsOf
  <2>10. ASSUME NEW k \in Map, k # m PROVE SlotsOf(k)'
    <3>1. Holders(k)' = Holders(k)
      BY <1>a, <2>2, <2>3, <2>4, <2>10 DEF Holders, Holds
    <3> QED
      BY <2>1, <2>5, <2>10, <3>1, OtherMap DEF SlotInvariant
  <2> QED
    BY <2>6, <2>7, <2>8, <2>9, <2>10 DEF SlotInvariant
<1> QED
  BY <1>1, <1>2

\* The end of the tools process leaves fresh semaphores.
LEMMA GoneKeepsSlots ==
  ASSUME SlotInvariant, ToolsGone
  PROVE  SlotInvariant'
<1>1. WorkerTypes' /\ CallsAreTurns'
  BY LimitsAssumption DEF SlotInvariant, ToolsGone, WorkerTypes, CallsAreTurns, Work
<1>2. QueuedInLine'
  BY DEF ToolsGone, QueuedInLine
<1>3. ASSUME NEW m \in Map PROVE SlotsOf(m)'
  <2>1. Holders(m)' = {}
    BY DEF ToolsGone, Holders, Holds
  <2>2. wait'[m] = <<>> /\ free'[m] = MaxConcurrent
    BY DEF ToolsGone
  <2> QED
    BY <2>1, <2>2, FS_EmptySet, LimitsAssumption DEF SlotsOf
<1> QED
  BY <1>1, <1>2, <1>3 DEF SlotInvariant

-----------------------------------------------------------------------------
(* The slots are accounted for *)

\* Steps of the tools process.
LEMMA AnswersKeepSlots ==
  ASSUME SlotInvariant, NEW t \in Tasks, Answered(t)
  PROVE  SlotInvariant'
<1>1. CASE Headers(t)
  <2>1. /\ work[t] = "asking" /\ work' = [work EXCEPT ![t] = "reading"] /\ UNCHANGED <<wait, free>>
    BY <1>1 DEF Headers
  <2>2. \A m \in Map : t \in Holders(m)' <=> t \in Holders(m)
    BY <2>1 DEF SlotInvariant, WorkerTypes, Holders, Holds
  <2> QED
    BY <2>1, <2>2, PhaseKeepsSlots DEF Work
<1>2. ASSUME NEW s \in Ended, SingleEnds(t, s) PROVE SlotInvariant'
  <2>1. t \notin LoopTasks /\ work[t] \in {"asking", "reading"} /\ MapOf(t) = "single"
    BY <1>2 DEF SingleEnds, MapOf
  <2>2. CASE s = "completed"
    <3>1. work[t] = "reading" /\ work' = [work EXCEPT ![t] = "written"] /\ UNCHANGED <<wait, free>>
      BY <1>2, <2>2 DEF SingleEnds
    <3>2. \A m \in Map : t \in Holders(m)' <=> t \in Holders(m)
      BY <2>1, <3>1 DEF SlotInvariant, WorkerTypes, Holders, Holds
    <3> QED
      BY <3>1, <3>2, PhaseKeepsSlots DEF Work
  <2>3. CASE s # "completed"
    <3>1. Release(t, [work EXCEPT ![t] = "done"])
      BY <1>2, <2>3 DEF SingleEnds
    <3>2. Holds(t, MapOf(t))
      BY <2>1 DEF Holds
    <3> QED
      BY <3>1, <3>2, ReleaseKeepsSlots
  <2> QED
    BY <2>2, <2>3
<1>3. ASSUME NEW s \in Ended \union {"calls"}, TurnAnswered(t, s) PROVE SlotInvariant'
  <2> DEFINE phase == CASE s = "calls" -> "calling" [] s = "completed" -> "written" [] OTHER -> "done"
  <2>1. t \in LoopTasks /\ work[t] \in {"asking", "reading"}
    BY <1>3 DEF TurnAnswered
  <2>2. Holds(t, MapOf(t)) /\ phase \in {"calling", "written", "done"}
    BY <2>1 DEF Holds
  <2>3. Release(t, [work EXCEPT ![t] = phase])
    BY <1>3 DEF TurnAnswered
  <2> HIDE DEF phase
  <2> QED
    BY <2>1, <2>2, <2>3, ReleaseKeepsSlots
<1>4. ASSUME NEW late \in BOOLEAN, NextTurn(t, late) PROVE SlotInvariant'
  <2>1. work[t] = "calling" /\ t \in LoopTasks /\ MapOf(t) = "loop"
    BY <1>4 DEF NextTurn, SlotInvariant, CallsAreTurns, MapOf
  <2>2. CASE ~late /\ turns[t] < MaxIterations
    BY <1>4, <2>1, <2>2, AcquireKeepsSlots DEF NextTurn
  <2>3. CASE ~(~late /\ turns[t] < MaxIterations)
    <3>1. PICK phase \in {"written", "done"} : work' = [work EXCEPT ![t] = phase]
      BY <1>4, <2>3 DEF NextTurn
    <3>2. UNCHANGED <<wait, free>>
      BY <1>4, <2>3 DEF NextTurn
    <3>3. \A m \in Map : t \in Holders(m)' <=> t \in Holders(m)
      BY <2>1, <3>1 DEF SlotInvariant, WorkerTypes, Holders, Holds
    <3> QED
      BY <2>1, <3>1, <3>2, <3>3, PhaseKeepsSlots DEF Work
  <2> QED
    BY <2>2, <2>3
<1>5. CASE PostProcess(t)
  <2>1. work[t] = "written"
    BY <1>5 DEF PostProcess
  <2>2. CASE t \in LoopTasks
    <3>1. work' = [work EXCEPT ![t] = "done"] /\ UNCHANGED <<wait, free>>
      BY <1>5, <2>2 DEF PostProcess
    <3>2. \A m \in Map : t \in Holders(m)' <=> t \in Holders(m)
      BY <2>1, <2>2, <3>1 DEF SlotInvariant, WorkerTypes, Holders, Holds, MapOf
    <3> QED
      BY <2>1, <3>1, <3>2, PhaseKeepsSlots DEF Work
  <2>3. CASE t \notin LoopTasks
    <3>1. Release(t, [work EXCEPT ![t] = "done"]) /\ Holds(t, MapOf(t))
      BY <1>5, <2>1, <2>3 DEF PostProcess, Holds, MapOf
    <3> QED
      BY <3>1, ReleaseKeepsSlots
  <2> QED
    BY <2>2, <2>3
<1> QED
  BY <1>1, <1>2, <1>3, <1>4, <1>5 DEF Answered

LEMMA DispatchKeepsSlots ==
  ASSUME SlotInvariant, NEW t \in Tasks, NEW known \in BOOLEAN, Dispatch(t, known)
  PROVE  SlotInvariant'
<1>1. work[t] = "idle"
  BY DEF Dispatch
<1>2. CASE known
  BY <1>1, <1>2, AcquireKeepsSlots DEF Dispatch
<1>3. CASE ~known
  <2>1. work' = [work EXCEPT ![t] = "done"] /\ UNCHANGED <<wait, free>>
    BY <1>3 DEF Dispatch
  <2>2. \A m \in Map : t \in Holders(m)' <=> t \in Holders(m)
    BY <1>1, <2>1 DEF SlotInvariant, WorkerTypes, Holders, Holds
  <2> QED
    BY <1>1, <2>1, <2>2, PhaseKeepsSlots DEF Work
<1> QED
  BY <1>2, <1>3

\* Steps that leave the semaphores alone.
LEMMA StillKeepsSlots ==
  ASSUME SlotInvariant, UNCHANGED <<work, wait, free>>
  PROVE  SlotInvariant'
<1>1. WorkerTypes' /\ QueuedInLine' /\ CallsAreTurns'
  BY DEF SlotInvariant, WorkerTypes, QueuedInLine, CallsAreTurns
<1>2. ASSUME NEW m \in Map PROVE SlotsOf(m)'
  <2>1. Holders(m)' = Holders(m)
    BY DEF Holders, Holds
  <2> QED
    BY <2>1, OtherMap DEF SlotInvariant
<1> QED
  BY <1>1, <1>2 DEF SlotInvariant

LEMMA SlotsInductive ==
  /\ Init => SlotInvariant
  /\ SlotInvariant /\ [Next]_vars => SlotInvariant'
<1>1. ASSUME Init PROVE SlotInvariant
  <2>1. WorkerTypes /\ QueuedInLine /\ CallsAreTurns
    BY <1>1, LimitsAssumption DEF Init, WorkerTypes, QueuedInLine, CallsAreTurns, Work
  <2>2. ASSUME NEW m \in Map PROVE SlotsOf(m)
    <3>1. Holders(m) = {}
      BY <1>1 DEF Init, Holders, Holds
    <3>2. free[m] = MaxConcurrent /\ wait[m] = <<>>
      BY <1>1 DEF Init
    <3> QED
      BY <3>1, <3>2, FS_EmptySet, LimitsAssumption DEF SlotsOf
  <2> QED
    BY <2>1, <2>2 DEF SlotInvariant
<1>2. ASSUME SlotInvariant, [Next]_vars PROVE SlotInvariant'
  <2>1. ASSUME NEW t \in Tasks, NEW known \in BOOLEAN, Dispatch(t, known) PROVE SlotInvariant'
    BY <1>2, <2>1, DispatchKeepsSlots
  <2>2. ASSUME NEW t \in Tasks, Answered(t) PROVE SlotInvariant'
    BY <1>2, <2>2, AnswersKeepSlots
  <2>3. ASSUME NEW t \in Tasks, Cancel(t) PROVE SlotInvariant'
    BY <1>2, <2>3, StillKeepsSlots DEF Cancel, workerVars
  <2>4. CASE ToolsExit \/ Restart \/ UpdateTorn
    BY <1>2, <2>4, GoneKeepsSlots DEF ToolsExit, Restart, UpdateTorn
  <2>5. CASE MailArrives \/ TurnEnds \/ Tick \/ EndDeepWork
    BY <1>2, <2>5, StillKeepsSlots DEF MailArrives, TurnEnds, Tick, EndDeepWork, workerVars
  <2>6. CASE LoopStep
    BY <1>2, <2>6, StillKeepsSlots
       DEF LoopStep, SkipBatch, TakeMail, CollectIdle, CollectOpen, CollectPost, DeepStep, IdleStep, workerVars
  <2>7. ASSUME NEW ok \in BOOLEAN, QueryEnds(ok) PROVE SlotInvariant'
    BY <1>2, <2>7, StillKeepsSlots DEF QueryEnds, workerVars
  <2>8. ASSUME NEW left \in Deadlines, StartDeepWork(left) PROVE SlotInvariant'
    BY <1>2, <2>8, StillKeepsSlots DEF StartDeepWork, workerVars
  <2>9. CASE UNCHANGED vars
    BY <1>2, <2>9, StillKeepsSlots DEF vars, workerVars
  <2> QED
    BY <1>2, <2>1, <2>2, <2>3, <2>4, <2>5, <2>6, <2>7, <2>8, <2>9 DEF Next
<1> QED
  BY <1>1, <1>2

\* Whatever the number of tasks and slots, however calls end, whichever process
\* ends between two writes: a semaphore's slots are those in use and those left,
\* and nobody waits while one is left.
THEOREM SlotsNeverLost == Spec => []SlotsAccounted
<1>1. Spec => []SlotInvariant
  BY SlotsInductive, PTL DEF Spec
<1>2. SlotInvariant => SlotsAccounted
  BY DEF SlotInvariant, SlotsAccounted, SlotsOf, Holders
<1> QED
  BY <1>1, <1>2, PTL

-----------------------------------------------------------------------------
(* Types *)

\* The types of the semaphores come with the account of their slots.
LEMMA SlotsTyped ==
  ASSUME SlotInvariant
  PROVE  /\ work \in [Tasks -> Work] /\ wait \in [Map -> Seq(Tasks)]
         /\ free \in [Map -> 0..MaxConcurrent]
<1>1. ASSUME NEW m \in Map PROVE free[m] \in 0..MaxConcurrent
  <2>1. Cardinality(Holders(m)) \in Nat
    BY FS_CardinalityType DEF SlotInvariant, SlotsOf
  <2> QED
    BY <2>1, LimitsAssumption DEF SlotInvariant, SlotsOf, WorkerTypes
<1> QED
  BY <1>1 DEF SlotInvariant, WorkerTypes

FileTypes ==
  /\ task \in [Tasks -> {"none", "pending", "cancelled"}]
  /\ result \in [Tasks -> Ended \union {"none"}]
  /\ turns \in [Tasks -> 0..MaxIterations]
  /\ told \in [Tasks -> 0..2]

LoopTypes ==
  /\ loop \in {"idle", "open", "post", "deep", "pause"}
  /\ after \in {"idle", "batch", "results", "deep"}
  /\ busy \in BOOLEAN /\ mail \in {"none", "context", "message"} /\ routed \in BOOLEAN
  /\ session \in Left \union {"none"} /\ errors \in 0..3 /\ faults \in 0..MaxFaults

LEMMA FilesTyped == FileTypes /\ [Next]_vars => FileTypes'
<1> SUFFICES ASSUME FileTypes, [Next]_vars PROVE FileTypes'
  OBVIOUS
<1>1. ASSUME NEW t \in Tasks PROVE (\E known \in BOOLEAN : Dispatch(t, known)) \/ Cancel(t) => FileTypes'
  BY LimitsAssumption DEF Dispatch, Cancel, Write, workerVars, FileTypes, Ended
<1>2. ASSUME NEW t \in Tasks, Answered(t) PROVE FileTypes'
  BY <1>2, LimitsAssumption DEF Answered, Headers, SingleEnds, TurnAnswered, NextTurn,
     PostProcess, Write, fileVars, FileTypes, Ended
<1>3. Collect /\ turns' = turns => FileTypes'
  <2> SUFFICES ASSUME Collect, turns' = turns PROVE FileTypes'
    OBVIOUS
  <2>1. told' \in [Tasks -> 0..2]
    BY DEF Collect, FileTypes
  <2>2. result' \in [Tasks -> Ended \union {"none"}]
    BY DEF Collect, FileTypes
  <2>3. task' \in [Tasks -> {"none", "pending", "cancelled"}]
    BY DEF Collect, FileTypes
  <2> QED
    BY <2>1, <2>2, <2>3 DEF FileTypes
<1>4. UNCHANGED <<turns, fileVars>> => FileTypes'
  BY DEF FileTypes, fileVars
<1>5. CASE LoopStep
  BY <1>3, <1>4, <1>5 DEF LoopStep, SkipBatch, TakeMail, CollectIdle, CollectOpen, CollectPost, DeepStep, IdleStep,
     workerVars, fileVars
<1>6. CASE \/ ToolsExit \/ Restart \/ MailArrives \/ TurnEnds \/ UpdateTorn \/ EndDeepWork \/ Tick
           \/ \E ok \in BOOLEAN : QueryEnds(ok)
           \/ \E left \in Deadlines : StartDeepWork(left)
  BY <1>4, <1>6 DEF ToolsExit, Restart, MailArrives, TurnEnds, UpdateTorn, EndDeepWork, Tick, QueryEnds,
     StartDeepWork, workerVars
<1>7. CASE UNCHANGED vars
  BY <1>4, <1>7 DEF vars, workerVars
<1> QED
  BY <1>1, <1>2, <1>5, <1>6, <1>7 DEF Next

LoopState == LoopTypes /\ ErrorsCounted

LEMMA LoopTyped == LoopState /\ [Next]_vars => LoopState'
<1> SUFFICES ASSUME LoopState, [Next]_vars PROVE LoopState'
  OBVIOUS
<1> USE DEF LoopState, LoopTypes, ErrorsCounted, Open
<1>1. UNCHANGED <<loopVars, session, faults>> => LoopState'
  BY DEF loopVars
<1>2. ASSUME NEW t \in Tasks PROVE (\E known \in BOOLEAN : Dispatch(t, known)) \/ Cancel(t) \/ Answered(t) => LoopState'
  BY <1>1 DEF Dispatch, Cancel, Answered, Headers, SingleEnds, TurnAnswered, NextTurn, PostProcess
<1>3. CASE ToolsExit \/ UpdateTorn
  BY <1>3, LimitsAssumption DEF ToolsExit, UpdateTorn, Fault, loopVars
<1>4. CASE Restart
  <2>1. /\ loop' = "idle" /\ after' = "idle" /\ busy' = FALSE /\ routed' = FALSE /\ errors' = 0
        /\ mail' = mail /\ session' = session
    BY <1>4 DEF Restart
  <2>2. faults' \in 0..MaxFaults
    BY <1>4, LimitsAssumption DEF Restart, Fault
  <2>3. busy' \in BOOLEAN /\ routed' \in BOOLEAN
    BY <2>1, Zenon
  <2> QED
    BY <2>1, <2>2, <2>3
<1>5. CASE MailArrives \/ TurnEnds
  BY <1>5 DEF MailArrives, TurnEnds
<1>6. CASE Tick \/ EndDeepWork
  BY <1>6 DEF Tick, EndDeepWork, loopVars, Left
<1>7. CASE SkipBatch \/ TakeMail
  BY <1>7 DEF SkipBatch, TakeMail, Query
<1>8. CASE CollectIdle \/ CollectOpen \/ CollectPost
  BY <1>8 DEF CollectIdle, CollectOpen, CollectPost, Query
<1>9. CASE DeepStep
  <2>1. loop \in {"deep", "pause"} /\ UNCHANGED <<mail, routed, errors, faults>>
    BY <1>9 DEF DeepStep
  <2>2. CASE Leave
    BY <2>1, <2>2 DEF Leave, Finalize
  <2>3. CASE loop' = "pause" /\ errors < 3 /\ UNCHANGED <<after, busy, session>>
    BY <2>1, <2>3
  <2>4. CASE loop = "pause" /\ Query("deep") /\ UNCHANGED session
    BY <2>1, <2>4 DEF Query
  <2> QED
    BY <1>9, <2>2, <2>3, <2>4 DEF DeepStep
<1>10. CASE IdleStep
  BY <1>10 DEF IdleStep, Query, Finalize
<1>11. ASSUME NEW ok \in BOOLEAN, QueryEnds(ok) PROVE LoopState'
  <2>1. after' = "idle" /\ busy' = FALSE /\ UNCHANGED <<mail, routed, session>>
    BY <1>11 DEF QueryEnds
  <2>2. loop' \in {"idle", "post", "deep"}
    BY <1>11 DEF QueryEnds
  <2>3. errors' \in 0..3
    BY <1>11 DEF QueryEnds
  <2>4. faults' \in 0..MaxFaults
    BY <1>11, LimitsAssumption DEF QueryEnds, Fault
  <2> QED
    BY <2>1, <2>2, <2>3, <2>4
<1>12. ASSUME NEW left \in Deadlines, StartDeepWork(left) PROVE LoopState'
  BY <1>12, DeadlinesAssumption DEF StartDeepWork, loopVars
<1>13. CASE UNCHANGED vars
  BY <1>1, <1>13 DEF vars
<1>14. LoopStep => LoopState'
  BY <1>7, <1>8, <1>9, <1>10 DEF LoopStep
<1> QED
  BY <1>2, <1>3, <1>4, <1>5, <1>6, <1>11, <1>12, <1>13, <1>14 DEF Next

TypeInvariant == SlotInvariant /\ FileTypes /\ LoopState

LEMMA TypesInductive ==
  /\ Init => TypeInvariant
  /\ TypeInvariant /\ [Next]_vars => TypeInvariant'
<1>1. ASSUME Init PROVE FileTypes /\ LoopState
  <2>1. \A t \in Tasks : /\ task[t] = "none" /\ result[t] = "none" /\ turns[t] = 0 /\ told[t] = 0
    BY <1>1 DEF Init
  <2>2. FileTypes
    BY <1>1, LimitsAssumption DEF Init, FileTypes
  <2>3. LoopState
    <3>1. loop = "idle" /\ after = "idle" /\ busy = FALSE /\ mail = "none" /\ routed = FALSE
          /\ session = "none" /\ errors = 0 /\ faults = MaxFaults
      BY <1>1 DEF Init
    <3>2. busy \in BOOLEAN /\ routed \in BOOLEAN
      BY <3>1, Zenon
    <3> QED
      BY <3>1, <3>2, LimitsAssumption DEF LoopState, LoopTypes, ErrorsCounted, Open
  <2> QED
    BY <2>2, <2>3
<1> QED
  BY <1>1, SlotsInductive, FilesTyped, LoopTyped DEF TypeInvariant

\* Every state of the tools process, the files and the poll loop is one the code
\* has a name for; the limits on turns, errors and faults hold.
THEOREM TypeCorrect == Spec => []TypeOK
<1>1. Spec => []TypeInvariant
  BY TypesInductive, PTL DEF Spec
<1>2. TypeInvariant => TypeOK
  BY SlotsTyped DEF TypeInvariant, TypeOK, FileTypes, LoopState, LoopTypes
<1> QED
  BY <1>1, <1>2, PTL

-----------------------------------------------------------------------------
(* A result is told once *)

OverWork == {"written", "done", "lost"}

\* What a semaphore does for a task leaves those alone whose work is over.
LEMMA ReleaseSets ==
  ASSUME SlotInvariant, NEW t \in Tasks, work[t] # "queued", NEW phase \in Work,
         Release(t, [work EXCEPT ![t] = phase])
  PROVE  /\ work'[t] = phase
         /\ \A u \in Tasks \ {t} : work[u] \in OverWork => work'[u] = work[u]
<1> DEFINE m == MapOf(t)
<1>1. CASE wait[m] = <<>>
  BY <1>1 DEF Release, SlotInvariant, WorkerTypes
<1>2. CASE wait[m] # <<>>
  <2>1. wait[m] \in Seq(Tasks) /\ m \in Map
    BY MapOfType DEF SlotInvariant, WorkerTypes
  <2>2. Head(wait[m]) = wait[m][1] /\ 1 \in 1..Len(wait[m])
    BY <1>2, <2>1
  <2>3. work[Head(wait[m])] = "queued"
    BY <2>1, <2>2 DEF SlotInvariant, QueuedInLine
  <2>4. work' = [[work EXCEPT ![t] = phase] EXCEPT ![Head(wait[m])] = "asking"]
    BY <1>2 DEF Release
  <2> QED
    BY <2>3, <2>4 DEF OverWork, SlotInvariant, WorkerTypes
<1> QED
  BY <1>1, <1>2

LEMMA AcquireSpares ==
  ASSUME SlotInvariant, NEW t \in Tasks, Acquire(t, work)
  PROVE  \A u \in Tasks \ {t} : work'[u] = work[u]
BY DEF Acquire, SlotInvariant, WorkerTypes

\* What a step of the worker of t does: it ends the work when it writes a result,
\* and nothing is written for work that has ended.
WorkerStep(t) ==
  /\ told' = told
  /\ \A u \in Tasks \ {t} : /\ result'[u] = result[u]
                            /\ work[u] \in OverWork => work'[u] = work[u]
  /\ \/ work[t] \notin OverWork /\ (result'[t] = result[t] \/ work'[t] \in OverWork)
     \/ work[t] \in OverWork /\ work'[t] \in OverWork /\ result'[t] = result[t]

LEMMA WorkerStepKeeps ==
  ASSUME FileTypes, ResultOnce, NEW t \in Tasks, WorkerStep(t)
  PROVE  ResultOnce'
<1>1. told[t] \in Nat
  BY DEF FileTypes
<1>2. work[t] \notin OverWork => result[t] = "none" /\ ~(told[t] > 0)
  BY DEF ResultOnce, OverWork
<1>3. told[t] > 0 => result[t] = "none" /\ told[t] = 1
  BY DEF ResultOnce
<1>4. /\ told'[t] > 0 => result'[t] = "none" /\ told'[t] = 1
      /\ told'[t] > 0 \/ result'[t] # "none" => work'[t] \in OverWork
  BY <1>1, <1>2, <1>3 DEF WorkerStep
<1>5. ASSUME NEW u \in Tasks \ {t}
      PROVE  /\ told'[u] > 0 => result'[u] = "none" /\ told'[u] = 1
             /\ told'[u] > 0 \/ result'[u] # "none" => work'[u] \in OverWork
  BY DEF WorkerStep, ResultOnce, OverWork
<1> QED
  BY <1>4, <1>5 DEF ResultOnce, OverWork

LEMMA AnsweredIsWorkerStep ==
  ASSUME SlotInvariant, FileTypes, NEW t \in Tasks, Answered(t)
  PROVE  WorkerStep(t)
<1>0. /\ work \in [Tasks -> Work] /\ result \in [Tasks -> Ended \union {"none"}]
  BY DEF SlotInvariant, WorkerTypes, FileTypes
<1>1. CASE Headers(t)
  BY <1>0, <1>1 DEF Headers, WorkerStep, OverWork, fileVars
<1>2. ASSUME NEW s \in Ended, SingleEnds(t, s) PROVE WorkerStep(t)
  <2>1. /\ work[t] \in {"asking", "reading"} /\ told' = told
        /\ result' = [result EXCEPT ![t] = s]
    BY <1>2 DEF SingleEnds, Write
  <2>2. CASE s = "completed"
    BY <1>0, <1>2, <2>1, <2>2 DEF SingleEnds, WorkerStep, OverWork
  <2>3. CASE s # "completed"
    <3>1. Release(t, [work EXCEPT ![t] = "done"])
      BY <1>2, <2>3 DEF SingleEnds
    <3>2. work'[t] = "done" /\ \A u \in Tasks \ {t} : work[u] \in OverWork => work'[u] = work[u]
      BY <2>1, <3>1, ReleaseSets DEF Work
    <3> QED
      BY <1>0, <2>1, <3>2 DEF WorkerStep, OverWork
  <2> QED
    BY <2>2, <2>3
<1>3. ASSUME NEW s \in Ended \union {"calls"}, TurnAnswered(t, s) PROVE WorkerStep(t)
  <2> DEFINE phase == CASE s = "calls" -> "calling" [] s = "completed" -> "written" [] OTHER -> "done"
  <2>1. /\ work[t] \in {"asking", "reading"} /\ told' = told
        /\ IF s = "calls" THEN result' = result ELSE result' = [result EXCEPT ![t] = s]
    BY <1>3 DEF TurnAnswered, Write
  <2>2. phase \in {"calling", "written", "done"} /\ (s # "calls" => phase \in OverWork)
    BY DEF OverWork
  <2>3. Release(t, [work EXCEPT ![t] = phase])
    BY <1>3 DEF TurnAnswered
  <2> HIDE DEF phase
  <2>4. work'[t] = phase /\ \A u \in Tasks \ {t} : work[u] \in OverWork => work'[u] = work[u]
    BY <2>1, <2>2, <2>3, ReleaseSets DEF Work
  <2> QED
    BY <1>0, <2>1, <2>2, <2>4 DEF WorkerStep, OverWork
<1>4. ASSUME NEW late \in BOOLEAN, NextTurn(t, late) PROVE WorkerStep(t)
  <2>1. work[t] = "calling" /\ told' = told
    BY <1>4 DEF NextTurn
  <2>2. CASE ~late /\ turns[t] < MaxIterations
    <3>1. Acquire(t, work) /\ result' = result
      BY <1>4, <2>2 DEF NextTurn
    <3> QED
      BY <2>1, <3>1, AcquireSpares DEF WorkerStep, OverWork
  <2>3. CASE ~(~late /\ turns[t] < MaxIterations)
    <3>1. PICK phase \in {"written", "done"} : work' = [work EXCEPT ![t] = phase]
      BY <1>4, <2>3 DEF NextTurn
    <3>2. \E s \in Ended : result' = [result EXCEPT ![t] = s]
      BY <1>4, <2>3 DEF NextTurn, Write, Ended
    <3> QED
      BY <1>0, <2>1, <3>1, <3>2 DEF WorkerStep, OverWork
  <2> QED
    BY <2>2, <2>3
<1>5. CASE PostProcess(t)
  <2>1. work[t] = "written" /\ told' = told /\ result' = result
    BY <1>5 DEF PostProcess, fileVars
  <2>2. CASE t \in LoopTasks
    BY <1>0, <1>5, <2>1, <2>2 DEF PostProcess, WorkerStep, OverWork
  <2>3. CASE t \notin LoopTasks
    <3>1. Release(t, [work EXCEPT ![t] = "done"])
      BY <1>5, <2>3 DEF PostProcess
    <3>2. work'[t] = "done" /\ \A u \in Tasks \ {t} : work[u] \in OverWork => work'[u] = work[u]
      BY <2>1, <3>1, ReleaseSets DEF Work
    <3> QED
      BY <2>1, <3>2 DEF WorkerStep, OverWork
  <2> QED
    BY <2>2, <2>3
<1> QED
  BY <1>1, <1>2, <1>3, <1>4, <1>5 DEF Answered

LEMMA DispatchIsWorkerStep ==
  ASSUME SlotInvariant, FileTypes, NEW t \in Tasks, NEW known \in BOOLEAN, Dispatch(t, known)
  PROVE  WorkerStep(t)
<1>1. work[t] = "idle" /\ told' = told
  BY DEF Dispatch
<1>2. CASE known
  <2>1. Acquire(t, work) /\ result' = result
    BY <1>2 DEF Dispatch
  <2> QED
    BY <1>1, <2>1, AcquireSpares DEF WorkerStep, OverWork
<1>3. CASE ~known
  <2>1. work' = [work EXCEPT ![t] = "done"] /\ result' = [result EXCEPT ![t] = "failed"]
    BY <1>3 DEF Dispatch, Write
  <2> QED
    BY <1>1, <2>1 DEF WorkerStep, OverWork, SlotInvariant, WorkerTypes, FileTypes
<1> QED
  BY <1>2, <1>3

\* What is taken from its file is told of for the first time.
LEMMA CollectKeepsOnce ==
  ASSUME FileTypes, ResultOnce, Collect, work' = work
  PROVE  ResultOnce'
<1> SUFFICES ASSUME NEW t \in Tasks
             PROVE  /\ told'[t] > 0 => result'[t] = "none" /\ told'[t] = 1
                    /\ told'[t] > 0 \/ result'[t] # "none" => work'[t] \in {"written", "done", "lost"}
  BY DEF ResultOnce
<1>0. /\ told[t] > 0 => result[t] = "none" /\ told[t] = 1
      /\ told[t] > 0 \/ result[t] # "none" => work[t] \in {"written", "done", "lost"}
      /\ told[t] \in Nat
  BY DEF ResultOnce, FileTypes
<1>1. CASE t \in Ready
  <2>1. result[t] # "none" /\ told[t] = 0
    BY <1>0, <1>1 DEF Ready, Ended
  <2>2. told'[t] = 1 /\ result'[t] = "none"
    BY <1>1, <2>1 DEF Collect
  <2> QED
    BY <1>0, <2>1, <2>2
<1>2. CASE t \notin Ready
  <2>1. told'[t] = told[t] /\ result'[t] = result[t]
    BY <1>2 DEF Collect
  <2> QED
    BY <1>0, <2>1
<1> QED
  BY <1>1, <1>2

LEMMA OnceInductive ==
  /\ Init => ResultOnce
  /\ TypeInvariant /\ ResultOnce /\ [Next]_vars => ResultOnce'
<1>1. ASSUME Init PROVE ResultOnce
  BY <1>1 DEF Init, ResultOnce
<1>2. ASSUME TypeInvariant, ResultOnce, [Next]_vars PROVE ResultOnce'
  <2>0. SlotInvariant /\ FileTypes
    BY <1>2 DEF TypeInvariant
  <2>1. ASSUME NEW t \in Tasks, NEW known \in BOOLEAN, Dispatch(t, known) PROVE ResultOnce'
    BY <1>2, <2>0, <2>1, DispatchIsWorkerStep, WorkerStepKeeps
  <2>2. ASSUME NEW t \in Tasks, Answered(t) PROVE ResultOnce'
    BY <1>2, <2>0, <2>2, AnsweredIsWorkerStep, WorkerStepKeeps
  <2>3. UNCHANGED <<work, result, told>> => ResultOnce'
    BY <1>2 DEF ResultOnce
  <2>4. Collect /\ work' = work => ResultOnce'
    BY <1>2, <2>0, CollectKeepsOnce
  <2>5. ToolsGone /\ UNCHANGED <<result, told>> => ResultOnce'
    BY <1>2 DEF ToolsGone, ResultOnce
  <2>6. CASE ToolsExit \/ Restart \/ UpdateTorn
    BY <2>5, <2>6 DEF ToolsExit, Restart, UpdateTorn, fileVars
  <2>7. CASE LoopStep
    BY <2>3, <2>4, <2>7 DEF LoopStep, SkipBatch, TakeMail, CollectIdle, CollectOpen, CollectPost, DeepStep, IdleStep,
       workerVars, fileVars
  <2>8. CASE \/ MailArrives \/ TurnEnds \/ EndDeepWork \/ Tick
             \/ \E t \in Tasks : Cancel(t)
             \/ \E ok \in BOOLEAN : QueryEnds(ok)
             \/ \E left \in Deadlines : StartDeepWork(left)
    BY <2>3, <2>8 DEF MailArrives, TurnEnds, EndDeepWork, Tick, Cancel, QueryEnds, StartDeepWork,
       workerVars, fileVars
  <2>9. CASE UNCHANGED vars
    BY <2>3, <2>9 DEF vars, workerVars, fileVars
  <2> QED
    BY <1>2, <2>1, <2>2, <2>6, <2>7, <2>8, <2>9 DEF Next
<1> QED
  BY <1>1, <1>2

\* The agent is told of a task at most once: of the three places of the poll loop
\* that look for results, in any order with the end of the work, with restarts
\* and with cancels, only one finds its file.
THEOREM ToldOnce == Spec => []ReportedOnce
<1>1. Spec => [](TypeInvariant /\ ResultOnce)
  BY TypesInductive, OnceInductive, PTL DEF Spec
<1>2. TypeInvariant /\ ResultOnce => ReportedOnce
  BY DEF TypeInvariant, FileTypes, ResultOnce, ReportedOnce
<1> QED
  BY <1>1, <1>2, PTL

\* A result on file is final: it stays as it was written or is taken.
ResultStays ==
  \A t \in Tasks : /\ result[t] # "none" => result'[t] \in {result[t], "none"}
                   /\ told[t] > 0 => result'[t] = "none"

LEMMA StepKeepsResults ==
  ASSUME TypeInvariant, ResultOnce, [Next]_vars
  PROVE  ResultStays
<1>0. SlotInvariant /\ FileTypes
  BY DEF TypeInvariant
<1>1. ASSUME NEW t \in Tasks, WorkerStep(t) PROVE ResultStays
  BY <1>1 DEF WorkerStep, ResultOnce, ResultStays, OverWork
<1>2. ASSUME NEW t \in Tasks, (\E known \in BOOLEAN : Dispatch(t, known)) \/ Answered(t) PROVE ResultStays
  BY <1>0, <1>1, <1>2, DispatchIsWorkerStep, AnsweredIsWorkerStep
<1>3. result' = result => ResultStays
  BY DEF ResultOnce, ResultStays
<1>4. Collect => ResultStays
  BY DEF Collect, ResultOnce, ResultStays
<1>5. CASE LoopStep
  BY <1>3, <1>4, <1>5 DEF LoopStep, SkipBatch, TakeMail, CollectIdle, CollectOpen, CollectPost, DeepStep, IdleStep, fileVars
<1>6. CASE \/ ToolsExit \/ Restart \/ UpdateTorn \/ MailArrives \/ TurnEnds \/ EndDeepWork \/ Tick
           \/ \E t \in Tasks : Cancel(t)
           \/ \E ok \in BOOLEAN : QueryEnds(ok)
           \/ \E left \in Deadlines : StartDeepWork(left)
  BY <1>3, <1>6 DEF ToolsExit, Restart, UpdateTorn, MailArrives, TurnEnds, EndDeepWork, Tick, Cancel,
     QueryEnds, StartDeepWork, fileVars
<1>7. CASE UNCHANGED vars
  BY <1>3, <1>7 DEF vars, fileVars
<1> QED
  BY <1>2, <1>5, <1>6, <1>7 DEF Next

\* What worker-results/ says of a task never changes once it is there, and nothing
\* comes back for a task that has been told of: a late answer of the endpoint, a
\* timer that fires after it, or the end of a cancelled task finds the work over.
THEOREM ResultsFinal == Spec => [][ResultStays]_vars
<1>1. Spec => [](TypeInvariant /\ ResultOnce)
  BY TypesInductive, OnceInductive, PTL DEF Spec
<1> QED
  BY <1>1, StepKeepsResults, PTL DEF Spec

-----------------------------------------------------------------------------
(* The memory store *)

\* What a process has in hand when the table has n rows: it looks only for a text
\* it has, an answer is awaited with nothing left to store, a cluster has members,
\* and what it names is in the table.
ShapeOf(j, n) ==
  /\ j.looked => j.todo # <<>>
  /\ j.found <= n /\ j.target <= n
  /\ j.clusters # {} /\ j.sources = {} => j.todo = <<>>
  /\ \A c \in j.clusters : c # {} /\ c \subseteq 1..n
  /\ j.sources \subseteq 1..n /\ (j.sources # {} => Len(j.todo) <= 1)
  /\ j.pair # <<>> => /\ j.pair[1] \in 1..n /\ j.pair[2] \in 1..n
                      /\ j.pair[1] # j.pair[2] /\ j.seen # <<>>

StoreTypes == MemoryTypeOK /\ \A p \in Procs : ShapeOf(job[p], Len(mem))

-----------------------------------------------------------------------------
(* Rows and jobs *)

LEMMA LeastIsLeast ==
  ASSUME NEW S \in SUBSET Nat, S # {}
  PROVE  Least(S) \in S /\ \A j \in S : Least(S) <= j
<1>1. PICK x \in S : \A y \in S : <<y, x>> \notin OpToRel(<, Nat)
  BY WFMin, NatLessThanWellFounded
<1>2. \A y \in S : ~(y < x)
  BY <1>1 DEF OpToRel
<1>3. \A y \in S : x <= y
  BY <1>2
<1> QED
  BY <1>3 DEF Least

LEMMA AskedType == \A m \in Memo : Asked(m) \in Memo
BY DEF Memo, Asked

\* A table rewritten row by row.
LEMMA TableRewritten ==
  ASSUME mem \in Seq(Memo), mem' \in [Rows -> Memo]
  PROVE  mem' \in Seq(Memo) /\ Len(mem') = Len(mem)
<1>1. Len(mem) \in Nat /\ mem' \in [1..Len(mem) -> Memo]
  BY DEF Rows
<1>2. mem' \in Seq(Memo)
  BY <1>1, SeqDef
<1>3. DOMAIN mem' = 1..Len(mem) /\ DOMAIN mem' = 1..Len(mem')
  BY <1>1, <1>2, LenProperties
<1> QED
  BY <1>1, <1>2, <1>3, LenProperties

LEMMA NoJobType ==
  NoJob \in Job /\ \A n \in Nat : ShapeOf(NoJob, n)
<1>1. NoJob \in Job
  BY RowsAssumption DEF NoJob, Job
<1>2. \A n \in Nat : ShapeOf(NoJob, n)
  BY DEF ShapeOf, NoJob
<1> QED
  BY <1>1, <1>2

LEMMA SettledType ==
  ASSUME NEW j \in Job, NEW n \in Nat, ShapeOf(j, n)
  PROVE  Settled(j) \in Job /\ ShapeOf(Settled(j), n)
BY NoJobType DEF Settled

LEMMA ShapeGrows ==
  ASSUME NEW j \in Job, NEW n \in Nat, NEW k \in Nat, n <= k, ShapeOf(j, n)
  PROVE  ShapeOf(j, k)
<1>1. j.found \in Nat /\ j.target \in Nat
  BY RowsAssumption DEF Job
<1> QED
  BY <1>1 DEF ShapeOf

\* One process is given a job.
LEMMA JobGiven ==
  ASSUME StoreTypes, NEW p \in Procs, NEW j \in Job,
         job' = [job EXCEPT ![p] = j], Len(mem') \in Nat, Len(mem) <= Len(mem'),
         ShapeOf(j, Len(mem'))
  PROVE  job' \in [Procs -> Job] /\ \A q \in Procs : ShapeOf(job'[q], Len(mem'))
<1>1. job \in [Procs -> Job] /\ Len(mem) \in Nat
  BY DEF StoreTypes, MemoryTypeOK
<1>2. job' \in [Procs -> Job]
  BY <1>1
<1>3. ASSUME NEW q \in Procs PROVE ShapeOf(job'[q], Len(mem'))
  <2>1. CASE q = p
    BY <1>1, <2>1
  <2>2. CASE q # p
    BY <1>1, <2>2, ShapeGrows DEF StoreTypes
  <2> QED
    BY <2>1, <2>2
<1> QED
  BY <1>2, <1>3

\* What a tool call takes in hand.
LEMMA CallTypes ==
  ASSUME StoreTypes, NEW p \in Procs, NEW j \in Job, Call(p, j),
         ShapeOf(j, Len(mem)), Len(mem') = Len(mem)
  PROVE  /\ job' \in [Procs -> Job] /\ \A q \in Procs : ShapeOf(job'[q], Len(mem'))
         /\ calls' \in 0..MaxCalls
<1>1. Len(mem) \in Nat /\ calls \in 0..MaxCalls
  BY DEF StoreTypes, MemoryTypeOK
<1>2. job' = [job EXCEPT ![p] = j] /\ calls' = calls - 1 /\ calls > 0
  BY DEF Call
<1>3. calls' \in 0..MaxCalls
  BY <1>1, <1>2, RowsAssumption
<1>4. Len(mem) <= Len(mem') /\ Len(mem') \in Nat /\ ShapeOf(j, Len(mem'))
  BY <1>1
<1> QED
  BY <1>2, <1>3, <1>4, JobGiven

\* The changes of a job that keep its type.
LEMMA JobChanges ==
  ASSUME NEW j \in Job
  PROVE  /\ \A file \in Seq(Texts), e \in BOOLEAN :
              [j EXCEPT !.todo = file] \in Job /\ [j EXCEPT !.todo = file, !.embedded = e] \in Job
         /\ \A n \in 0..MaxRows : [j EXCEPT !.looked = TRUE, !.found = n] \in Job
<1>1. \A file \in Seq(Texts), e \in BOOLEAN : [j EXCEPT !.todo = file] \in Job
  BY DEF Job
<1>2. \A file \in Seq(Texts), e \in BOOLEAN : [j EXCEPT !.todo = file, !.embedded = e] \in Job
  BY DEF Job
<1>3. \A n \in 0..MaxRows : [j EXCEPT !.looked = TRUE, !.found = n] \in Job
  BY DEF Job
<1> QED
  BY <1>1, <1>2, <1>3

LEMMA CallJobs ==
  ASSUME StoreTypes, NEW p \in Procs
  PROVE  /\ \A text \in Texts, e \in BOOLEAN :
              LET j == [NoJob EXCEPT !.todo = <<text>>, !.embedded = e]
              IN  j \in Job /\ ShapeOf(j, Len(mem))
         /\ \A file \in Files :
              LET j == [NoJob EXCEPT !.todo = file] IN j \in Job /\ ShapeOf(j, Len(mem))
<1>1. NoJob \in Job /\ Files \subseteq Seq(Texts)
  BY NoJobType, TextsAssumption
<1>2. ASSUME NEW text \in Texts, NEW e \in BOOLEAN
      PROVE  LET j == [NoJob EXCEPT !.todo = <<text>>, !.embedded = e]
             IN  j \in Job /\ ShapeOf(j, Len(mem))
  <2> DEFINE j == [NoJob EXCEPT !.todo = <<text>>, !.embedded = e]
  <2>1. j \in Job
    <3>1. <<text>> \in Seq(Texts)
      OBVIOUS
    <3> QED
      BY <1>1, <3>1, JobChanges
  <2>2. /\ j.looked = FALSE /\ j.found = 0 /\ j.target = 0 /\ j.clusters = {} /\ j.sources = {}
        /\ j.pair = <<>>
    BY DEF NoJob
  <2>3. Len(mem) \in Nat
    BY DEF StoreTypes, MemoryTypeOK
  <2> QED
    BY <2>1, <2>2, <2>3 DEF ShapeOf
<1>3. ASSUME NEW file \in Files
      PROVE  LET j == [NoJob EXCEPT !.todo = file] IN j \in Job /\ ShapeOf(j, Len(mem))
  <2> DEFINE j == [NoJob EXCEPT !.todo = file]
  <2>1. j \in Job
    BY <1>1 DEF Job
  <2>2. /\ j.looked = FALSE /\ j.found = 0 /\ j.target = 0 /\ j.clusters = {} /\ j.sources = {}
        /\ j.pair = <<>>
    BY DEF NoJob
  <2>3. Len(mem) \in Nat
    BY DEF StoreTypes, MemoryTypeOK
  <2> QED
    BY <2>1, <2>2, <2>3 DEF ShapeOf
<1> QED
  BY <1>2, <1>3

\* The calls that store texts.
LEMMA StoresTyped ==
  ASSUME StoreTypes, NEW p \in Procs,
         \/ \E text \in Texts, embedded \in BOOLEAN : StoreMemory(p, text, embedded)
         \/ \E file \in Files : Migrate(p, file) \/ Extract(p, file)
         \/ \E file \in Files, replace \in BOOLEAN : Import(p, file, replace)
  PROVE  StoreTypes'
<1>1. PICK j \in Job : Call(p, j) /\ ShapeOf(j, Len(mem))
  BY CallJobs DEF StoreMemory, Migrate, Extract, Import
<1>2. mem \in Seq(Memo) /\ Len(mem) <= MaxRows
  BY DEF StoreTypes, MemoryTypeOK
<1>3. mem' \in Seq(Memo) /\ Len(mem') = Len(mem)
  <2>1. CASE mem' = mem
    BY <1>2, <2>1
  <2>2. CASE mem' = [i \in Rows |-> IF mem[i].active THEN Asked(mem[i]) ELSE mem[i]]
    <3>1. \A i \in Rows : mem[i] \in Memo
      BY <1>2 DEF Rows
    <3>2. mem' \in [Rows -> Memo]
      BY <2>2, <3>1, AskedType
    <3> QED
      BY <1>2, <3>2, TableRewritten
  <2> QED
    BY <2>1, <2>2 DEF StoreMemory, Migrate, Extract, Import
<1>4. UNCHANGED <<raced, echoed, clashed>>
  BY DEF StoreMemory, Migrate, Extract, Import
<1> QED
  BY <1>1, <1>2, <1>3, <1>4, CallTypes DEF StoreTypes, MemoryTypeOK

LEMMA LookupTyped ==
  ASSUME StoreTypes, NEW p \in Procs, Lookup(p)
  PROVE  StoreTypes'
<1> DEFINE text == Head(job[p].todo)
           same == {i \in Active : SqlForm[mem[i].text] = PyForm[text]}
           near == {i \in Active : job[p].embedded /\ mem[i].embedded /\ <<text, mem[i].text>> \in Near}
           hit == IF same # {} THEN Least(same) ELSE IF near # {} THEN Least(near) ELSE 0
           j == [job[p] EXCEPT !.looked = TRUE, !.found = hit]
<1>1. /\ mem \in Seq(Memo) /\ Len(mem) \in Nat /\ Len(mem) <= MaxRows
      /\ job[p] \in Job /\ ShapeOf(job[p], Len(mem))
      /\ job \in [Procs -> Job]
  BY DEF StoreTypes, MemoryTypeOK
<1>2. /\ job[p].todo # <<>> /\ UNCHANGED <<mem, echoed, clashed, calls>>
      /\ raced' = raced \union {PyForm[text] : q \in {q \in Procs \ {p} :
                    job[q].looked /\ PyForm[Head(job[q].todo)] = PyForm[text]}}
      /\ job' = [job EXCEPT ![p].looked = TRUE, ![p].found = hit]
  BY DEF Lookup
<1>3. hit \in 0..Len(mem)
  <2>1. \A S \in SUBSET Rows : S # {} => Least(S) \in 0..Len(mem)
    <3> SUFFICES ASSUME NEW S \in SUBSET (1..Len(mem)), S # {} PROVE Least(S) \in 0..Len(mem)
      BY DEF Rows
    <3>1. S \in SUBSET Nat
      BY <1>1
    <3>2. Least(S) \in S
      BY <3>1, LeastIsLeast
    <3>3. \A x \in S : x \in 0..Len(mem)
      BY <1>1
    <3> QED
      BY <3>2, <3>3
  <2>2. same \in SUBSET Rows /\ near \in SUBSET Rows
    BY DEF Active
  <2>3. 0 \in 0..Len(mem)
    BY <1>1
  <2> QED
    BY <2>1, <2>2, <2>3
<1> HIDE DEF hit
<1>4. job' = [job EXCEPT ![p] = j]
  BY <1>1, <1>2
<1>5. j \in Job
  <2>1. hit \in 0..MaxRows
    BY <1>1, <1>3, RowsAssumption
  <2> QED
    BY <1>1, <2>1, JobChanges
<1>6. ShapeOf(j, Len(mem))
  BY <1>1, <1>2, <1>3 DEF ShapeOf, Job
<1>7. raced' \subseteq {PyForm[t] : t \in Texts}
  <2>1. text \in Texts
    BY <1>1, <1>2 DEF Job
  <2> QED
    BY <1>2, <2>1 DEF StoreTypes, MemoryTypeOK
<1>8. mem' = mem /\ UNCHANGED <<echoed, clashed, calls>>
  BY <1>2
<1> HIDE DEF j
<1>9. job' \in [Procs -> Job] /\ \A q \in Procs : ShapeOf(job'[q], Len(mem'))
  <2>1. Len(mem) <= Len(mem') /\ Len(mem') \in Nat /\ ShapeOf(j, Len(mem'))
    BY <1>1, <1>6, <1>8
  <2> QED
    BY <1>4, <1>5, <2>1, JobGiven
<1> QED
  BY <1>7, <1>8, <1>9 DEF StoreTypes, MemoryTypeOK

LEMMA MoreJobChanges ==
  ASSUME NEW j \in Job
  PROVE  /\ \A n \in 0..MaxRows : j.todo # <<>> =>
              [j EXCEPT !.todo = Tail(j.todo), !.looked = FALSE, !.found = 0, !.target = n] \in Job
         /\ \A c \in SUBSET SUBSET Row : [j EXCEPT !.clusters = c] \in Job
         /\ \A c \in SUBSET SUBSET Row, s \in SUBSET Row, file \in Seq(Texts) :
              [j EXCEPT !.clusters = c, !.sources = s, !.todo = file] \in Job
         /\ \A s \in SUBSET Row : [j EXCEPT !.sources = s] \in Job /\ [j EXCEPT !.doomed = s] \in Job
         /\ \A a, b \in Row, s, t \in SUBSET Row :
              [j EXCEPT !.pair = <<a, b>>, !.seen = <<s, t>>] \in Job
<1>1. \A n \in 0..MaxRows : j.todo # <<>> =>
         [j EXCEPT !.todo = Tail(j.todo), !.looked = FALSE, !.found = 0, !.target = n] \in Job
  <2>1. j.todo # <<>> => Tail(j.todo) \in Seq(Texts)
    BY DEF Job
  <2>2. 0 \in 0..MaxRows
    BY RowsAssumption
  <2> QED
    BY <2>1, <2>2 DEF Job
<1>2. \A c \in SUBSET SUBSET Row : [j EXCEPT !.clusters = c] \in Job
  BY DEF Job
<1>3. \A c \in SUBSET SUBSET Row, s \in SUBSET Row, file \in Seq(Texts) :
         [j EXCEPT !.clusters = c, !.sources = s, !.todo = file] \in Job
  BY DEF Job
<1>4. \A s \in SUBSET Row : [j EXCEPT !.sources = s] \in Job /\ [j EXCEPT !.doomed = s] \in Job
  BY DEF Job
<1>5. \A a, b \in Row, s, t \in SUBSET Row :
         [j EXCEPT !.pair = <<a, b>>, !.seen = <<s, t>>] \in Job
  BY DEF Job
<1> QED
  BY <1>1, <1>2, <1>3, <1>4, <1>5

\* What one knows of the state, in the words the steps need.
LEMMA StoreFacts ==
  ASSUME StoreTypes
  PROVE  /\ mem \in Seq(Memo) /\ Len(mem) \in Nat /\ Len(mem) <= MaxRows /\ MaxRows \in Nat
         /\ Rows = 1..Len(mem) /\ Rows \subseteq Row
         /\ \A i \in Rows : mem[i] \in Memo
         /\ job \in [Procs -> Job] /\ \A p \in Procs : ShapeOf(job[p], Len(mem))
<1>1. mem \in Seq(Memo) /\ Len(mem) \in Nat /\ Len(mem) <= MaxRows /\ MaxRows \in Nat
  BY RowsAssumption DEF StoreTypes, MemoryTypeOK
<1>2. Rows = 1..Len(mem) /\ Rows \subseteq Row
  BY <1>1 DEF Rows, Row
<1>3. \A i \in Rows : mem[i] \in Memo
  BY <1>1, <1>2
<1> QED
  BY <1>1, <1>2, <1>3 DEF StoreTypes, MemoryTypeOK

\* A step of a process whose job was under way.
LEMMA StepTyped ==
  ASSUME StoreTypes, NEW p \in Procs, NEW j \in Job,
         job' = [job EXCEPT ![p] = j], ShapeOf(j, Len(mem')),
         mem' \in Seq(Memo), Len(mem) <= Len(mem'), Len(mem') <= MaxRows,
         raced' = raced, echoed' \subseteq Row, clashed' = clashed, calls' \in 0..MaxCalls
  PROVE  StoreTypes'
<1>1. Len(mem') \in Nat
  OBVIOUS
<1>2. job' \in [Procs -> Job] /\ \A q \in Procs : ShapeOf(job'[q], Len(mem'))
  BY <1>1, JobGiven
<1> QED
  BY <1>1, <1>2 DEF StoreTypes, MemoryTypeOK, Row

\* One row changed.
LEMMA RowChanged ==
  ASSUME StoreTypes, NEW i \in Rows, NEW m \in Memo, mem' = [mem EXCEPT ![i] = m]
  PROVE  /\ mem' \in Seq(Memo) /\ Len(mem') = Len(mem) /\ Rows' = Rows
         /\ mem'[i] = m /\ \A k \in Rows : k # i => mem'[k] = mem[k]
<1>1. mem \in Seq(Memo) /\ i \in 1..Len(mem)
  BY DEF StoreTypes, MemoryTypeOK, Rows
<1>2. /\ mem' \in Seq(Memo) /\ Len(mem') = Len(mem)
      /\ \A k \in 1..Len(mem) : mem'[k] = IF k = i THEN m ELSE mem[k]
  BY <1>1, ExceptSeq
<1> QED
  BY <1>1, <1>2 DEF Rows

LEMMA ReinforcedType == \A m \in Memo : [m EXCEPT !.strength = m.strength + 1] \in Memo
BY DEF Memo

\* What Write does to the table, and to the job.
NewRow(p) ==
  [text |-> Head(job[p].todo), active |-> TRUE, embedded |-> job[p].embedded,
   strength |-> 1, supersededBy |-> 0, contradicts |-> {}, gone |-> "no"]

LEMMA WriteFacts ==
  ASSUME StoreTypes, NEW p \in Procs, Commit(p)
  PROVE  /\ job[p].looked /\ job[p].todo # <<>> /\ Head(job[p].todo) \in Texts
         /\ mem' \in Seq(Memo) /\ Len(mem') <= MaxRows
         /\ job[p].found # 0 => /\ job[p].found \in Rows /\ Len(mem') = Len(mem)
                                /\ mem'[job[p].found] = [mem[job[p].found] EXCEPT !.strength = mem[job[p].found].strength + 1]
                                /\ \A i \in Rows : i # job[p].found => mem'[i] = mem[i]
         /\ job[p].found = 0 => /\ Len(mem') = Len(mem) + 1
                                /\ mem'[Len(mem) + 1] = NewRow(p)
                                /\ \A i \in Rows : mem'[i] = mem[i]
         /\ Stored(p) \in Job /\ job' = [job EXCEPT ![p] = Settled(Stored(p))]
<1>1. /\ mem \in Seq(Memo) /\ Len(mem) \in Nat /\ Len(mem) <= MaxRows /\ MaxRows \in Nat
      /\ Rows = 1..Len(mem)
      /\ \A i \in Rows : mem[i] \in Memo
      /\ job \in [Procs -> Job] /\ ShapeOf(job[p], Len(mem))
  BY StoreFacts
<1>2. job[p].looked /\ job[p].todo # <<>>
  BY <1>1 DEF Commit, ShapeOf
<1>3. job[p].todo \in Seq(Texts) /\ job[p].found \in 0..MaxRows /\ job[p].embedded \in BOOLEAN
  BY <1>1 DEF Job
<1>4. Head(job[p].todo) \in Texts
  BY <1>2, <1>3
<1>5. job[p].found <= Len(mem)
  BY <1>1 DEF ShapeOf
<1>8. Stored(p) \in Job
  <2> DEFINE n == IF job[p].sources = {} THEN 0
                  ELSE IF job[p].found # 0 THEN job[p].found ELSE Len(mem) + 1
  <2>1. job[p].found = 0 => Len(mem) < MaxRows
    BY DEF Commit, Insert
  <2>2. n \in 0..MaxRows
    BY <1>1, <1>3, <2>1
  <2> HIDE DEF n
  <2>3. [job[p] EXCEPT !.todo = Tail(job[p].todo), !.looked = FALSE, !.found = 0, !.target = n] \in Job
    BY <1>1, <1>2, <2>2, MoreJobChanges
  <2> QED
    BY <2>3 DEF Stored, n
<1>9. job' = [job EXCEPT ![p] = Settled(Stored(p))]
  BY DEF Commit
<1>6. CASE job[p].found # 0
  <2> DEFINE i == job[p].found
             m == [mem[i] EXCEPT !.strength = mem[i].strength + 1]
  <2>1. i \in Rows
    BY <1>1, <1>3, <1>5, <1>6
  <2>2. m \in Memo
    BY <1>1, <2>1, ReinforcedType
  <2>3. mem' = [mem EXCEPT ![i] = m]
    BY <1>1, <1>6, <2>1 DEF Commit, Reinforce
  <2> HIDE DEF m
  <2>4. mem' \in Seq(Memo) /\ Len(mem') = Len(mem) /\ mem'[i] = m /\ \A k \in Rows : k # i => mem'[k] = mem[k]
    BY <2>1, <2>2, <2>3, RowChanged
  <2>5. mem'[i] = [mem[i] EXCEPT !.strength = mem[i].strength + 1]
    BY <2>4 DEF m
  <2> QED
    BY <1>1, <1>2, <1>4, <1>6, <1>8, <1>9, <2>1, <2>4, <2>5
<1>7. CASE job[p].found = 0
  <2>1. Len(mem) < MaxRows /\ mem' = Append(mem, NewRow(p))
    BY <1>7 DEF Commit, Insert, NewRow
  <2>2. NewRow(p) \in Memo
    BY <1>1, <1>3, <1>4 DEF NewRow, Memo
  <2>3. /\ mem' \in Seq(Memo) /\ Len(mem') = Len(mem) + 1 /\ mem'[Len(mem) + 1] = NewRow(p)
        /\ \A i \in 1..Len(mem) : mem'[i] = mem[i]
    BY <1>1, <2>1, <2>2, AppendProperties
  <2> QED
    BY <1>1, <1>2, <1>4, <1>7, <1>8, <1>9, <2>1, <2>3
<1> QED
  BY <1>6, <1>7

LEMMA WriteTyped ==
  ASSUME StoreTypes, NEW p \in Procs, Commit(p)
  PROVE  StoreTypes'
<1> DEFINE j == Settled(Stored(p))
<1>1. /\ Len(mem) \in Nat /\ Len(mem) <= MaxRows /\ Rows = 1..Len(mem)
      /\ job[p] \in Job /\ ShapeOf(job[p], Len(mem)) /\ MaxRows \in Nat
  BY StoreFacts
<1>2. /\ job[p].looked /\ job[p].todo # <<>>
      /\ mem' \in Seq(Memo) /\ Len(mem') <= MaxRows
      /\ job[p].found # 0 => job[p].found \in Rows /\ Len(mem') = Len(mem)
      /\ job[p].found = 0 => Len(mem') = Len(mem) + 1
      /\ Stored(p) \in Job /\ job' = [job EXCEPT ![p] = j]
  BY WriteFacts
<1>3. Len(mem) <= Len(mem') /\ Len(mem') \in Nat
  BY <1>1, <1>2
<1>4. ShapeOf(Stored(p), Len(mem'))
  <2> DEFINE r == Stored(p)
  <2>1. /\ r.looked = FALSE /\ r.found = 0 /\ r.todo = Tail(job[p].todo)
        /\ r.target = IF job[p].sources = {} THEN 0
                      ELSE IF job[p].found # 0 THEN job[p].found ELSE Len(mem) + 1
        /\ r.clusters = job[p].clusters /\ r.sources = job[p].sources
        /\ r.pair = job[p].pair /\ r.seen = job[p].seen
    BY <1>1 DEF Stored, Job
  <2>2. job[p].todo \in Seq(Texts)
    BY <1>1 DEF Job
  <2>3. r.target <= Len(mem')
    BY <1>1, <1>2, <1>3, <2>1
  <2>4. job[p].clusters # {} => job[p].sources # {}
    BY <1>1, <1>2 DEF ShapeOf
  <2>5. job[p].sources # {} => Len(r.todo) <= 1
    BY <1>1, <1>2, <2>1, <2>2 DEF ShapeOf
  <2>6. \A S : S \subseteq 1..Len(mem) => S \subseteq 1..Len(mem')
    BY <1>1, <1>3
  <2>7. /\ \A c \in r.clusters : c # {} /\ c \subseteq 1..Len(mem')
        /\ r.sources \subseteq 1..Len(mem')
    BY <1>1, <2>1, <2>6 DEF ShapeOf
  <2>8. r.pair # <<>> => /\ r.pair[1] \in 1..Len(mem') /\ r.pair[2] \in 1..Len(mem')
                         /\ r.pair[1] # r.pair[2] /\ r.seen # <<>>
    BY <1>1, <1>3, <2>1 DEF ShapeOf
  <2>9. ~r.looked /\ r.found <= Len(mem') /\ (r.clusters # {} => r.sources # {})
    BY <1>3, <2>1, <2>4
  <2>10. r.sources # {} => Len(r.todo) <= 1
    BY <2>1, <2>5
  <2> HIDE DEF r
  <2>11. ShapeOf(r, Len(mem'))
    BY <2>3, <2>7, <2>8, <2>9, <2>10 DEF ShapeOf
  <2> QED
    BY <2>11 DEF r
<1>5. j \in Job /\ ShapeOf(j, Len(mem'))
  BY <1>2, <1>3, <1>4, SettledType
<1>6. raced' = raced /\ clashed' = clashed /\ calls' = calls
  BY DEF Commit
<1>7. echoed' \subseteq Row /\ calls \in 0..MaxCalls
  <2>1. echoed \subseteq Row /\ calls \in 0..MaxCalls
    BY DEF StoreTypes, MemoryTypeOK
  <2>2. job[p].found # 0 => job[p].found \in Row
    BY <1>1, <1>2 DEF Row
  <2> QED
    BY <2>1, <2>2 DEF Commit
<1> HIDE DEF j
<1> QED
  BY <1>2, <1>3, <1>5, <1>6, <1>7, StepTyped

LEMMA ConsolidateTyped ==
  ASSUME StoreTypes, NEW p \in Procs, Consolidate(p)
  PROVE  StoreTypes'
<1> DEFINE j == [NoJob EXCEPT !.clusters = Clusters]
<1>1. Len(mem) \in Nat /\ Rows = 1..Len(mem) /\ Rows \subseteq Row
  BY StoreFacts
<1>2. \A c \in Clusters : c # {} /\ c \subseteq Rows
  <2> SUFFICES ASSUME NEW i \in Active, mem[i].embedded
               PROVE  Cluster(i) # {} /\ Cluster(i) \subseteq Rows
    BY DEF Clusters
  <2> QED
    BY DEF Cluster, Active
<1>3. j \in Job
  <2>1. Clusters \in SUBSET SUBSET Row
    BY <1>1, <1>2
  <2> QED
    BY <2>1, NoJobType, MoreJobChanges
<1>4. ShapeOf(j, Len(mem))
  <2>1. /\ j.looked = FALSE /\ j.todo = <<>> /\ j.found = 0 /\ j.target = 0 /\ j.clusters = Clusters
        /\ j.sources = {} /\ j.pair = <<>>
    BY DEF NoJob
  <2> QED
    BY <1>1, <1>2, <2>1 DEF ShapeOf
<1>5. Call(p, j) /\ UNCHANGED <<mem, raced, echoed, clashed>>
  BY DEF Consolidate
<1> HIDE DEF j
<1>6. /\ job' \in [Procs -> Job] /\ \A q \in Procs : ShapeOf(job'[q], Len(mem'))
      /\ calls' \in 0..MaxCalls
  BY <1>3, <1>4, <1>5, CallTypes
<1> QED
  BY <1>5, <1>6 DEF StoreTypes, MemoryTypeOK

LEMMA MergesTyped ==
  ASSUME StoreTypes, NEW p \in Procs, NEW c \in job[p].clusters,
         QwenFails(p, c) \/ \E text \in Answers : Merge(p, c, text)
  PROVE  StoreTypes'
<1>1. /\ mem \in Seq(Memo) /\ Len(mem) \in Nat /\ Len(mem) <= MaxRows
      /\ Rows = 1..Len(mem) /\ Rows \subseteq Row
      /\ job \in [Procs -> Job] /\ job[p] \in Job /\ ShapeOf(job[p], Len(mem))
  BY StoreFacts
<1>2. /\ job[p].sources = {} /\ UNCHANGED <<mem, raced, echoed, clashed, calls>>
      /\ echoed \subseteq Row /\ calls \in 0..MaxCalls
  BY DEF QwenFails, Merge, StoreTypes, MemoryTypeOK
<1>3. job[p].clusters \in SUBSET SUBSET Row /\ c # {} /\ c \subseteq 1..Len(mem)
  BY <1>1 DEF Job, ShapeOf
<1>4. job[p].todo = <<>> /\ job[p].looked = FALSE
  BY <1>1, <1>2 DEF ShapeOf, Job
<1>7. mem' \in Seq(Memo) /\ Len(mem) <= Len(mem') /\ Len(mem') <= MaxRows
  BY <1>1, <1>2
<1>5. CASE QwenFails(p, c)
  <2> DEFINE j == [job[p] EXCEPT !.clusters = job[p].clusters \ {c}]
  <2>1. j \in Job
    BY <1>1, <1>3, MoreJobChanges
  <2>2. /\ j.looked = job[p].looked /\ j.todo = job[p].todo /\ j.found = job[p].found
        /\ j.target = job[p].target /\ j.clusters \subseteq job[p].clusters
        /\ j.sources = job[p].sources /\ j.pair = job[p].pair /\ j.seen = job[p].seen
    BY <1>1 DEF Job
  <2>3. job' = [job EXCEPT ![p] = Settled(j)]
    BY <1>5 DEF QwenFails
  <2> HIDE DEF j
  <2>4. ShapeOf(j, Len(mem))
    BY <1>1, <1>4, <2>2 DEF ShapeOf
  <2>5. Settled(j) \in Job /\ ShapeOf(Settled(j), Len(mem'))
    BY <1>1, <1>2, <2>1, <2>4, SettledType
  <2> QED
    BY <1>2, <1>7, <2>3, <2>5, StepTyped
<1>6. ASSUME NEW text \in Answers, Merge(p, c, text) PROVE StoreTypes'
  <2> DEFINE j == [job[p] EXCEPT !.clusters = job[p].clusters \ {c}, !.sources = c, !.todo = <<text>>]
  <2>1. <<text>> \in Seq(Texts) /\ Len(<<text>>) = 1
    BY TextsAssumption
  <2>2. j \in Job
    BY <1>1, <1>3, <2>1, MoreJobChanges
  <2>3. /\ j.looked = FALSE /\ j.todo = <<text>> /\ j.found = job[p].found
        /\ j.target = job[p].target /\ j.clusters \subseteq job[p].clusters
        /\ j.sources = c /\ j.pair = job[p].pair /\ j.seen = job[p].seen
    BY <1>1, <1>4 DEF Job
  <2>4. job' = [job EXCEPT ![p] = j]
    BY <1>1, <1>6 DEF Merge
  <2> HIDE DEF j
  <2>5. ShapeOf(j, Len(mem'))
    BY <1>1, <1>2, <1>3, <2>1, <2>3 DEF ShapeOf
  <2> QED
    BY <1>2, <1>7, <2>2, <2>4, <2>5, StepTyped
<1> QED
  BY <1>5, <1>6

\* The row a merge gives up next, and what it says then.
GivenUp(i, t) ==
  [mem[i] EXCEPT !.active = FALSE, !.supersededBy = t,
                 !.gone = IF mem[i].gone = "asked" THEN "asked" ELSE "merged"]

LEMMA SupersedeFacts ==
  ASSUME StoreTypes, NEW p \in Procs, Supersede(p)
  PROVE  \E i \in job[p].sources :
           /\ i \in Rows /\ job[p].todo = <<>> /\ job[p].target \in 0..MaxRows
           /\ GivenUp(i, job[p].target) \in Memo
           /\ mem' = [mem EXCEPT ![i] = GivenUp(i, job[p].target)]
           /\ [job[p] EXCEPT !.sources = job[p].sources \ {i}] \in Job
           /\ job' = [job EXCEPT ![p] = Settled([job[p] EXCEPT !.sources = job[p].sources \ {i}])]
<1> DEFINE i == Least(job[p].sources)
           t == job[p].target
<1>1. /\ mem \in Seq(Memo) /\ Len(mem) \in Nat /\ Rows = 1..Len(mem)
      /\ \A k \in Rows : mem[k] \in Memo
      /\ job[p] \in Job /\ ShapeOf(job[p], Len(mem)) /\ job \in [Procs -> Job]
  BY StoreFacts
<1>2. job[p].sources \subseteq Rows /\ job[p].sources # {} /\ job[p].sources \in SUBSET Row
  BY <1>1 DEF ShapeOf, Supersede, Job
<1>3. i \in job[p].sources
  <2>1. job[p].sources \in SUBSET Nat
    BY <1>1, <1>2
  <2> QED
    BY <1>2, <2>1, LeastIsLeast
<1>4. t \in 0..MaxRows /\ job[p].todo = <<>>
  BY <1>1 DEF Job, Supersede
<1>5. job' = [job EXCEPT ![p] = Settled([job[p] EXCEPT !.sources = job[p].sources \ {i}])]
  BY DEF Supersede
<1>6. [job[p] EXCEPT !.sources = job[p].sources \ {i}] \in Job
  BY <1>1, <1>2, MoreJobChanges
<1>7. \A m \in Memo, n \in 0..MaxRows :
        [m EXCEPT !.active = FALSE, !.supersededBy = n,
                  !.gone = IF m.gone = "asked" THEN "asked" ELSE "merged"] \in Memo
  BY DEF Memo
<1>8. mem[i] \in Memo
  BY <1>1, <1>2, <1>3
<1>9. GivenUp(i, t) \in Memo
  BY <1>4, <1>7, <1>8 DEF GivenUp
<1>10. mem' = [mem EXCEPT ![i] = GivenUp(i, t)]
  BY <1>1, <1>2, <1>3 DEF Supersede, GivenUp
<1>11. i \in Rows
  BY <1>2, <1>3
<1> QED
  BY <1>3, <1>4, <1>5, <1>6, <1>9, <1>10, <1>11

LEMMA SupersedeTyped ==
  ASSUME StoreTypes, NEW p \in Procs, Supersede(p)
  PROVE  StoreTypes'
<1>1. /\ mem \in Seq(Memo) /\ Len(mem) \in Nat /\ Len(mem) <= MaxRows /\ Rows = 1..Len(mem)
      /\ job[p] \in Job /\ ShapeOf(job[p], Len(mem))
  BY StoreFacts
<1>2. PICK i \in job[p].sources :
        /\ i \in Rows /\ job[p].todo = <<>>
        /\ GivenUp(i, job[p].target) \in Memo
        /\ mem' = [mem EXCEPT ![i] = GivenUp(i, job[p].target)]
        /\ [job[p] EXCEPT !.sources = job[p].sources \ {i}] \in Job
        /\ job' = [job EXCEPT ![p] = Settled([job[p] EXCEPT !.sources = job[p].sources \ {i}])]
  BY SupersedeFacts
<1> DEFINE j == [job[p] EXCEPT !.sources = job[p].sources \ {i}]
<1>3. mem' \in Seq(Memo) /\ Len(mem') = Len(mem)
  BY <1>2, RowChanged
<1>4. ~job[p].looked
  BY <1>1, <1>2 DEF ShapeOf
<1>5. /\ j.looked = job[p].looked /\ j.todo = <<>> /\ j.found = job[p].found
      /\ j.target = job[p].target /\ j.clusters = job[p].clusters
      /\ j.sources \subseteq job[p].sources /\ j.pair = job[p].pair /\ j.seen = job[p].seen
  BY <1>1, <1>2 DEF Job
<1>6. j \in Job /\ job' = [job EXCEPT ![p] = Settled(j)]
  BY <1>2
<1> HIDE DEF j
<1>7. ShapeOf(j, Len(mem))
  <2>1. Len(j.todo) = 0
    BY <1>5
  <2> QED
    BY <1>1, <1>4, <1>5, <2>1 DEF ShapeOf
<1>8. Settled(j) \in Job /\ ShapeOf(Settled(j), Len(mem'))
  BY <1>1, <1>3, <1>6, <1>7, SettledType
<1>9. /\ UNCHANGED <<raced, echoed, clashed, calls>>
      /\ echoed \subseteq Row /\ calls \in 0..MaxCalls
  BY DEF Supersede, StoreTypes, MemoryTypeOK
<1>10. Len(mem) <= Len(mem') /\ Len(mem') <= MaxRows
  BY <1>1, <1>3
<1> QED
  BY <1>3, <1>6, <1>8, <1>9, <1>10, StepTyped

LEMMA ForgetTyped ==
  ASSUME StoreTypes, NEW p \in Procs, NEW i \in Rows, Forget(p, i)
  PROVE  StoreTypes'
<1>1. Len(mem) \in Nat /\ Len(mem) <= MaxRows /\ Asked(mem[i]) \in Memo
  BY StoreFacts, AskedType
<1>2. mem' = [mem EXCEPT ![i] = Asked(mem[i])]
  BY DEF Forget
<1>3. mem' \in Seq(Memo) /\ Len(mem') = Len(mem)
  BY <1>1, <1>2, RowChanged
<1>4. Call(p, NoJob) /\ UNCHANGED <<raced, echoed, clashed>>
  BY DEF Forget
<1>5. /\ job' \in [Procs -> Job] /\ \A q \in Procs : ShapeOf(job'[q], Len(mem'))
      /\ calls' \in 0..MaxCalls
  BY <1>1, <1>3, <1>4, NoJobType, CallTypes
<1> QED
  BY <1>1, <1>3, <1>4, <1>5 DEF StoreTypes, MemoryTypeOK

LEMMA ReadPairTyped ==
  ASSUME StoreTypes, NEW p \in Procs, NEW a \in Rows, NEW b \in Rows, ReadPair(p, a, b)
  PROVE  StoreTypes'
<1> DEFINE j == [NoJob EXCEPT !.pair = <<a, b>>, !.seen = <<mem[a].contradicts, mem[b].contradicts>>]
<1>1. /\ Len(mem) \in Nat /\ Rows = 1..Len(mem) /\ a \in Row /\ b \in Row
      /\ mem[a] \in Memo /\ mem[b] \in Memo
  BY StoreFacts
<1>2. mem[a].contradicts \in SUBSET Row /\ mem[b].contradicts \in SUBSET Row
  BY <1>1 DEF Memo
<1>3. j \in Job
  BY <1>1, <1>2, NoJobType, MoreJobChanges
<1>4. ShapeOf(j, Len(mem))
  <2>1. /\ j.looked = FALSE /\ j.todo = <<>> /\ j.found = 0 /\ j.target = 0 /\ j.clusters = {}
        /\ j.sources = {} /\ j.pair = <<a, b>>
        /\ j.seen = <<mem[a].contradicts, mem[b].contradicts>>
    BY DEF NoJob
  <2>2. a # b
    BY DEF ReadPair
  <2> QED
    BY <1>1, <2>1, <2>2 DEF ShapeOf
<1>5. Call(p, j) /\ UNCHANGED <<mem, raced, echoed>>
  BY DEF ReadPair
<1> HIDE DEF j
<1>6. /\ job' \in [Procs -> Job] /\ \A q \in Procs : ShapeOf(job'[q], Len(mem'))
      /\ calls' \in 0..MaxCalls
  BY <1>3, <1>4, <1>5, CallTypes
<1>7. clashed' \subseteq Row
  BY <1>1 DEF ReadPair, StoreTypes, MemoryTypeOK
<1> QED
  BY <1>5, <1>6, <1>7 DEF StoreTypes, MemoryTypeOK

\* What WritePair does to the two rows.
Marked(p, k) ==
  LET i == job[p].pair[k]
  IN  IF job[p].pair[3 - k] \in job[p].seen[k] THEN mem[i]
      ELSE [mem[i] EXCEPT !.contradicts = job[p].seen[k] \union {job[p].pair[3 - k]}]

LEMMA WritePairFacts ==
  ASSUME StoreTypes, NEW p \in Procs, WritePair(p)
  PROVE  LET a == job[p].pair[1]
             b == job[p].pair[2]
         IN  /\ job[p].pair # <<>> /\ a \in Rows /\ b \in Rows /\ a # b
             /\ job[p].seen[1] \in SUBSET Row /\ job[p].seen[2] \in SUBSET Row
             /\ Marked(p, 1) \in Memo /\ Marked(p, 2) \in Memo
             /\ mem' = [mem EXCEPT ![a] = Marked(p, 1), ![b] = Marked(p, 2)]
             /\ mem' \in Seq(Memo) /\ Len(mem') = Len(mem)
             /\ mem'[a] = Marked(p, 1) /\ mem'[b] = Marked(p, 2)
             /\ \A k \in Rows \ {a, b} : mem'[k] = mem[k]
<1> DEFINE a == job[p].pair[1]
           b == job[p].pair[2]
<1>1. /\ mem \in Seq(Memo) /\ Rows = 1..Len(mem) /\ Rows \subseteq Row /\ Len(mem) \in Nat
      /\ \A k \in Rows : mem[k] \in Memo
      /\ job[p] \in Job /\ ShapeOf(job[p], Len(mem))
  BY StoreFacts
<1>2. job[p].pair # <<>> /\ a \in Rows /\ b \in Rows /\ a # b /\ job[p].seen # <<>>
  BY <1>1 DEF WritePair, ShapeOf
<1>3. job[p].seen \in (SUBSET Row) \X (SUBSET Row)
  BY <1>1, <1>2 DEF Job
<1>4. job[p].seen[1] \in SUBSET Row /\ job[p].seen[2] \in SUBSET Row
  BY <1>3
<1>5. \A m \in Memo, s \in SUBSET Row : [m EXCEPT !.contradicts = s] \in Memo
  BY DEF Memo
<1>6. mem[a] \in Memo /\ mem[b] \in Memo /\ a \in Row /\ b \in Row
  BY <1>1, <1>2
<1>7. Marked(p, 1) \in Memo
  <2>1. job[p].seen[1] \union {b} \in SUBSET Row
    BY <1>4, <1>6
  <2> QED
    BY <1>5, <1>6, <2>1 DEF Marked
<1>8. Marked(p, 2) \in Memo
  <2>1. job[p].seen[2] \union {a} \in SUBSET Row
    BY <1>4, <1>6
  <2> QED
    BY <1>5, <1>6, <2>1 DEF Marked
<1>9. mem' = [mem EXCEPT ![a] = Marked(p, 1), ![b] = Marked(p, 2)]
  BY <1>1, <1>2 DEF WritePair, Marked
<1>10. /\ mem' \in Seq(Memo) /\ Len(mem') = Len(mem)
       /\ mem'[a] = Marked(p, 1) /\ mem'[b] = Marked(p, 2)
       /\ \A k \in Rows \ {a, b} : mem'[k] = mem[k]
  <2> DEFINE one == [mem EXCEPT ![a] = Marked(p, 1)]
  <2>1. /\ one \in Seq(Memo) /\ Len(one) = Len(mem)
        /\ \A k \in 1..Len(mem) : one[k] = IF k = a THEN Marked(p, 1) ELSE mem[k]
    BY <1>1, <1>2, <1>7, ExceptSeq
  <2>2. mem' = [one EXCEPT ![b] = Marked(p, 2)]
    BY <1>9
  <2> HIDE DEF one
  <2>3. /\ mem' \in Seq(Memo) /\ Len(mem') = Len(one)
        /\ \A k \in 1..Len(one) : mem'[k] = IF k = b THEN Marked(p, 2) ELSE one[k]
    BY <1>1, <1>2, <1>8, <2>1, <2>2, ExceptSeq
  <2> QED
    BY <1>1, <1>2, <2>1, <2>3
<1> QED
  BY <1>2, <1>4, <1>7, <1>8, <1>9, <1>10

LEMMA LastTyped ==
  ASSUME StoreTypes, NEW p \in Procs,
         \/ \E doomed \in SUBSET Rows : Candidates(p, doomed)
         \/ WritePair(p) \/ Prune(p) \/ Crash(p)
  PROVE  StoreTypes'
<1>1. /\ mem \in Seq(Memo) /\ Len(mem) \in Nat /\ Len(mem) <= MaxRows /\ Rows = 1..Len(mem)
      /\ Rows \subseteq Row
      /\ \A k \in Rows : mem[k] \in Memo
      /\ echoed \subseteq Row /\ calls \in 0..MaxCalls
  BY StoreFacts DEF StoreTypes, MemoryTypeOK
<1>2. NoJob \in Job /\ \A n \in Nat : ShapeOf(NoJob, n)
  BY NoJobType
<1>3. ASSUME NEW doomed \in SUBSET Rows, Candidates(p, doomed) PROVE StoreTypes'
  <2> DEFINE j == [NoJob EXCEPT !.doomed = doomed]
  <2>1. j \in Job
    BY <1>1, <1>2, MoreJobChanges
  <2>2. ShapeOf(j, Len(mem))
    <3>1. /\ j.looked = FALSE /\ j.todo = <<>> /\ j.found = 0 /\ j.target = 0 /\ j.clusters = {}
          /\ j.sources = {} /\ j.pair = <<>>
      BY DEF NoJob
    <3> QED
      BY <1>1, <3>1 DEF ShapeOf
  <2>3. Call(p, j) /\ UNCHANGED <<mem, raced, echoed, clashed>>
    BY <1>3 DEF Candidates
  <2> HIDE DEF j
  <2>4. /\ job' \in [Procs -> Job] /\ \A q \in Procs : ShapeOf(job'[q], Len(mem'))
        /\ calls' \in 0..MaxCalls
    BY <2>1, <2>2, <2>3, CallTypes
  <2> QED
    BY <2>3, <2>4 DEF StoreTypes, MemoryTypeOK
<1>4. CASE WritePair(p)
  <2>1. mem' \in Seq(Memo) /\ Len(mem') = Len(mem)
    BY <1>4, WritePairFacts
  <2>2. job' = [job EXCEPT ![p] = NoJob] /\ UNCHANGED <<raced, echoed, clashed, calls>>
    BY <1>4 DEF WritePair
  <2>3. Len(mem) <= Len(mem') /\ Len(mem') <= MaxRows /\ ShapeOf(NoJob, Len(mem'))
    BY <1>1, <1>2, <2>1
  <2> QED
    BY <1>1, <1>2, <2>1, <2>2, <2>3, StepTyped
<1>5. CASE Prune(p)
  <2>1. mem' \in [Rows -> Memo]
    BY <1>1, <1>5, AskedType DEF Prune
  <2>2. mem' \in Seq(Memo) /\ Len(mem') = Len(mem)
    BY <1>1, <2>1, TableRewritten
  <2>3. job' = [job EXCEPT ![p] = NoJob] /\ UNCHANGED <<raced, echoed, clashed, calls>>
    BY <1>5 DEF Prune
  <2>4. Len(mem) <= Len(mem') /\ Len(mem') <= MaxRows /\ ShapeOf(NoJob, Len(mem'))
    BY <1>1, <1>2, <2>2
  <2> QED
    BY <1>1, <1>2, <2>2, <2>3, <2>4, StepTyped
<1>6. CASE Crash(p)
  <2>1. job' = [job EXCEPT ![p] = NoJob] /\ UNCHANGED <<mem, raced, echoed, clashed>>
    BY <1>6 DEF Crash
  <2>2. calls' \in 0..MaxCalls
    BY <1>1, <1>6, RowsAssumption DEF Crash
  <2>3. Len(mem) <= Len(mem') /\ Len(mem') <= MaxRows /\ ShapeOf(NoJob, Len(mem'))
    BY <1>1, <1>2, <2>1
  <2> QED
    BY <1>1, <1>2, <2>1, <2>2, <2>3, StepTyped
<1> QED
  BY <1>3, <1>4, <1>5, <1>6

\* The table and what each process has in hand are of the types Memory names.
LEMMA StoreTypesInductive ==
  /\ MemoryInit => StoreTypes
  /\ StoreTypes /\ [MemoryNext]_memoryVars => StoreTypes'
<1>1. ASSUME MemoryInit PROVE StoreTypes
  <2>1. mem = <<>> /\ Len(mem) = 0 /\ calls = MaxCalls /\ raced = {} /\ echoed = {} /\ clashed = {}
    BY <1>1 DEF MemoryInit
  <2>2. job = [p \in Procs |-> NoJob]
    BY <1>1 DEF MemoryInit
  <2>3. job \in [Procs -> Job] /\ \A p \in Procs : ShapeOf(job[p], 0)
    BY <1>1, <2>2, NoJobType
  <2>4. mem \in Seq(Memo) /\ Len(mem) <= MaxRows /\ calls \in 0..MaxCalls
    BY <1>1, <2>1, RowsAssumption
  <2> QED
    BY <2>1, <2>3, <2>4 DEF StoreTypes, MemoryTypeOK
<1>2. ASSUME StoreTypes, [MemoryNext]_memoryVars PROVE StoreTypes'
  <2>1. CASE UNCHANGED memoryVars
    BY <1>2, <2>1 DEF memoryVars, StoreTypes, MemoryTypeOK
  <2>2. ASSUME NEW p \in Procs,
               \/ \E text \in Texts, embedded \in BOOLEAN : StoreMemory(p, text, embedded)
               \/ \E file \in Files : Migrate(p, file) \/ Extract(p, file)
               \/ \E file \in Files, replace \in BOOLEAN : Import(p, file, replace)
        PROVE  StoreTypes'
    BY <1>2, <2>2, StoresTyped
  <2>3. ASSUME NEW p \in Procs, Lookup(p) \/ Commit(p) \/ Consolidate(p) \/ Supersede(p)
        PROVE  StoreTypes'
    BY <1>2, <2>3, LookupTyped, WriteTyped, ConsolidateTyped, SupersedeTyped
  <2>4. ASSUME NEW p \in Procs, NEW c \in job[p].clusters,
               QwenFails(p, c) \/ \E text \in Answers : Merge(p, c, text)
        PROVE  StoreTypes'
    BY <1>2, <2>4, MergesTyped
  <2>5. ASSUME NEW p \in Procs,
               \/ \E i \in Rows : Forget(p, i)
               \/ \E a, b \in Rows : ReadPair(p, a, b)
        PROVE  StoreTypes'
    BY <1>2, <2>5, ForgetTyped, ReadPairTyped
  <2>6. ASSUME NEW p \in Procs,
               \/ \E doomed \in SUBSET Rows : Candidates(p, doomed)
               \/ WritePair(p) \/ Prune(p) \/ Crash(p)
        PROVE  StoreTypes'
    BY <1>2, <2>6, LastTyped
  <2> QED
    BY <1>2, <2>1, <2>2, <2>3, <2>4, <2>5, <2>6 DEF MemoryNext
<1> QED
  BY <1>1, <1>2

\* Every row, every job and every reference between rows is one the code has a name
\* for, whatever interleaves: what a process read before another one wrote still
\* names rows of the table.
THEOREM StoreTypeCorrect == MemorySpec => []MemoryTypeOK
<1>1. MemoryInit => StoreTypes
  BY StoreTypesInductive
<1>2. StoreTypes /\ [MemoryNext]_memoryVars => StoreTypes'
  BY StoreTypesInductive
<1>3. StoreTypes => MemoryTypeOK
  BY DEF StoreTypes
<1> QED
  BY <1>1, <1>2, <1>3, PTL DEF MemorySpec

-----------------------------------------------------------------------------
(* Steps with nothing to settle among processes *)

\* A step of p that at most gives rows up on request, leaves what the others have
\* in hand, and has neither looked a text up, nor found the target of a merge,
\* nor read a pair.
QuietStep(p) ==
  /\ Rows' = Rows
  /\ \A i \in Rows : mem'[i] = mem[i] \/ mem'[i] = Asked(mem[i])
  /\ UNCHANGED <<raced, echoed, clashed>>
  /\ \A q \in Procs \ {p} : job'[q] = job[q]
  /\ ~job'[p].looked
  /\ job'[p].sources = {} \/ job'[p].todo # <<>>
  /\ job'[p].pair # <<>> => job'[p].pair = job[p].pair /\ job'[p].seen = job[p].seen

LEMMA RequestsAreQuiet ==
  ASSUME StoreTypes, NEW p \in Procs,
         \/ \E text \in Texts, embedded \in BOOLEAN : StoreMemory(p, text, embedded)
         \/ \E file \in Files : Migrate(p, file) \/ Extract(p, file)
         \/ \E file \in Files, replace \in BOOLEAN : Import(p, file, replace)
         \/ Consolidate(p)
         \/ \E i \in Rows : Forget(p, i)
         \/ \E doomed \in SUBSET Rows : Candidates(p, doomed)
  PROVE  QuietStep(p)
<1>1. /\ mem \in Seq(Memo) /\ Len(mem) \in Nat /\ job \in [Procs -> Job]
      /\ \A k \in Rows : mem[k] \in Memo
  BY StoreFacts
<1> DEFINE Fresh(j) == ~j.looked /\ j.sources = {} /\ j.pair = <<>>
<1>2. \A file, e : Fresh([NoJob EXCEPT !.todo = file, !.embedded = e])
  BY DEF NoJob
<1>3. \A x : /\ Fresh([NoJob EXCEPT !.todo = x]) /\ Fresh([NoJob EXCEPT !.clusters = x])
             /\ Fresh([NoJob EXCEPT !.doomed = x])
  BY DEF NoJob
<1>4. Fresh(NoJob)
  BY DEF NoJob
<1> HIDE DEF Fresh
<1>5. \E j : Call(p, j) /\ Fresh(j)
  BY <1>2, <1>3, <1>4 DEF StoreMemory, Migrate, Extract, Import, Consolidate, Forget, Candidates
<1>6. /\ \A q \in Procs \ {p} : job'[q] = job[q]
      /\ ~job'[p].looked /\ job'[p].sources = {} /\ job'[p].pair = <<>>
  BY <1>1, <1>5 DEF Call, Fresh
<1>7. UNCHANGED <<raced, echoed, clashed>>
  BY DEF StoreMemory, Migrate, Extract, Import, Consolidate, Forget, Candidates
<1>8. Rows' = Rows /\ \A i \in Rows : mem'[i] = mem[i] \/ mem'[i] = Asked(mem[i])
  <2>1. CASE mem' = mem
    BY <2>1 DEF Rows
  <2>2. CASE mem' = [i \in Rows |-> IF mem[i].active THEN Asked(mem[i]) ELSE mem[i]]
    <3>1. mem' \in [Rows -> Memo]
      BY <1>1, <2>2, AskedType
    <3>2. Len(mem') = Len(mem)
      BY <1>1, <3>1, TableRewritten
    <3> QED
      BY <2>2, <3>2 DEF Rows
  <2>3. ASSUME NEW i \in Rows, mem' = [mem EXCEPT ![i] = Asked(mem[i])]
        PROVE  Rows' = Rows /\ \A k \in Rows : mem'[k] = mem[k] \/ mem'[k] = Asked(mem[k])
    <3>1. Asked(mem[i]) \in Memo
      BY <1>1, AskedType
    <3> QED
      BY <2>3, <3>1, RowChanged
  <2>4. \/ mem' = mem
        \/ mem' = [i \in Rows |-> IF mem[i].active THEN Asked(mem[i]) ELSE mem[i]]
        \/ \E i \in Rows : mem' = [mem EXCEPT ![i] = Asked(mem[i])]
    BY DEF StoreMemory, Migrate, Extract, Import, Consolidate, Forget, Candidates
  <2> QED
    BY <2>1, <2>2, <2>3, <2>4
<1> QED
  BY <1>6, <1>7, <1>8 DEF QuietStep

LEMMA AnswersAreQuiet ==
  ASSUME StoreTypes, NEW p \in Procs,
         \/ \E c \in job[p].clusters : QwenFails(p, c) \/ \E text \in Answers : Merge(p, c, text)
         \/ Prune(p) \/ Crash(p)
  PROVE  QuietStep(p)
<1>1. /\ mem \in Seq(Memo) /\ Len(mem) \in Nat /\ job \in [Procs -> Job] /\ job[p] \in Job
      /\ \A k \in Rows : mem[k] \in Memo
      /\ ShapeOf(job[p], Len(mem))
  BY StoreFacts
<1>2. ~NoJob.looked /\ NoJob.sources = {} /\ NoJob.pair = <<>>
  BY DEF NoJob
<1>3. ASSUME NEW c \in job[p].clusters, QwenFails(p, c) PROVE QuietStep(p)
  <2> DEFINE j == [job[p] EXCEPT !.clusters = job[p].clusters \ {c}]
  <2>1. j.looked = job[p].looked /\ j.sources = job[p].sources /\ j.pair = job[p].pair /\ j.seen = job[p].seen
    BY <1>1 DEF Job
  <2>2. job' = [job EXCEPT ![p] = Settled(j)] /\ UNCHANGED <<mem, raced, echoed, clashed>>
    BY <1>3 DEF QwenFails
  <2>3. ~job[p].looked /\ job[p].sources = {}
    BY <1>1, <1>3 DEF ShapeOf, QwenFails
  <2> HIDE DEF j
  <2>4. job'[p] = j \/ job'[p] = NoJob
    BY <1>1, <2>2 DEF Settled
  <2>5. \A q \in Procs \ {p} : job'[q] = job[q]
    BY <1>1, <2>2
  <2> QED
    BY <1>2, <2>1, <2>2, <2>3, <2>4, <2>5 DEF QuietStep, Rows
<1>4. ASSUME NEW c \in job[p].clusters, NEW text \in Answers, Merge(p, c, text) PROVE QuietStep(p)
  <2> DEFINE j == [job[p] EXCEPT !.clusters = job[p].clusters \ {c}, !.sources = c, !.todo = <<text>>]
  <2>1. j.looked = job[p].looked /\ j.todo = <<text>> /\ j.pair = job[p].pair /\ j.seen = job[p].seen
    BY <1>1 DEF Job
  <2>2. job' = [job EXCEPT ![p] = j] /\ UNCHANGED <<mem, raced, echoed, clashed>>
    BY <1>1, <1>4 DEF Merge
  <2>3. ~job[p].looked
    BY <1>1, <1>4 DEF ShapeOf, Merge
  <2> HIDE DEF j
  <2>4. job'[p] = j /\ \A q \in Procs \ {p} : job'[q] = job[q]
    BY <1>1, <2>2
  <2>5. <<text>> # <<>>
    OBVIOUS
  <2> QED
    BY <2>1, <2>2, <2>3, <2>4, <2>5 DEF QuietStep, Rows
<1>5. CASE Prune(p)
  <2>1. mem' = [i \in Rows |-> IF i \in job[p].doomed THEN Asked(mem[i]) ELSE mem[i]]
    BY <1>5 DEF Prune
  <2>2. Len(mem') = Len(mem)
    <3>1. mem' \in [Rows -> Memo]
      BY <1>1, <2>1, AskedType
    <3> QED
      BY <1>1, <3>1, TableRewritten
  <2>3. Rows' = Rows /\ \A i \in Rows : mem'[i] = mem[i] \/ mem'[i] = Asked(mem[i])
    BY <2>1, <2>2 DEF Rows
  <2>4. job'[p] = NoJob /\ \A q \in Procs \ {p} : job'[q] = job[q]
    BY <1>1, <1>5 DEF Prune
  <2>5. UNCHANGED <<raced, echoed, clashed>>
    BY <1>5 DEF Prune
  <2> QED
    BY <1>2, <2>3, <2>4, <2>5 DEF QuietStep
<1>6. CASE Crash(p)
  <2>1. job'[p] = NoJob /\ \A q \in Procs \ {p} : job'[q] = job[q]
    BY <1>1, <1>6 DEF Crash
  <2> QED
    BY <1>2, <1>6, <2>1 DEF QuietStep, Crash, Rows
<1> QED
  BY <1>3, <1>4, <1>5, <1>6

\* What is left to say of a step.
LEMMA StepKinds ==
  ASSUME StoreTypes, [MemoryNext]_memoryVars
  PROVE  \/ UNCHANGED memoryVars
         \/ \E p \in Procs : \/ QuietStep(p)
                             \/ Lookup(p) \/ Commit(p) \/ Supersede(p) \/ WritePair(p)
                             \/ \E a, b \in Rows : ReadPair(p, a, b)
BY RequestsAreQuiet, AnswersAreQuiet DEF MemoryNext

LEMMA AskedKeeps ==
  \A m \in Memo : /\ Asked(m).text = m.text /\ Asked(m).contradicts = m.contradicts
                  /\ ~Asked(m).active /\ Asked(m).gone = "asked"
                  /\ Asked(m).supersededBy = m.supersededBy
BY DEF Memo, Asked

-----------------------------------------------------------------------------
(* Twins come of races *)

Said(p) == PyForm[Head(job[p].todo)]

\* A process that has found nothing like its text is right but for the texts that
\* are never found, or the text is raced for; so are two that look for the same.
LookIsGood ==
  /\ \A p \in Procs : job[p].looked /\ job[p].found = 0 =>
       \A i \in Active : PyForm[mem[i].text] = Said(p) => Said(p) \in raced \/ Unfound(mem[i].text)
  /\ \A p, q \in Procs : p # q /\ job[p].looked /\ job[q].looked /\ Said(p) = Said(q) => Said(p) \in raced

TwinInvariant == TwinsRaced /\ LookIsGood

\* Rows keep their text and none comes back; nobody has looked anything up.
LEMMA CalmKeepsTwins ==
  ASSUME TwinInvariant, raced' = raced, Rows' = Rows,
         \A i \in Rows : mem'[i].text = mem[i].text /\ (mem'[i].active => mem[i].active),
         \A p \in Procs : job'[p].looked => job'[p] = job[p]
  PROVE  TwinInvariant'
<1>1. Active' \subseteq Active
  BY DEF Active
<1>2. TwinsRaced'
  <2> SUFFICES ASSUME NEW i \in Active', NEW k \in Active', i < k, PyForm[mem'[i].text] = PyForm[mem'[k].text]
               PROVE  PyForm[mem'[i].text] \in raced' \/ Unfound(mem'[i].text)
    BY DEF TwinsRaced, Unfound
  <2>1. i \in Active /\ k \in Active /\ i \in Rows /\ k \in Rows
    BY <1>1 DEF Active
  <2> QED
    BY <2>1 DEF TwinInvariant, TwinsRaced
<1>3. \A p \in Procs : job'[p].looked => job[p].looked /\ job'[p] = job[p] /\ Said(p)' = Said(p)
  BY DEF Said
<1>4. ASSUME NEW p \in Procs, job'[p].looked, job'[p].found = 0, NEW i \in Active',
             PyForm[mem'[i].text] = Said(p)'
      PROVE  Said(p)' \in raced' \/ Unfound(mem'[i].text)
  <2>1. i \in Active /\ i \in Rows
    BY <1>1 DEF Active
  <2> QED
    BY <1>3, <1>4, <2>1 DEF TwinInvariant, LookIsGood
<1>5. ASSUME NEW p \in Procs, NEW q \in Procs, p # q, job'[p].looked, job'[q].looked, Said(p)' = Said(q)'
      PROVE  Said(p)' \in raced'
  BY <1>3, <1>5 DEF TwinInvariant, LookIsGood
<1>6. LookIsGood'
  BY <1>4, <1>5 DEF LookIsGood, Unfound
<1> QED
  BY <1>2, <1>6 DEF TwinInvariant

\* A lookup sees every active row that says the same, and whom else it races with.
LEMMA LookupKeepsTwins ==
  ASSUME StoreTypes, TwinInvariant, NEW p \in Procs, Lookup(p)
  PROVE  TwinInvariant'
<1> DEFINE same == {i \in Active : SqlForm[mem[i].text] = Said(p)}
           others == {q \in Procs \ {p} : job[q].looked /\ Said(q) = Said(p)}
<1>1. job \in [Procs -> Job] /\ job[p] \in Job /\ Rows = 1..Len(mem) /\ Len(mem) \in Nat
  BY StoreFacts
<1>2. /\ mem' = mem /\ Active' = Active
      /\ raced' = raced \union {Said(p) : q \in others}
  BY DEF Lookup, Said, Active, Rows
<1>3. job'[p].looked /\ job'[p].todo = job[p].todo /\ (same # {} => job'[p].found = Least(same))
  BY <1>1 DEF Lookup, Job, Said
<1>4. \A q \in Procs \ {p} : job'[q] = job[q]
  BY <1>1 DEF Lookup
<1>5. \A q \in Procs : Said(q)' = Said(q)
  BY <1>3, <1>4 DEF Said
<1>6. TwinsRaced'
  BY <1>2 DEF TwinInvariant, TwinsRaced, Unfound
<1>7. job'[p].found = 0 => same = {}
  <2> SUFFICES ASSUME same # {} PROVE job'[p].found # 0
    OBVIOUS
  <2>1. same \in SUBSET Nat /\ \A i \in same : i # 0
    BY <1>1 DEF Active
  <2>2. Least(same) \in same
    BY <2>1, LeastIsLeast
  <2>3. \A i \in same : i = job'[p].found => job'[p].found # 0
    BY <2>1
  <2> QED
    BY <1>3, <2>2, <2>3
<1>8. ASSUME NEW q \in Procs, job'[q].looked, job'[q].found = 0, NEW i \in Active',
             PyForm[mem'[i].text] = Said(q)'
      PROVE  Said(q)' \in raced' \/ Unfound(mem'[i].text)
  <2>1. CASE q = p
    BY <1>2, <1>5, <1>7, <1>8, <2>1 DEF Unfound
  <2>2. CASE q # p
    BY <1>2, <1>4, <1>5, <1>8, <2>2 DEF TwinInvariant, LookIsGood
  <2> QED
    BY <2>1, <2>2
<1>9. ASSUME NEW q \in Procs, NEW r \in Procs, q # r, job'[q].looked, job'[r].looked, Said(q)' = Said(r)'
      PROVE  Said(q)' \in raced'
  <2>1. CASE q = p
    <3>1. r \in others
      BY <1>4, <1>5, <1>9, <2>1
    <3> QED
      BY <1>2, <1>5, <2>1, <3>1
  <2>2. CASE r = p
    <3>1. q \in others
      BY <1>4, <1>5, <1>9, <2>2
    <3> QED
      BY <1>2, <1>5, <1>9, <2>2, <3>1
  <2>3. CASE q # p /\ r # p
    BY <1>2, <1>4, <1>5, <1>9, <2>3 DEF TwinInvariant, LookIsGood
  <2> QED
    BY <2>1, <2>2, <2>3
<1>10. LookIsGood'
  BY <1>8, <1>9 DEF LookIsGood, Unfound
<1> QED
  BY <1>6, <1>10 DEF TwinInvariant

LEMMA StoredLooksNo ==
  ASSUME StoreTypes, NEW p \in Procs, Commit(p)
  PROVE  ~job'[p].looked /\ \A q \in Procs \ {p} : job'[q] = job[q]
<1>1. job \in [Procs -> Job] /\ job[p] \in Job
  BY StoreFacts
<1>2. job' = [job EXCEPT ![p] = Settled(Stored(p))]
  BY WriteFacts
<1>3. ~Stored(p).looked /\ ~NoJob.looked
  BY <1>1 DEF Stored, Job, NoJob
<1> QED
  BY <1>1, <1>2, <1>3 DEF Settled

\* An insert makes a twin only of a text that is raced for.
LEMMA WriteKeepsTwins ==
  ASSUME StoreTypes, TwinInvariant, NEW p \in Procs, Commit(p)
  PROVE  TwinInvariant'
<1>1. Rows = 1..Len(mem) /\ Len(mem) \in Nat /\ \A i \in Rows : mem[i] \in Memo
  BY StoreFacts
<1>2. ~job'[p].looked /\ \A q \in Procs \ {p} : job'[q] = job[q]
  BY StoredLooksNo
<1>3. job[p].looked /\ raced' = raced
  BY DEF Commit
<1>4. CASE job[p].found # 0
  <2>1. /\ job[p].found \in Rows /\ Len(mem') = Len(mem)
        /\ mem'[job[p].found] = [mem[job[p].found] EXCEPT !.strength = mem[job[p].found].strength + 1]
        /\ \A i \in Rows : i # job[p].found => mem'[i] = mem[i]
    BY <1>4, WriteFacts
  <2>2. LET m == mem[job[p].found] IN mem'[job[p].found].text = m.text /\ mem'[job[p].found].active = m.active
    <3>1. mem[job[p].found] \in Memo
      BY <1>1, <2>1
    <3> QED
      BY <2>1, <3>1 DEF Memo
  <2>3. \A i \in Rows : mem'[i].text = mem[i].text /\ (mem'[i].active => mem[i].active)
    BY <2>1, <2>2
  <2>4. Rows' = Rows
    BY <2>1 DEF Rows
  <2> QED
    BY <1>2, <1>3, <2>3, <2>4, CalmKeepsTwins
<1>5. CASE job[p].found = 0
  <2> DEFINE new == Len(mem) + 1
  <2>1. Len(mem') = new /\ mem'[new] = NewRow(p) /\ \A i \in Rows : mem'[i] = mem[i]
    BY <1>5, WriteFacts
  <2>2. Rows' = Rows \union {new} /\ new \notin Rows
    BY <1>1, <2>1 DEF Rows
  <2>3. /\ \A i \in Active' : i \in Active \/ i = new
        /\ PyForm[mem'[new].text] = Said(p)
        /\ \A i \in Active : mem'[i] = mem[i]
    BY <2>1, <2>2 DEF Active, NewRow, Said
  <2>4. \A i \in Active : i < new /\ (PyForm[mem[i].text] = Said(p) =>
                                        Said(p) \in raced \/ Unfound(mem[i].text))
    BY <1>1, <1>3, <1>5 DEF TwinInvariant, LookIsGood, Active
  <2>5. TwinsRaced'
    <3> SUFFICES ASSUME NEW i \in Active', NEW k \in Active', i < k, PyForm[mem'[i].text] = PyForm[mem'[k].text]
                 PROVE  PyForm[mem'[i].text] \in raced \/ Unfound(mem'[i].text)
      BY <1>3 DEF TwinsRaced, Unfound
    <3>1. CASE i \in Active /\ k \in Active
      BY <2>3, <3>1 DEF TwinInvariant, TwinsRaced
    <3>2. CASE i \in Active /\ k = new
      BY <2>3, <2>4, <3>2
    <3>3. k \in Active \/ k = new
      BY <2>3
    <3>4. i # new
      <4>1. Len(mem) \in Nat /\ \A l \in Active : l \in Nat /\ l <= Len(mem)
        BY <1>1 DEF Active
      <4> QED
        BY <3>3, <4>1
    <3> QED
      BY <2>3, <3>1, <3>2, <3>3, <3>4
  <2>6. \A q \in Procs : job'[q].looked => q # p /\ job'[q] = job[q] /\ Said(q)' = Said(q)
    BY <1>2 DEF Said
  <2>7. ASSUME NEW q \in Procs, job'[q].looked, job'[q].found = 0, NEW i \in Active',
               PyForm[mem'[i].text] = Said(q)'
        PROVE  Said(q)' \in raced' \/ Unfound(mem'[i].text)
    <3>1. CASE i \in Active
      BY <1>3, <2>3, <2>6, <2>7, <3>1 DEF TwinInvariant, LookIsGood
    <3>2. CASE i = new
      BY <1>3, <2>3, <2>6, <2>7, <3>2 DEF TwinInvariant, LookIsGood
    <3> QED
      BY <2>3, <3>1, <3>2
  <2>8. ASSUME NEW q \in Procs, NEW r \in Procs, q # r, job'[q].looked, job'[r].looked, Said(q)' = Said(r)'
        PROVE  Said(q)' \in raced'
    BY <1>3, <2>6, <2>8 DEF TwinInvariant, LookIsGood
  <2>9. LookIsGood'
    BY <2>7, <2>8 DEF LookIsGood, Unfound
  <2> QED
    BY <2>5, <2>9 DEF TwinInvariant
<1> QED
  BY <1>4, <1>5

\* The steps of a merge and of a contradiction leave texts and lookups alone.
LEMMA SupersedeFields ==
  ASSUME StoreTypes, NEW p \in Procs, Supersede(p)
  PROVE  \E i \in job[p].sources :
           /\ i \in Rows /\ Rows' = Rows /\ mem'[i] = GivenUp(i, job[p].target)
           /\ \A k \in Rows : k # i => mem'[k] = mem[k]
           /\ \A q \in Procs \ {p} : job'[q] = job[q]
           /\ job[p].todo = <<>> /\ ~job'[p].looked /\ job'[p].sources \subseteq job[p].sources
           /\ job'[p].sources # {} => job'[p].target = job[p].target
           /\ job'[p].pair # <<>> => job'[p].pair = job[p].pair /\ job'[p].seen = job[p].seen
<1>1. /\ job \in [Procs -> Job] /\ job[p] \in Job /\ ShapeOf(job[p], Len(mem))
  BY StoreFacts
<1>2. PICK i \in job[p].sources :
        /\ i \in Rows /\ job[p].todo = <<>>
        /\ GivenUp(i, job[p].target) \in Memo
        /\ mem' = [mem EXCEPT ![i] = GivenUp(i, job[p].target)]
        /\ job' = [job EXCEPT ![p] = Settled([job[p] EXCEPT !.sources = job[p].sources \ {i}])]
  BY SupersedeFacts
<1> DEFINE j == [job[p] EXCEPT !.sources = job[p].sources \ {i}]
<1>3. /\ j.looked = job[p].looked /\ j.sources \subseteq job[p].sources /\ j.target = job[p].target
      /\ j.pair = job[p].pair /\ j.seen = job[p].seen
  BY <1>1 DEF Job
<1>4. job' = [job EXCEPT ![p] = Settled(j)]
  BY <1>2
<1> HIDE DEF j
<1>5. job'[p] = j \/ job'[p] = NoJob
  BY <1>1, <1>4 DEF Settled
<1>6. ~NoJob.looked /\ NoJob.sources = {} /\ NoJob.pair = <<>>
  BY DEF NoJob
<1>7. ~job[p].looked
  BY <1>1, <1>2 DEF ShapeOf
<1>8. Rows' = Rows /\ mem'[i] = GivenUp(i, job[p].target) /\ \A k \in Rows : k # i => mem'[k] = mem[k]
  BY <1>2, RowChanged
<1>9. \A q \in Procs \ {p} : job'[q] = job[q]
  BY <1>1, <1>4
<1> QED
  BY <1>2, <1>3, <1>5, <1>6, <1>7, <1>8, <1>9

LEMMA GivenUpFields ==
  ASSUME NEW i, mem[i] \in Memo, NEW t
  PROVE  /\ GivenUp(i, t).text = mem[i].text /\ ~GivenUp(i, t).active
         /\ GivenUp(i, t).contradicts = mem[i].contradicts /\ GivenUp(i, t).supersededBy = t
         /\ GivenUp(i, t).gone \in {"asked", "merged"}
BY DEF GivenUp, Memo

LEMMA PairFields ==
  ASSUME StoreTypes, NEW p \in Procs,
         WritePair(p) \/ \E a, b \in Rows : ReadPair(p, a, b)
  PROVE  /\ Rows' = Rows /\ UNCHANGED <<raced, echoed>>
         /\ \A i \in Rows : /\ mem'[i].text = mem[i].text /\ mem'[i].active = mem[i].active
                            /\ mem'[i].gone = mem[i].gone
                            /\ mem'[i].supersededBy = mem[i].supersededBy
         /\ \A q \in Procs \ {p} : job'[q] = job[q]
         /\ ~job'[p].looked /\ job'[p].sources = {}
<1>1. job \in [Procs -> Job] /\ \A i \in Rows : mem[i] \in Memo
  BY StoreFacts
<1>2. CASE WritePair(p)
  <2> DEFINE Like(n, m) == /\ n.text = m.text /\ n.active = m.active /\ n.gone = m.gone
                           /\ n.supersededBy = m.supersededBy
  <2> DEFINE a == job[p].pair[1]
             b == job[p].pair[2]
  <2>2. /\ a \in Rows /\ b \in Rows /\ Len(mem') = Len(mem)
        /\ mem'[a] = Marked(p, 1) /\ mem'[b] = Marked(p, 2)
        /\ \A k \in Rows \ {a, b} : mem'[k] = mem[k]
    BY <1>2, WritePairFacts
  <2>3. /\ mem'[a] = mem[a] \/ \E s : mem'[a] = [mem[a] EXCEPT !.contradicts = s]
        /\ mem'[b] = mem[b] \/ \E s : mem'[b] = [mem[b] EXCEPT !.contradicts = s]
    BY <2>2 DEF Marked
  <2>4. \A i \in Rows : mem'[i] = mem[i] \/ \E s : mem'[i] = [mem[i] EXCEPT !.contradicts = s]
    BY <2>2, <2>3
  <2>5. job'[p] = NoJob /\ (\A q \in Procs \ {p} : job'[q] = job[q]) /\ UNCHANGED <<raced, echoed>>
    BY <1>1, <1>2 DEF WritePair
  <2>6. Rows' = Rows
    BY <2>2 DEF Rows
  <2>7. ~NoJob.looked /\ NoJob.sources = {}
    BY DEF NoJob
  <2>8. ASSUME NEW i \in Rows PROVE Like(mem'[i], mem[i])
    <3>1. mem[i] \in Memo
      BY <1>1
    <3>2. CASE mem'[i] = mem[i]
      BY <3>2
    <3>3. ASSUME NEW s, mem'[i] = [mem[i] EXCEPT !.contradicts = s] PROVE Like(mem'[i], mem[i])
      BY <3>1, <3>3 DEF Memo
    <3> QED
      BY <2>4, <3>2, <3>3
  <2> QED
    BY <2>5, <2>6, <2>7, <2>8
<1>3. ASSUME NEW a \in Rows, NEW b \in Rows, ReadPair(p, a, b)
      PROVE  /\ mem' = mem /\ Rows' = Rows /\ UNCHANGED <<raced, echoed>>
             /\ \A q \in Procs \ {p} : job'[q] = job[q]
             /\ ~job'[p].looked /\ job'[p].sources = {}
  <2> DEFINE j == [NoJob EXCEPT !.pair = <<a, b>>, !.seen = <<mem[a].contradicts, mem[b].contradicts>>]
  <2>1. ~j.looked /\ j.sources = {}
    BY DEF NoJob
  <2>2. job' = [job EXCEPT ![p] = j] /\ UNCHANGED <<mem, raced, echoed>>
    BY <1>3 DEF ReadPair, Call
  <2> HIDE DEF j
  <2> QED
    BY <1>1, <2>1, <2>2 DEF Rows
<1> QED
  BY <1>2, <1>3

LEMMA TwinsInductive ==
  /\ MemoryInit => TwinInvariant
  /\ StoreTypes /\ TwinInvariant /\ [MemoryNext]_memoryVars => TwinInvariant'
<1>1. ASSUME MemoryInit PROVE TwinInvariant
  <2>1. Rows = {} /\ \A p \in Procs : ~job[p].looked
    BY <1>1 DEF MemoryInit, Rows, NoJob
  <2> QED
    BY <2>1 DEF TwinInvariant, TwinsRaced, LookIsGood, Active
<1>2. ASSUME StoreTypes, TwinInvariant, [MemoryNext]_memoryVars PROVE TwinInvariant'
  <2>1. CASE UNCHANGED memoryVars
    <3>1. Rows' = Rows /\ UNCHANGED <<mem, job, raced>>
      BY <2>1 DEF memoryVars, Rows
    <3> QED
      BY <1>2, <3>1, CalmKeepsTwins
  <2>2. ASSUME NEW p \in Procs, QuietStep(p) PROVE TwinInvariant'
    <3>1. \A i \in Rows : mem'[i].text = mem[i].text /\ (mem'[i].active => mem[i].active)
      BY <1>2, <2>2, StoreFacts, AskedKeeps DEF QuietStep
    <3> QED
      BY <1>2, <2>2, <3>1, CalmKeepsTwins DEF QuietStep
  <2>3. ASSUME NEW p \in Procs, Supersede(p) PROVE TwinInvariant'
    <3>1. PICK i \in Rows :
            /\ Rows' = Rows /\ mem'[i] = GivenUp(i, job[p].target)
            /\ \A k \in Rows : k # i => mem'[k] = mem[k]
            /\ \A q \in Procs \ {p} : job'[q] = job[q]
            /\ ~job'[p].looked
      BY <1>2, <2>3, SupersedeFields
    <3>2. mem[i] \in Memo
      BY <1>2, StoreFacts
    <3>3. \A k \in Rows : mem'[k].text = mem[k].text /\ (mem'[k].active => mem[k].active)
      BY <3>1, <3>2, GivenUpFields
    <3>4. raced' = raced
      BY <2>3 DEF Supersede
    <3> QED
      BY <1>2, <3>1, <3>3, <3>4, CalmKeepsTwins
  <2>4. ASSUME NEW p \in Procs, WritePair(p) \/ \E a, b \in Rows : ReadPair(p, a, b)
        PROVE  TwinInvariant'
    <3>1. /\ Rows' = Rows /\ raced' = raced
          /\ \A i \in Rows : mem'[i].text = mem[i].text /\ mem'[i].active = mem[i].active
          /\ \A q \in Procs \ {p} : job'[q] = job[q]
          /\ ~job'[p].looked
      BY <1>2, <2>4, PairFields
    <3> QED
      BY <1>2, <3>1, CalmKeepsTwins
  <2> QED
    BY <1>2, <2>1, <2>2, <2>3, <2>4, StepKinds, LookupKeepsTwins, WriteKeepsTwins
<1> QED
  BY <1>1, <1>2

\* Whatever the number of processes and rows, and whatever the two normal forms: two
\* active memories say the same only if two processes were storing that text at the
\* same time, or the older one is of a text that the lookup never finds because
\* SQLite and Python do not agree about it (_find_exact_duplicate). Imports,
\* migrations and extractions of all others can be repeated, and a crash between
\* the lookup and the insert leaves nothing behind that makes a twin.
THEOREM TwinsComeOfRaces == MemorySpec => []TwinsRaced
<1>1. MemoryInit => StoreTypes /\ TwinInvariant
  BY StoreTypesInductive, TwinsInductive
<1>2. StoreTypes /\ TwinInvariant /\ [MemoryNext]_memoryVars => (StoreTypes /\ TwinInvariant)'
  BY StoreTypesInductive, TwinsInductive
<1>3. TwinInvariant => TwinsRaced
  BY DEF TwinInvariant
<1> QED
  BY <1>1, <1>2, <1>3, PTL DEF MemorySpec

-----------------------------------------------------------------------------
(* A contradiction is mutual *)

Marking(p) == job[p].pair # <<>>

\* What a process read of a memory that nobody else is marking is what it says now.
SeenIsGood ==
  \A p \in Procs, k \in {1, 2} : Marking(p) =>
    /\ job[p].seen[k] \subseteq Rows
    /\ job[p].pair[k] \notin clashed => job[p].seen[k] = mem[job[p].pair[k]].contradicts

PairsClash ==
  \A p, q \in Procs, k, l \in {1, 2} :
    p # q /\ Marking(p) /\ Marking(q) /\ job[p].pair[k] = job[q].pair[l] => job[p].pair[k] \in clashed

LinkInvariant ==
  /\ ContradictionMutual
  /\ \A i \in Rows : mem[i].contradicts \subseteq Rows
  /\ SeenIsGood
  /\ PairsClash

\* Rows keep what they say of others, a new one says nothing, and nobody begins to
\* mark.
LEMMA CalmKeepsLinks ==
  ASSUME StoreTypes, LinkInvariant, clashed' = clashed, Rows \subseteq Rows',
         \A i \in Rows : mem'[i].contradicts = mem[i].contradicts,
         \A i \in Rows' \ Rows : mem'[i].contradicts = {},
         \A p \in Procs : job'[p].pair # <<>> => job'[p].pair = job[p].pair /\ job'[p].seen = job[p].seen
  PROVE  LinkInvariant'
<1>1. \A i \in Rows' : mem'[i].contradicts \subseteq Rows
  BY DEF LinkInvariant
<1>2. ContradictionMutual'
  <2> SUFFICES ASSUME NEW i \in Rows', NEW j \in Rows', j \in mem'[i].contradicts, i \notin mem'[j].contradicts
               PROVE  {i, j} \intersect clashed' # {}
    BY DEF ContradictionMutual
  <2>1. i \in Rows /\ j \in Rows
    BY <1>1
  <2> QED
    BY <2>1 DEF LinkInvariant, ContradictionMutual
<1>3. \A p \in Procs : Marking(p)' => Marking(p) /\ job'[p].pair = job[p].pair /\ job'[p].seen = job[p].seen
  BY DEF Marking
<1>4. \A p \in Procs : Marking(p) => job[p].pair[1] \in Rows /\ job[p].pair[2] \in Rows
  BY StoreFacts DEF ShapeOf, Marking
<1>5. SeenIsGood'
  <2> SUFFICES ASSUME NEW p \in Procs, NEW k \in {1, 2}, Marking(p)'
               PROVE  /\ job'[p].seen[k] \subseteq Rows'
                      /\ job'[p].pair[k] \notin clashed' =>
                           job'[p].seen[k] = mem'[job'[p].pair[k]].contradicts
    BY DEF SeenIsGood
  <2>1. /\ job[p].seen[k] \subseteq Rows
        /\ job[p].pair[k] \notin clashed => job[p].seen[k] = mem[job[p].pair[k]].contradicts
    BY <1>3 DEF LinkInvariant, SeenIsGood
  <2>2. job[p].pair[k] \in Rows
    BY <1>3, <1>4
  <2> QED
    BY <1>3, <2>1, <2>2
<1>6. PairsClash'
  <2> SUFFICES ASSUME NEW p \in Procs, NEW q \in Procs, NEW k \in {1, 2}, NEW l \in {1, 2},
                      p # q, Marking(p)', Marking(q)', job'[p].pair[k] = job'[q].pair[l]
               PROVE  job'[p].pair[k] \in clashed'
    BY DEF PairsClash
  <2> QED
    BY <1>3 DEF LinkInvariant, PairsClash
<1>7. \A i \in Rows' : mem'[i].contradicts \subseteq Rows'
  BY <1>1
<1> QED
  BY <1>2, <1>5, <1>6, <1>7 DEF LinkInvariant

LEMMA ReadPairKeepsLinks ==
  ASSUME StoreTypes, LinkInvariant, NEW p \in Procs,
         NEW a \in Rows, NEW b \in Rows, ReadPair(p, a, b)
  PROVE  LinkInvariant'
<1> DEFINE j == [NoJob EXCEPT !.pair = <<a, b>>, !.seen = <<mem[a].contradicts, mem[b].contradicts>>]
           marked == {i \in {a, b} : \E q \in Procs \ {p} :
                                       \E k \in DOMAIN job[q].pair : job[q].pair[k] = i}
<1>1. job \in [Procs -> Job]
  BY StoreFacts
<1>2. mem' = mem /\ Rows' = Rows /\ clashed' = clashed \union marked /\ job' = [job EXCEPT ![p] = j]
  BY DEF ReadPair, Call, Rows
<1>3. j.pair = <<a, b>> /\ j.seen = <<mem[a].contradicts, mem[b].contradicts>>
  BY DEF NoJob
<1> HIDE DEF j
<1>4. /\ job'[p].pair = <<a, b>> /\ job'[p].seen = <<mem[a].contradicts, mem[b].contradicts>>
      /\ \A q \in Procs \ {p} : job'[q] = job[q]
  BY <1>1, <1>2, <1>3
<1>5. \A q \in Procs \ {p} : Marking(q)' => Marking(q)
  BY <1>4 DEF Marking
<1>6. ContradictionMutual'
  BY <1>2 DEF LinkInvariant, ContradictionMutual
<1>7. SeenIsGood'
  <2> SUFFICES ASSUME NEW q \in Procs, NEW k \in {1, 2}, Marking(q)'
               PROVE  /\ job'[q].seen[k] \subseteq Rows
                      /\ job'[q].pair[k] \notin clashed' => job'[q].seen[k] = mem[job'[q].pair[k]].contradicts
    BY <1>2 DEF SeenIsGood
  <2>1. CASE q = p
    <3>1. mem[a].contradicts \subseteq Rows /\ mem[b].contradicts \subseteq Rows
      BY DEF LinkInvariant
    <3> QED
      BY <1>4, <2>1, <3>1
  <2>2. CASE q # p
    BY <1>2, <1>4, <1>5, <2>2 DEF LinkInvariant, SeenIsGood
  <2> QED
    BY <2>1, <2>2
<1>8. ASSUME NEW q \in Procs \ {p}, NEW k \in {1, 2}, NEW l \in {1, 2}, Marking(q),
             job'[p].pair[k] = job[q].pair[l]
      PROVE  job[q].pair[l] \in clashed'
  <2>1. job[q].pair \in Row \X Row
    BY <1>1, <1>8 DEF Job, Marking
  <2>2. l \in DOMAIN job[q].pair
    BY <2>1
  <2>3. job'[p].pair[k] \in {a, b}
    BY <1>4
  <2> QED
    BY <1>2, <1>8, <2>2, <2>3
<1>9. PairsClash'
  <2> SUFFICES ASSUME NEW q \in Procs, NEW r \in Procs, NEW k \in {1, 2}, NEW l \in {1, 2},
                      q # r, Marking(q)', Marking(r)', job'[q].pair[k] = job'[r].pair[l]
               PROVE  job'[q].pair[k] \in clashed'
    BY DEF PairsClash
  <2>1. CASE q = p
    BY <1>4, <1>5, <1>8, <2>1
  <2>2. CASE r = p
    BY <1>4, <1>5, <1>8, <2>2
  <2>3. CASE q # p /\ r # p
    BY <1>2, <1>4, <1>5, <2>3 DEF LinkInvariant, PairsClash
  <2> QED
    BY <2>1, <2>2, <2>3
<1>10. \A i \in Rows' : mem'[i].contradicts \subseteq Rows'
  BY <1>2 DEF LinkInvariant
<1> QED
  BY <1>6, <1>7, <1>9, <1>10 DEF LinkInvariant

LEMMA WritePairKeepsLinks ==
  ASSUME StoreTypes, LinkInvariant, NEW p \in Procs, WritePair(p)
  PROVE  LinkInvariant'
<1> DEFINE a == job[p].pair[1]
           b == job[p].pair[2]
<1>1. job \in [Procs -> Job] /\ Rows = 1..Len(mem) /\ \A i \in Rows : mem[i] \in Memo
  BY StoreFacts
<1>2. /\ Marking(p) /\ a \in Rows /\ b \in Rows /\ a # b /\ Len(mem') = Len(mem)
      /\ mem'[a] = Marked(p, 1) /\ mem'[b] = Marked(p, 2)
      /\ \A k \in Rows \ {a, b} : mem'[k] = mem[k]
  BY WritePairFacts DEF Marking
<1>3. Rows' = Rows
  BY <1>2 DEF Rows
<1>4. clashed' = clashed /\ job'[p].pair = <<>> /\ \A q \in Procs \ {p} : job'[q] = job[q]
  BY <1>1 DEF WritePair, NoJob
<1>6. /\ job[p].seen[1] \subseteq Rows /\ job[p].seen[2] \subseteq Rows
      /\ a \notin clashed => job[p].seen[1] = mem[a].contradicts
      /\ b \notin clashed => job[p].seen[2] = mem[b].contradicts
  BY <1>2 DEF LinkInvariant, SeenIsGood
<1>7. /\ mem'[a].contradicts = IF b \in job[p].seen[1] THEN mem[a].contradicts
                               ELSE job[p].seen[1] \union {b}
      /\ mem'[b].contradicts = IF a \in job[p].seen[2] THEN mem[b].contradicts
                               ELSE job[p].seen[2] \union {a}
  <2>1. Marked(p, 1) = IF b \in job[p].seen[1] THEN mem[a]
                       ELSE [mem[a] EXCEPT !.contradicts = job[p].seen[1] \union {b}]
    BY DEF Marked
  <2>2. Marked(p, 2) = IF a \in job[p].seen[2] THEN mem[b]
                       ELSE [mem[b] EXCEPT !.contradicts = job[p].seen[2] \union {a}]
    BY DEF Marked
  <2>3. mem[a] \in Memo /\ mem[b] \in Memo
    BY <1>1, <1>2
  <2>4. [mem[a] EXCEPT !.contradicts = job[p].seen[1] \union {b}].contradicts = job[p].seen[1] \union {b}
    BY <2>3 DEF Memo
  <2>5. [mem[b] EXCEPT !.contradicts = job[p].seen[2] \union {a}].contradicts = job[p].seen[2] \union {a}
    BY <2>3 DEF Memo
  <2> QED
    BY <1>2, <2>1, <2>2, <2>4, <2>5
<1>8. /\ a \notin clashed => mem'[a].contradicts = mem[a].contradicts \union {b}
      /\ b \notin clashed => mem'[b].contradicts = mem[b].contradicts \union {a}
  BY <1>6, <1>7
<1>9. ContradictionMutual'
  <2> SUFFICES ASSUME NEW i \in Rows, NEW j \in Rows, j \in mem'[i].contradicts,
                      i \notin mem'[j].contradicts, i \notin clashed, j \notin clashed
               PROVE  FALSE
    BY <1>3, <1>4 DEF ContradictionMutual
  <2>1. j \in mem[i].contradicts => i \in mem[j].contradicts
    BY DEF LinkInvariant, ContradictionMutual
  <2>2. mem[j].contradicts \subseteq mem'[j].contradicts
    BY <1>2, <1>8
  <2>3. j \in mem[i].contradicts \/ (i = a /\ j = b) \/ (i = b /\ j = a)
    BY <1>2, <1>8
  <2>4. ~(i = a /\ j = b) /\ ~(i = b /\ j = a)
    BY <1>8
  <2> QED
    BY <2>1, <2>2, <2>3, <2>4
<1>10. \A i \in Rows' : mem'[i].contradicts \subseteq Rows'
  <2>1. \A i \in Rows : mem[i].contradicts \subseteq Rows
    BY DEF LinkInvariant
  <2>2. mem'[a].contradicts \subseteq Rows /\ mem'[b].contradicts \subseteq Rows
    BY <1>2, <1>6, <1>7, <2>1
  <2> QED
    BY <1>2, <1>3, <2>1, <2>2
<1>11. \A q \in Procs : Marking(q)' => q # p /\ job'[q] = job[q] /\ Marking(q)
  BY <1>4 DEF Marking
<1>12. SeenIsGood'
  <2> SUFFICES ASSUME NEW q \in Procs, NEW k \in {1, 2}, Marking(q)'
               PROVE  /\ job[q].seen[k] \subseteq Rows
                      /\ job[q].pair[k] \notin clashed => job[q].seen[k] = mem'[job[q].pair[k]].contradicts
    BY <1>3, <1>4, <1>11 DEF SeenIsGood
  <2>1. q # p /\ Marking(q)
    BY <1>11
  <2>2. job[q].pair[k] \in Rows
    BY <1>1, <2>1, StoreFacts DEF ShapeOf, Marking
  <2>3. ASSUME job[q].pair[k] \notin clashed PROVE mem'[job[q].pair[k]] = mem[job[q].pair[k]]
    <3>1. job[q].pair[k] # a /\ job[q].pair[k] # b
      BY <1>2, <2>1, <2>3 DEF LinkInvariant, PairsClash
    <3> QED
      BY <1>2, <2>2, <3>1
  <2> QED
    BY <2>1, <2>3 DEF LinkInvariant, SeenIsGood
<1>13. PairsClash'
  BY <1>4, <1>11 DEF LinkInvariant, PairsClash
<1> QED
  BY <1>9, <1>10, <1>12, <1>13 DEF LinkInvariant

\* Looking up and storing leave a contradiction being marked alone.
LEMMA StoringKeepsPairs ==
  ASSUME StoreTypes, NEW p \in Procs, Lookup(p) \/ Commit(p)
  PROVE  /\ clashed' = clashed
         /\ \A q \in Procs : job'[q].pair # <<>> =>
              job'[q].pair = job[q].pair /\ job'[q].seen = job[q].seen
<1>1. job \in [Procs -> Job] /\ job[p] \in Job
  BY StoreFacts
<1>2. CASE Lookup(p)
  <2>1. job'[p].pair = job[p].pair /\ job'[p].seen = job[p].seen
    BY <1>1, <1>2 DEF Lookup, Job
  <2>2. clashed' = clashed /\ \A q \in Procs \ {p} : job'[q] = job[q]
    BY <1>1, <1>2 DEF Lookup
  <2> QED
    BY <2>1, <2>2
<1>3. CASE Commit(p)
  <2>1. job' = [job EXCEPT ![p] = Settled(Stored(p))] /\ clashed' = clashed
    BY <1>3 DEF Commit
  <2>2. Stored(p).pair = job[p].pair /\ Stored(p).seen = job[p].seen
    BY <1>1 DEF Stored, Job
  <2>3. NoJob.pair = <<>>
    BY DEF NoJob
  <2>4. /\ job'[p] = Stored(p) \/ job'[p] = NoJob
        /\ \A q \in Procs \ {p} : job'[q] = job[q]
    BY <1>1, <2>1 DEF Settled
  <2> QED
    BY <2>1, <2>2, <2>3, <2>4
<1> QED
  BY <1>2, <1>3

LEMMA StoringKeepsLinks ==
  ASSUME StoreTypes, LinkInvariant, NEW p \in Procs, Lookup(p) \/ Commit(p)
  PROVE  LinkInvariant'
<1>1. Rows = 1..Len(mem) /\ Len(mem) \in Nat /\ \A i \in Rows : mem[i] \in Memo
  BY StoreFacts
<1>2. /\ Rows \subseteq Rows'
      /\ \A i \in Rows : mem'[i].contradicts = mem[i].contradicts
      /\ \A i \in Rows' \ Rows : mem'[i].contradicts = {}
  <2>1. CASE Lookup(p)
    BY <2>1 DEF Lookup, Rows
  <2>2. CASE Commit(p) /\ job[p].found # 0
    <3> DEFINE i == job[p].found
    <3>1. /\ i \in Rows /\ Len(mem') = Len(mem)
          /\ mem'[i] = [mem[i] EXCEPT !.strength = mem[i].strength + 1]
          /\ \A k \in Rows : k # i => mem'[k] = mem[k]
      BY <2>2, WriteFacts
    <3>2. mem[i] \in Memo
      BY <1>1, <3>1
    <3>3. mem'[i].contradicts = mem[i].contradicts
      BY <3>1, <3>2 DEF Memo
    <3>4. Rows' = Rows
      BY <3>1 DEF Rows
    <3> QED
      BY <3>1, <3>3, <3>4
  <2>3. CASE Commit(p) /\ job[p].found = 0
    <3>1. /\ Len(mem') = Len(mem) + 1 /\ mem'[Len(mem) + 1] = NewRow(p)
          /\ \A i \in Rows : mem'[i] = mem[i]
      BY <2>3, WriteFacts
    <3>2. Rows' = Rows \union {Len(mem) + 1}
      BY <1>1, <3>1 DEF Rows
    <3>3. NewRow(p).contradicts = {}
      BY DEF NewRow
    <3> QED
      BY <3>1, <3>2, <3>3
  <2> QED
    BY <2>1, <2>2, <2>3
<1> QED
  BY <1>2, StoringKeepsPairs, CalmKeepsLinks

LEMMA LinksInductive ==
  /\ MemoryInit => LinkInvariant
  /\ StoreTypes /\ LinkInvariant /\ [MemoryNext]_memoryVars => LinkInvariant'
<1>1. ASSUME MemoryInit PROVE LinkInvariant
  <2>1. Rows = {} /\ \A p \in Procs : job[p].pair = <<>>
    BY <1>1 DEF MemoryInit, Rows, NoJob
  <2> QED
    BY <2>1 DEF LinkInvariant, ContradictionMutual, SeenIsGood, PairsClash, Marking
<1>2. ASSUME StoreTypes, LinkInvariant, [MemoryNext]_memoryVars PROVE LinkInvariant'
  <2>1. CASE UNCHANGED memoryVars
    <3>1. Rows' = Rows /\ UNCHANGED <<mem, job, clashed>>
      BY <2>1 DEF memoryVars, Rows
    <3> QED
      BY <1>2, <3>1, CalmKeepsLinks
  <2>2. ASSUME NEW p \in Procs, QuietStep(p) PROVE LinkInvariant'
    <3>1. \A i \in Rows : mem'[i].contradicts = mem[i].contradicts
      BY <1>2, <2>2, StoreFacts, AskedKeeps DEF QuietStep
    <3> QED
      BY <1>2, <2>2, <3>1, CalmKeepsLinks DEF QuietStep
  <2>3. ASSUME NEW p \in Procs, Supersede(p) PROVE LinkInvariant'
    <3>1. PICK i \in Rows :
            /\ Rows' = Rows /\ mem'[i] = GivenUp(i, job[p].target)
            /\ \A k \in Rows : k # i => mem'[k] = mem[k]
            /\ \A q \in Procs \ {p} : job'[q] = job[q]
            /\ job'[p].pair # <<>> => job'[p].pair = job[p].pair /\ job'[p].seen = job[p].seen
      BY <1>2, <2>3, SupersedeFields
    <3>2. mem[i] \in Memo
      BY <1>2, StoreFacts
    <3>3. \A k \in Rows : mem'[k].contradicts = mem[k].contradicts
      BY <3>1, <3>2, GivenUpFields
    <3>4. clashed' = clashed
      BY <2>3 DEF Supersede
    <3> QED
      BY <1>2, <3>1, <3>3, <3>4, CalmKeepsLinks
  <2> QED
    BY <1>2, <2>1, <2>2, <2>3, StepKinds, StoringKeepsLinks, WritePairKeepsLinks, ReadPairKeepsLinks
<1> QED
  BY <1>1, <1>2

\* Whatever the number of processes and rows: of two memories one of which is said
\* to contradict the other, the other says so too, unless two processes were
\* marking one of them at the same time. A process that ends between its reads and
\* its writes leaves no half of a contradiction.
THEOREM LinksMutual == MemorySpec => []ContradictionMutual
<1>1. MemoryInit => StoreTypes /\ LinkInvariant
  BY StoreTypesInductive, LinksInductive
<1>2. StoreTypes /\ LinkInvariant /\ [MemoryNext]_memoryVars => (StoreTypes /\ LinkInvariant)'
  BY StoreTypesInductive, LinksInductive
<1>3. LinkInvariant => ContradictionMutual
  BY DEF LinkInvariant
<1> QED
  BY <1>1, <1>2, <1>3, PTL DEF MemorySpec

-----------------------------------------------------------------------------
(* Merging loses nothing *)

\* A merged memory is superseded by a later one, or by one Qwen gave back.
SupersededLater(i, t) == t \in Rows /\ (i < t \/ t \in echoed)

\* What a merge supersedes its sources by is stored, and will do for each of them.
TargetIsGood ==
  \A p \in Procs : job[p].sources # {} /\ job[p].todo = <<>> =>
    \A i \in job[p].sources : SupersededLater(i, job[p].target)

MergeInvariant ==
  /\ \A i \in Rows : /\ mem[i].active <=> mem[i].gone = "no"
                     /\ mem[i].gone = "merged" => SupersededLater(i, mem[i].supersededBy)
  /\ TargetIsGood

\* Following what merged memories are superseded by goes to later and later rows
\* until it meets a memory that is not merged, or one that was given back.
LEMMA CirclesAreEchoes ==
  ASSUME StoreTypes, MergeInvariant
  PROVE  MergedKept
<1> DEFINE merged == {i \in Rows : mem[i].gone = "merged"}
<1>1. Rows = 1..Len(mem) /\ Len(mem) \in Nat
  BY StoreFacts
<1>2. ASSUME NEW circle \in SUBSET merged, circle # {},
             \A i \in circle : mem[i].supersededBy \in circle,
             circle \intersect echoed = {}
      PROVE  FALSE
  <2> DEFINE behind == {Len(mem) - i : i \in circle}
  <2>1. \A i \in circle : i \in Rows /\ i \in Nat /\ Len(mem) - i \in Nat
    BY <1>1
  <2>2. behind \in SUBSET Nat /\ behind # {}
    BY <1>2, <2>1
  <2>3. PICK i \in circle : \A k \in circle : Len(mem) - i <= Len(mem) - k
    <3>1. Least(behind) \in behind /\ \A j \in behind : Least(behind) <= j
      BY <2>2, LeastIsLeast
    <3> QED
      BY <3>1
  <2>4. mem[i].supersededBy \in circle /\ mem[i].supersededBy \notin echoed
    BY <1>2
  <2>5. i < mem[i].supersededBy
    BY <2>4 DEF MergeInvariant, SupersededLater
  <2> QED
    BY <1>1, <2>1, <2>3, <2>4, <2>5
<1>3. \A i \in Rows : mem[i].active <=> mem[i].gone = "no"
  BY DEF MergeInvariant
<1>4. \A i \in merged : mem[i].supersededBy \in Rows
  BY DEF MergeInvariant, SupersededLater
<1> QED
  BY <1>2, <1>3, <1>4 DEF MergedKept

\* Rows stay as they are, or are given up on request; what was to be superseded
\* still is, by the same memory.
LEMMA CalmKeepsMerges ==
  ASSUME MergeInvariant, Rows' = Rows, echoed \subseteq echoed',
         \A i \in Rows : \/ /\ mem'[i].active = mem[i].active /\ mem'[i].gone = mem[i].gone
                            /\ mem'[i].supersededBy = mem[i].supersededBy
                         \/ ~mem'[i].active /\ mem'[i].gone = "asked",
         \A p \in Procs : job'[p].sources # {} /\ job'[p].todo = <<>> =>
           /\ job[p].todo = <<>> /\ job'[p].target = job[p].target
           /\ job'[p].sources \subseteq job[p].sources
  PROVE  MergeInvariant'
<1>1. \A i, t : SupersededLater(i, t) => SupersededLater(i, t)'
  BY DEF SupersededLater
<1>2. \A i \in Rows' : /\ mem'[i].active <=> mem'[i].gone = "no"
                       /\ mem'[i].gone = "merged" => SupersededLater(i, mem[i].supersededBy)
                       /\ mem'[i].gone = "merged" => mem'[i].supersededBy = mem[i].supersededBy
  BY DEF MergeInvariant
<1>3. TargetIsGood'
  <2> SUFFICES ASSUME NEW p \in Procs, job'[p].sources # {}, job'[p].todo = <<>>,
                      NEW i \in job'[p].sources
               PROVE  SupersededLater(i, job[p].target)'
    BY DEF TargetIsGood, SupersededLater
  <2>1. i \in job[p].sources /\ job[p].todo = <<>> /\ job'[p].target = job[p].target
    OBVIOUS
  <2>2. SupersededLater(i, job[p].target)
    BY <2>1 DEF MergeInvariant, TargetIsGood
  <2> QED
    BY <2>1, <2>2 DEF SupersededLater
<1> QED
  BY <1>1, <1>2, <1>3 DEF MergeInvariant, SupersededLater

\* The source given up has a memory in its place.
LEMMA SupersedeKeepsMerges ==
  ASSUME StoreTypes, MergeInvariant, NEW p \in Procs, Supersede(p)
  PROVE  MergeInvariant'
<1> DEFINE t == job[p].target
<1>1. PICK i \in job[p].sources :
        /\ i \in Rows /\ Rows' = Rows /\ mem'[i] = GivenUp(i, t)
        /\ \A k \in Rows : k # i => mem'[k] = mem[k]
        /\ \A q \in Procs \ {p} : job'[q] = job[q]
        /\ job[p].todo = <<>> /\ job'[p].sources \subseteq job[p].sources
        /\ job'[p].sources # {} => job'[p].target = t
  BY SupersedeFields
<1>2. mem[i] \in Memo
  BY <1>1, StoreFacts
<1>3. /\ ~GivenUp(i, t).active /\ GivenUp(i, t).supersededBy = t
      /\ GivenUp(i, t).gone \in {"asked", "merged"}
  BY <1>2, GivenUpFields
<1>4. echoed' = echoed
  BY DEF Supersede
<1>5. \A k, u : SupersededLater(k, u)' <=> u \in Rows /\ (k < u \/ u \in echoed)
  BY <1>1, <1>4 DEF SupersededLater
<1>6. \A k \in job[p].sources : SupersededLater(k, t)
  BY <1>1 DEF MergeInvariant, TargetIsGood
<1>7. ASSUME NEW k \in Rows
      PROVE  /\ mem'[k].active <=> mem'[k].gone = "no"
             /\ mem'[k].gone = "merged" => /\ mem'[k].supersededBy \in Rows
                                           /\ k < mem'[k].supersededBy \/ mem'[k].supersededBy \in echoed
  <2>1. CASE k = i
    BY <1>1, <1>3, <1>6, <2>1 DEF SupersededLater
  <2>2. CASE k # i
    BY <1>1, <2>2 DEF MergeInvariant, SupersededLater
  <2> QED
    BY <2>1, <2>2
<1>8. ASSUME NEW q \in Procs, job'[q].sources # {}, job'[q].todo = <<>>, NEW k \in job'[q].sources
      PROVE  job'[q].target \in Rows /\ (k < job'[q].target \/ job'[q].target \in echoed)
  <2>1. CASE q = p
    BY <1>1, <1>6, <1>8, <2>1 DEF SupersededLater
  <2>2. CASE q # p
    BY <1>1, <1>8, <2>2 DEF MergeInvariant, TargetIsGood, SupersededLater
  <2> QED
    BY <2>1, <2>2
<1> QED
  BY <1>1, <1>4, <1>7, <1>8 DEF MergeInvariant, TargetIsGood, SupersededLater

\* What a merge is answered with is stored at the end of the table, or was in it.
LEMMA WriteKeepsMerges ==
  ASSUME StoreTypes, MergeInvariant, NEW p \in Procs, Commit(p)
  PROVE  MergeInvariant'
<1> DEFINE f == job[p].found
           new == Len(mem) + 1
           t == IF f # 0 THEN f ELSE new
           Later(i, u) == u \in Rows' /\ (i < u \/ u \in echoed')
<1>1. /\ Rows = 1..Len(mem) /\ Len(mem) \in Nat /\ \A i \in Rows : mem[i] \in Memo
      /\ job \in [Procs -> Job] /\ job[p] \in Job /\ ShapeOf(job[p], Len(mem))
  BY StoreFacts
<1>2. /\ f # 0 => /\ f \in Rows /\ Len(mem') = Len(mem)
                  /\ mem'[f] = [mem[f] EXCEPT !.strength = mem[f].strength + 1]
                  /\ \A i \in Rows : i # f => mem'[i] = mem[i]
      /\ f = 0 => /\ Len(mem') = new /\ mem'[new] = NewRow(p)
                  /\ \A i \in Rows : mem'[i] = mem[i]
      /\ job' = [job EXCEPT ![p] = Settled(Stored(p))]
  BY WriteFacts
<1>3. Rows \subseteq Rows' /\ t \in Rows' /\ \A i \in Rows' : i \in Rows \/ (f = 0 /\ i = new)
  BY <1>1, <1>2 DEF Rows
<1>4. echoed \subseteq echoed' /\ (job[p].sources # {} /\ f # 0 => f \in echoed')
  BY DEF Commit
<1>5. \A i \in Rows : /\ mem'[i].active = mem[i].active /\ mem'[i].gone = mem[i].gone
                      /\ mem'[i].supersededBy = mem[i].supersededBy
  <2>1. CASE f # 0
    <3>1. f \in Rows /\ mem[f] \in Memo
      BY <1>1, <1>2, <2>1
    <3>2. /\ mem'[f].active = mem[f].active /\ mem'[f].gone = mem[f].gone
          /\ mem'[f].supersededBy = mem[f].supersededBy
      BY <1>2, <2>1, <3>1 DEF Memo
    <3> QED
      BY <1>2, <2>1, <3>2
  <2>2. CASE f = 0
    BY <1>2, <2>2
  <2> QED
    BY <2>1, <2>2
<1>6. NewRow(p).active /\ NewRow(p).gone = "no"
  BY DEF NewRow
<1>7. ASSUME NEW i \in Rows'
      PROVE  /\ mem'[i].active <=> mem'[i].gone = "no"
             /\ mem'[i].gone = "merged" => Later(i, mem'[i].supersededBy)
  <2>1. CASE i \in Rows
    BY <1>3, <1>4, <1>5, <2>1 DEF MergeInvariant, SupersededLater
  <2>2. CASE f = 0 /\ i = new
    BY <1>2, <1>6, <2>2
  <2> QED
    BY <1>3, <2>1, <2>2
<1>8. /\ \A q \in Procs \ {p} : job'[q] = job[q]
      /\ job'[p].sources # {} =>
           /\ job'[p].sources = job[p].sources
           /\ job'[p].target = t
  <2>1. /\ Stored(p).sources = job[p].sources
        /\ job[p].sources # {} => Stored(p).target = t
    BY <1>1 DEF Stored, Job
  <2>2. NoJob.sources = {}
    BY DEF NoJob
  <2>3. job'[p] = Stored(p) \/ job'[p] = NoJob
    BY <1>1, <1>2 DEF Settled
  <2>4. \A q \in Procs \ {p} : job'[q] = job[q]
    BY <1>1, <1>2
  <2> QED
    BY <2>1, <2>2, <2>3, <2>4
<1>9. ASSUME NEW q \in Procs, job'[q].sources # {}, job'[q].todo = <<>>, NEW i \in job'[q].sources
      PROVE  Later(i, job'[q].target)
  <2>1. CASE q = p
    <3>1. i \in Rows /\ job[p].sources # {} /\ job'[p].target = t
      BY <1>1, <1>8, <1>9, <2>1 DEF ShapeOf
    <3>2. i < t \/ t \in echoed'
      BY <1>1, <1>4, <3>1
    <3> QED
      BY <1>3, <2>1, <3>1, <3>2 DEF SupersededLater
  <2>2. CASE q # p
    <3>1. SupersededLater(i, job[q].target) /\ job'[q] = job[q]
      BY <1>8, <1>9, <2>2 DEF MergeInvariant, TargetIsGood
    <3> QED
      BY <1>3, <1>4, <3>1 DEF SupersededLater
  <2> QED
    BY <2>1, <2>2
<1> QED
  BY <1>7, <1>9 DEF MergeInvariant, TargetIsGood, SupersededLater

LEMMA MergesInductive ==
  /\ MemoryInit => MergeInvariant
  /\ StoreTypes /\ MergeInvariant /\ [MemoryNext]_memoryVars => MergeInvariant'
<1>1. ASSUME MemoryInit PROVE MergeInvariant
  <2>1. Rows = {} /\ \A p \in Procs : job[p].sources = {}
    BY <1>1 DEF MemoryInit, Rows, NoJob
  <2> QED
    BY <2>1 DEF MergeInvariant, TargetIsGood
<1>2. ASSUME StoreTypes, MergeInvariant, [MemoryNext]_memoryVars PROVE MergeInvariant'
  <2>1. CASE UNCHANGED memoryVars
    <3>1. Rows' = Rows /\ UNCHANGED <<mem, job, echoed>>
      BY <2>1 DEF memoryVars, Rows
    <3> QED
      BY <1>2, <3>1, CalmKeepsMerges
  <2>2. ASSUME NEW p \in Procs, QuietStep(p) PROVE MergeInvariant'
    <3>1. \A i \in Rows : mem'[i] = mem[i] \/ (~mem'[i].active /\ mem'[i].gone = "asked")
      BY <1>2, <2>2, StoreFacts, AskedKeeps DEF QuietStep
    <3> QED
      BY <1>2, <2>2, <3>1, CalmKeepsMerges DEF QuietStep
  <2>3. ASSUME NEW p \in Procs, Lookup(p) PROVE MergeInvariant'
    <3>1. job \in [Procs -> Job] /\ job[p] \in Job
      BY <1>2, StoreFacts
    <3>2. job'[p].todo = job[p].todo /\ job[p].todo # <<>> /\ \A q \in Procs \ {p} : job'[q] = job[q]
      BY <2>3, <3>1 DEF Lookup, Job
    <3>3. UNCHANGED <<mem, echoed>> /\ Rows' = Rows
      BY <2>3 DEF Lookup, Rows
    <3> QED
      BY <1>2, <3>2, <3>3, CalmKeepsMerges
  <2>4. ASSUME NEW p \in Procs, WritePair(p) \/ \E a, b \in Rows : ReadPair(p, a, b)
        PROVE  MergeInvariant'
    <3>1. /\ Rows' = Rows /\ echoed' = echoed
          /\ \A i \in Rows : /\ mem'[i].active = mem[i].active /\ mem'[i].gone = mem[i].gone
                             /\ mem'[i].supersededBy = mem[i].supersededBy
          /\ \A q \in Procs \ {p} : job'[q] = job[q]
          /\ job'[p].sources = {}
      BY <1>2, <2>4, PairFields
    <3> QED
      BY <1>2, <3>1, CalmKeepsMerges
  <2> QED
    BY <1>2, <2>1, <2>2, <2>3, <2>4, StepKinds, SupersedeKeepsMerges, WriteKeepsMerges
<1> QED
  BY <1>1, <1>2

\* Whatever the number of processes, rows and merges, and wherever one ends or
\* another comes between: what a memory was merged into is in the store, and
\* following that one comes to a memory that was not merged, unless one meets a
\* memory that a merge was answered with instead of a new one.
THEOREM MergesKept == MemorySpec => []MergedKept
<1>1. MemoryInit => StoreTypes /\ MergeInvariant
  BY StoreTypesInductive, MergesInductive
<1>2. StoreTypes /\ MergeInvariant /\ [MemoryNext]_memoryVars => (StoreTypes /\ MergeInvariant)'
  BY StoreTypesInductive, MergesInductive
<1>3. StoreTypes /\ MergeInvariant => MergedKept
  BY CirclesAreEchoes
<1> QED
  BY <1>1, <1>2, <1>3, PTL DEF MemorySpec
=============================================================================
