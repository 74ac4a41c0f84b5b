------------------------- MODULE SessionQueue_proofs -------------------------
(***************************************************************************)
(* What SessionQueue guarantees for every number of rows, every bound and  *)
(* every clock skew.                                                       *)
(***************************************************************************)
EXTENDS SessionQueue, TLAPS

\* The helpers the retries are built from stay within their types.
LEMMA ResetTyped ==
  ASSUME TypeOK, ResetStuckProcessingRows
  PROVE  /\ kind' \in [Rows -> Kinds \union {"none"}]
         /\ status' \in [Rows -> {"none", "pending", "completed", "failed"}]
         /\ tries' \in [Rows -> 0..MaxTries]
         /\ due' \in [Rows -> Int]
<1>1. \A m \in Retried : tries[m] + 1 \in 0..MaxTries /\ Backoff[tries[m]] \in Int
  BY CountsAssumption, ChoicesAssumption
     DEF TypeOK, Retried, GivenUp, Resettable, Claims, Exhausted
<1> QED
  BY <1>1 DEF TypeOK, ResetStuckProcessingRows

\* Every step keeps every variable in its type.
LEMMA TypeInductive == TypeOK /\ [Next]_vars => TypeOK'
<1> SUFFICES ASSUME TypeOK, [Next]_vars PROVE TypeOK'
  OBVIOUS
<1> USE CountsAssumption, ChoicesAssumption DEF TypeOK, RunnerStates, Polling
<1>1. ASSUME NEW m \in Rows, NEW k \in Kinds, RouteInbound(m, k) PROVE TypeOK'
  <2>1. waking' \in BOOLEAN /\ UNCHANGED <<outbound, beat, quiet, process, tracked, sweep>>
    BY <1>1 DEF RouteInbound, WakeContainer
  <2>2. /\ kind' \in [Rows -> Kinds \union {"none"}]
        /\ status' \in [Rows -> {"none", "pending", "completed", "failed"}]
        /\ due' \in [Rows -> Int]
        /\ UNCHANGED <<tries, host, turn, faults>>
    BY <1>1 DEF RouteInbound, InsertRow
  <2> QED
    BY <2>1, <2>2 DEF outbound, process
<1>2. ASSUME NEW m \in Rows, NEW d \in Delays, ScheduleTask(m, d) PROVE TypeOK'
  BY <1>2 DEF ScheduleTask, InsertRow, outbound, process, hostMem
<1>3. CASE SpawnContainer
  BY <1>3 DEF SpawnContainer, inbound, outbound, Absent
<1>4. CASE WakeFails
  <2>1. faults' \in 0..MaxFaults
    BY <1>4 DEF WakeFails
  <2> QED
    BY <1>4, <2>1 DEF WakeFails, inbound, outbound, process
<1>5. CASE ContainerClosed
  BY <1>5 DEF ContainerClosed, inbound, outbound, process
<1>6. CASE SweepBegin
  BY <1>6 DEF SweepBegin, Synced, WakeContainer, outbound, process
<1>7. CASE SweepFindsHealthy
  BY <1>7 DEF SweepFindsHealthy, inbound, outbound, process
<1>8. CASE SweepFindsStuck
  BY <1>8 DEF SweepFindsStuck, inbound, outbound, process
<1>9. CASE SweepFindsDown
  BY <1>9, ResetTyped DEF SweepFindsDown, outbound, process
<1>10. CASE KillContainer
  BY <1>10, ResetTyped DEF KillContainer, RunnerDies, outbound
<1>11. CASE HostCrash
  <2>1. faults' \in 0..MaxFaults
    BY <1>11 DEF HostCrash
  <2> QED
    BY <1>11, <2>1 DEF HostCrash, inbound, outbound, process
<1>12. CASE HostStart
  BY <1>12 DEF HostStart, CleanupOrphans, RunnerDies, inbound, outbound
<1>13. CASE Boot
  BY <1>13 DEF Boot, ClearStaleProcessingAcks, runnerFrame, inbound, hostMem
<1>14. CASE IdleBeat
  BY <1>14 DEF IdleBeat, runnerFrame, inbound, outbound, process, hostMem
<1>15. CASE OpenWindow
  BY <1>15 DEF OpenWindow, runnerFrame, inbound, outbound, hostMem
<1>16. CASE ClaimBatch
  BY <1>16 DEF ClaimBatch, PendingMessages, Newest, DueForRunner, SetTurn,
               runnerFrame, inbound, hostMem
<1>17. CASE StartQuery
  BY <1>17 DEF StartQuery, MarkCompleted, runnerFrame, inbound, hostMem
<1>18. CASE PushFollowUps
  BY <1>18 DEF PushFollowUps, PendingMessages, Newest, DueForRunner, SetTurn,
               MarkCompleted, runnerFrame, inbound, hostMem
<1>19. CASE QueryBeat
  BY <1>19 DEF QueryBeat, runnerFrame, inbound, outbound, process, hostMem
<1>20. ASSUME NEW t \in BashTimeouts, BashStarts(t) PROVE TypeOK'
  BY <1>20 DEF BashStarts, runnerFrame, inbound, hostMem
<1>21. CASE BashEnds
  BY <1>21 DEF BashEnds, runnerFrame, inbound, hostMem
<1>22. CASE TurnResult
  BY <1>22 DEF TurnResult, MarkCompleted, SetTurn, runnerFrame, inbound, hostMem
<1>23. CASE DispatchReply
  BY <1>23 DEF DispatchReply, SetTurn, runnerFrame, inbound, outbound, hostMem
<1>24. CASE CompactBoundary
  BY <1>24 DEF CompactBoundary, MarkCompleted, runnerFrame, inbound, process, hostMem
<1>25. CASE QueryFails
  BY <1>25 DEF QueryFails, LeaveQuery, MarkCompleted, SetTurn, runnerFrame, inbound, hostMem
<1>26. CASE QueryEnds
  BY <1>26 DEF QueryEnds, LeaveQuery, MarkCompleted, runnerFrame, inbound, hostMem
<1>27. CASE QueryHangs
  BY <1>27 DEF QueryHangs, runnerFrame, inbound, outbound, hostMem
<1>28. CASE ContainerCrash
  <2>1. faults' \in 0..MaxFaults
    BY <1>28 DEF ContainerCrash
  <2> QED
    BY <1>28, <2>1 DEF ContainerCrash, RunnerDies, inbound, outbound, hostMem
<1>29. CASE Tick
  BY <1>29 DEF Tick, process, hostMem
<1>30. CASE UNCHANGED vars
  BY <1>30 DEF vars, inbound, outbound, process, hostMem
<1>31. CASE OwnPrompt
  <2>1. runner' \in RunnerStates /\ own' \in BOOLEAN
    BY <1>31 DEF OwnPrompt
  <2> QED
    BY <1>31, <2>1 DEF OwnPrompt, runnerFrame, inbound, outbound, hostMem
<1> QED
  BY <1>1, <1>2, <1>3, <1>4, <1>5, <1>6, <1>7, <1>8, <1>9, <1>10, <1>11, <1>12,
     <1>13, <1>14, <1>15, <1>16, <1>17, <1>18, <1>19, <1>20, <1>21, <1>22, <1>23,
     <1>24, <1>25, <1>26, <1>27, <1>28, <1>29, <1>30, <1>31
     DEF Next, HostNext, RunnerNext

\* Initially every variable has its type.
LEMMA TypeInit == Init => TypeOK
<1> SUFFICES ASSUME Init PROVE TypeOK
  OBVIOUS
<1>1. /\ tries \in [Rows -> 0..MaxTries] /\ due \in [Rows -> Int]
      /\ claimAge \in [Rows -> Nat] /\ beat \in Nat \union {Absent} /\ quiet \in Nat
      /\ faults \in 0..MaxFaults
  BY CountsAssumption DEF Init
<1>2. /\ kind \in [Rows -> Kinds \union {"none"}]
      /\ status \in [Rows -> {"none", "pending", "completed", "failed"}]
      /\ ack \in [Rows -> {"none", "processing", "completed"}]
      /\ turn \in [Rows -> {"none", "prompted", "settled"}]
  BY DEF Init
<1>3. /\ bash \in BashTimeouts \union {0} /\ running \in BashTimeouts \union {0}
      /\ runner \in RunnerStates /\ batch \in SUBSET Rows /\ live \in SUBSET Rows
      /\ own \in BOOLEAN
  BY DEF Init, RunnerStates
<1>4. /\ tracked \in BOOLEAN /\ waking \in BOOLEAN
      /\ sweep \in {"idle", "awaiting", "resuming", "killing"} /\ host \in {"up", "down"}
  BY DEF Init
<1> QED
  BY <1>1, <1>2, <1>3, <1>4 DEF TypeOK

\* Type correctness, for every instance.
THEOREM TypeCorrect == Spec => []TypeOK
  BY TypeInit, TypeInductive, PTL DEF Spec
-----------------------------------------------------------------------------
(* The invariant.  What a step of the runner cannot touch is said once.    *)

\* The container writes neither the host's maps nor inbound.db, and only a
\* live container acts.
LEMMA RunnerFrame ==
  ASSUME RunnerNext
  PROVE  runner # "down" /\ UNCHANGED <<inbound, hostMem>>
<1> USE DEF runnerFrame
<1>1. ASSUME NEW t \in BashTimeouts, BashStarts(t)
      PROVE  runner # "down" /\ UNCHANGED <<inbound, hostMem>>
  BY <1>1 DEF BashStarts, Busy
<1>2. CASE Boot \/ IdleBeat \/ OpenWindow \/ ClaimBatch \/ StartQuery
  BY <1>2 DEF Boot, IdleBeat, OpenWindow, ClaimBatch, StartQuery, Polling
<1>3. CASE PushFollowUps \/ QueryBeat \/ BashEnds \/ TurnResult \/ DispatchReply
  BY <1>3 DEF PushFollowUps, QueryBeat, Busy, BashEnds, TurnResult, DispatchReply
<1>4. CASE CompactBoundary \/ QueryFails \/ QueryEnds \/ QueryHangs \/ ContainerCrash
  BY <1>4 DEF CompactBoundary, Busy, QueryFails, QueryEnds, QueryHangs, ContainerCrash
<1>5. CASE OwnPrompt
  BY <1>5 DEF OwnPrompt, Busy
<1> QED
  BY <1>1, <1>2, <1>3, <1>4, <1>5 DEF RunnerNext

\* The maps of the host keep covering the container.
LEMMA HostInductive ==
  ASSUME TypeOK, TrackedCoversRunner, WakeIsForTheUntracked, MapsDieWithHost,
         [Next]_vars
  PROVE  TrackedCoversRunner' /\ WakeIsForTheUntracked' /\ MapsDieWithHost'
<1> USE DEF TypeOK, TrackedCoversRunner, WakeIsForTheUntracked, MapsDieWithHost
<1> DEFINE Goal == TrackedCoversRunner' /\ WakeIsForTheUntracked' /\ MapsDieWithHost'
<1>1. ASSUME NEW m \in Rows, NEW k \in Kinds, RouteInbound(m, k) PROVE Goal
  BY <1>1 DEF RouteInbound, HostFree, WakeContainer, process
<1>2. ASSUME NEW m \in Rows, NEW d \in Delays, ScheduleTask(m, d) PROVE Goal
  BY <1>2 DEF ScheduleTask, process, hostMem
<1>3. CASE SpawnContainer
  BY <1>3 DEF SpawnContainer, HostFree
<1>4. CASE WakeFails
  BY <1>4 DEF WakeFails, process
<1>5. CASE ContainerClosed
  BY <1>5 DEF ContainerClosed, process
<1>6. CASE SweepBegin
  BY <1>6 DEF SweepBegin, HostFree, WakeContainer, process
<1>7. CASE SweepFindsHealthy \/ SweepFindsStuck \/ SweepFindsDown
  BY <1>7 DEF SweepFindsHealthy, SweepFindsStuck, SweepFindsDown, process
<1>8. CASE KillContainer
  BY <1>8 DEF KillContainer, RunnerDies
<1>9. CASE HostCrash
  BY <1>9 DEF HostCrash, process
<1>10. CASE HostStart
  BY <1>10 DEF HostStart, CleanupOrphans, RunnerDies
<1>11. CASE RunnerNext
  BY <1>11, RunnerFrame DEF hostMem
<1>12. CASE Tick \/ UNCHANGED vars
  BY <1>12 DEF Tick, vars, process, hostMem
<1> QED
  BY <1>1, <1>2, <1>3, <1>4, <1>5, <1>6, <1>7, <1>8, <1>9, <1>10, <1>11, <1>12
     DEF Next, HostNext

\* A runner that has nothing in hand really has nothing, and an open claim is
\* in the hand of the runner or left by a dead one.
LEMMA HandInductive ==
  ASSUME TypeOK, TrackedCoversRunner, WakeIsForTheUntracked,
         NothingInHand, ClaimsHaveOwner, [Next]_vars
  PROVE  NothingInHand' /\ ClaimsHaveOwner'
<1> USE DEF TypeOK, NothingInHand, ClaimsHaveOwner, Claims, Polling
<1> DEFINE Goal == NothingInHand' /\ ClaimsHaveOwner'
<1>1. CASE UNCHANGED <<process, ack>>
  BY <1>1 DEF process
<1>2. CASE RunnerDies /\ UNCHANGED ack
  BY <1>2 DEF RunnerDies
<1>3. ASSUME NEW m \in Rows, NEW k \in Kinds, RouteInbound(m, k) PROVE Goal
  BY <1>1, <1>3 DEF RouteInbound, outbound
<1>4. ASSUME NEW m \in Rows, NEW d \in Delays, ScheduleTask(m, d) PROVE Goal
  BY <1>1, <1>4 DEF ScheduleTask, outbound
<1>5. CASE SpawnContainer
  <2>1. runner = "down"
    BY <1>5 DEF SpawnContainer, HostFree, TrackedCoversRunner, WakeIsForTheUntracked
  <2> QED
    BY <1>5, <2>1 DEF SpawnContainer, outbound
<1>6. CASE \/ WakeFails \/ ContainerClosed \/ SweepBegin \/ SweepFindsHealthy
           \/ SweepFindsStuck \/ SweepFindsDown \/ HostCrash
  BY <1>1, <1>6 DEF WakeFails, ContainerClosed, SweepBegin, SweepFindsHealthy,
     SweepFindsStuck, SweepFindsDown, HostCrash, outbound
<1>7. CASE KillContainer \/ HostStart \/ ContainerCrash
  BY <1>2, <1>7 DEF KillContainer, HostStart, CleanupOrphans, ContainerCrash, outbound
<1>8. CASE Boot
  BY <1>8 DEF Boot, ClearStaleProcessingAcks
<1>9. CASE IdleBeat \/ QueryBeat \/ Tick \/ UNCHANGED vars
  BY <1>1, <1>9 DEF IdleBeat, QueryBeat, Tick, vars, outbound
<1>10. CASE OpenWindow \/ QueryHangs
  BY <1>10 DEF OpenWindow, QueryHangs, Busy, outbound
<1>11. CASE ClaimBatch
  BY <1>11 DEF ClaimBatch
<1>12. CASE StartQuery
  BY <1>12 DEF StartQuery, MarkCompleted
<1>13. CASE PushFollowUps
  BY <1>13 DEF PushFollowUps, MarkCompleted
<1>14. ASSUME NEW t \in BashTimeouts, BashStarts(t) PROVE Goal
  BY <1>14 DEF BashStarts, Busy
<1>15. CASE BashEnds
  BY <1>15 DEF BashEnds
<1>16. CASE TurnResult \/ CompactBoundary
  BY <1>16 DEF TurnResult, CompactBoundary, Busy, MarkCompleted, process
<1>17. CASE DispatchReply
  BY <1>17 DEF DispatchReply, outbound
<1>18. CASE QueryFails \/ QueryEnds
  BY <1>18 DEF QueryFails, QueryEnds, LeaveQuery, MarkCompleted
<1>19. CASE OwnPrompt
  BY <1>19 DEF OwnPrompt, outbound
<1> QED
  BY <1>3, <1>4, <1>5, <1>6, <1>7, <1>8, <1>9, <1>10, <1>11, <1>12, <1>13, <1>14,
     <1>15, <1>16, <1>17, <1>18, <1>19 DEF Next, HostNext, RunnerNext

\* A sweep that retries and gives up rows touches neither an acknowledged row
\* nor one that was never written.
LEMMA ResetFacts ==
  ASSUME TypeOK, ResetStuckProcessingRows
  PROVE  \A m \in Rows :
           \/ status'[m] = status[m]
           \/ status[m] = "pending" /\ status'[m] = "failed" /\ ack[m] = "processing"
  BY DEF TypeOK, ResetStuckProcessingRows, GivenUp, Resettable, Claims

\* What getPendingMessages returns is pending, due and not yet acknowledged.
LEMMA PendingFacts ==
  \A m \in PendingMessages :
    m \in Rows /\ status[m] = "pending" /\ ack[m] = "none"
  BY DEF PendingMessages, Newest, DueForRunner

\* Status, acknowledgement and progress of the rows keep fitting together.
LEMMA RowInductive ==
  ASSUME TypeOK, TrackedCoversRunner, NothingInHand, HeldRowsAreOpenToAck,
         HeldRowsWerePrompted, AckFitsRow, [Next]_vars
  PROVE  HeldRowsAreOpenToAck' /\ HeldRowsWerePrompted' /\ AckFitsRow'
<1> USE DEF TypeOK, HeldRowsAreOpenToAck, HeldRowsWerePrompted, AckFitsRow, Polling
<1> DEFINE Goal == HeldRowsAreOpenToAck' /\ HeldRowsWerePrompted' /\ AckFitsRow'
<1>1. CASE UNCHANGED <<status, ack, turn, runner, batch, live>>
  BY <1>1
<1>2. CASE UNCHANGED <<status, ack, turn>> /\ RunnerDies
  BY <1>2 DEF RunnerDies
<1>3. ASSUME NEW m \in Rows, NEW k \in Kinds, RouteInbound(m, k) PROVE Goal
  BY <1>3 DEF RouteInbound, InsertRow, outbound, process
<1>4. ASSUME NEW m \in Rows, NEW d \in Delays, ScheduleTask(m, d) PROVE Goal
  BY <1>4 DEF ScheduleTask, InsertRow, outbound, process
<1>5. CASE SpawnContainer
  BY <1>5 DEF SpawnContainer, inbound, outbound
<1>6. CASE WakeFails \/ ContainerClosed \/ SweepFindsHealthy \/ SweepFindsStuck
  BY <1>1, <1>6 DEF WakeFails, ContainerClosed, SweepFindsHealthy, SweepFindsStuck,
     inbound, outbound, process
<1>7. CASE SweepBegin
  BY <1>7 DEF SweepBegin, Synced, outbound, process
<1>8. CASE KillContainer
  BY <1>8, ResetFacts DEF KillContainer, RunnerDies, outbound
<1>9. CASE SweepFindsDown
  <2>1. batch = {} /\ live = {}
    BY <1>9 DEF SweepFindsDown, TrackedCoversRunner, NothingInHand
  <2> QED
    BY <1>9, <2>1, ResetFacts DEF SweepFindsDown, outbound, process
<1>10. CASE HostStart \/ ContainerCrash
  BY <1>2, <1>10 DEF HostStart, CleanupOrphans, ContainerCrash, inbound, outbound
<1>11. CASE HostCrash \/ IdleBeat \/ QueryBeat \/ Tick \/ UNCHANGED vars
  BY <1>1, <1>11 DEF HostCrash, IdleBeat, QueryBeat, Tick, vars, runnerFrame,
     inbound, outbound, process
<1>12. CASE Boot
  BY <1>12 DEF Boot, ClearStaleProcessingAcks, runnerFrame, inbound
<1>13. CASE OpenWindow \/ QueryHangs
  BY <1>13 DEF OpenWindow, QueryHangs, Busy, runnerFrame, inbound, outbound
<1>14. CASE ClaimBatch
  <2>1. live = {}
    BY <1>14 DEF ClaimBatch, NothingInHand
  <2> QED
    BY <1>14, <2>1, PendingFacts DEF ClaimBatch, SetTurn, runnerFrame, inbound
<1>15. CASE StartQuery
  BY <1>15 DEF StartQuery, MarkCompleted, runnerFrame, inbound
<1>16. CASE PushFollowUps
  BY <1>16, PendingFacts DEF PushFollowUps, MarkCompleted, SetTurn, runnerFrame, inbound
<1>17. ASSUME NEW t \in BashTimeouts, BashStarts(t) PROVE Goal
  BY <1>17 DEF BashStarts, Busy, runnerFrame, inbound
<1>18. CASE BashEnds
  BY <1>18 DEF BashEnds, runnerFrame, inbound
<1>19. CASE TurnResult
  BY <1>19 DEF TurnResult, Busy, MarkCompleted, SetTurn, runnerFrame, inbound
<1>20. CASE DispatchReply
  BY <1>20 DEF DispatchReply, runnerFrame, inbound, outbound, process
<1>21. CASE CompactBoundary
  BY <1>21 DEF CompactBoundary, Busy, MarkCompleted, runnerFrame, inbound, process
<1>22. CASE QueryFails
  BY <1>22 DEF QueryFails, LeaveQuery, MarkCompleted, SetTurn, runnerFrame, inbound
<1>23. CASE QueryEnds
  BY <1>23 DEF QueryEnds, LeaveQuery, MarkCompleted, runnerFrame, inbound
<1>24. CASE OwnPrompt
  BY <1>24 DEF OwnPrompt, NothingInHand, runnerFrame, inbound, outbound
<1> QED
  BY <1>3, <1>4, <1>5, <1>6, <1>7, <1>8, <1>9, <1>10, <1>11, <1>12, <1>13, <1>14,
     <1>15, <1>16, <1>17, <1>18, <1>19, <1>20, <1>21, <1>22, <1>23, <1>24
     DEF Next, HostNext, RunnerNext

\* The hooks keep container_state in step with the Bash call that runs.
LEMMA DeclaredInductive ==
  ASSUME TypeOK, RunningIsDeclared, [Next]_vars
  PROVE  RunningIsDeclared'
<1> USE DEF RunningIsDeclared
<1>1. CASE UNCHANGED <<running, bash>>
  BY <1>1
<1>2. CASE running' = 0
  BY <1>2
<1>3. ASSUME NEW m \in Rows, NEW k \in Kinds, RouteInbound(m, k) PROVE RunningIsDeclared'
  BY <1>3 DEF RouteInbound, outbound, process
<1>4. ASSUME NEW m \in Rows, NEW d \in Delays, ScheduleTask(m, d) PROVE RunningIsDeclared'
  BY <1>4 DEF ScheduleTask, outbound, process
<1>5. CASE \/ SpawnContainer \/ WakeFails \/ ContainerClosed \/ SweepBegin \/ SweepFindsHealthy
           \/ SweepFindsStuck \/ SweepFindsDown \/ HostCrash \/ Tick \/ UNCHANGED vars
  BY <1>1, <1>5 DEF SpawnContainer, WakeFails, ContainerClosed, SweepBegin, SweepFindsHealthy,
     SweepFindsStuck, SweepFindsDown, HostCrash, Tick, vars, outbound, process
<1>6. CASE KillContainer \/ HostStart \/ ContainerCrash \/ QueryFails \/ QueryEnds
  BY <1>2, <1>6 DEF KillContainer, HostStart, CleanupOrphans, ContainerCrash, QueryFails,
     QueryEnds, LeaveQuery, RunnerDies
<1>7. CASE \/ Boot \/ IdleBeat \/ OpenWindow \/ ClaimBatch \/ StartQuery \/ PushFollowUps
           \/ OwnPrompt \/ QueryBeat
  BY <1>1, <1>7 DEF Boot, IdleBeat, OpenWindow, ClaimBatch, StartQuery, PushFollowUps,
     OwnPrompt, QueryBeat, outbound, process
<1>8. CASE TurnResult \/ DispatchReply \/ CompactBoundary \/ QueryHangs
  BY <1>1, <1>8 DEF TurnResult, DispatchReply, CompactBoundary, QueryHangs,
     outbound, process
<1>9. ASSUME NEW t \in BashTimeouts, BashStarts(t) PROVE RunningIsDeclared'
  BY <1>9 DEF BashStarts
<1>10. CASE BashEnds
  BY <1>10 DEF BashEnds
<1> QED
  BY <1>3, <1>4, <1>5, <1>6, <1>7, <1>8, <1>9, <1>10 DEF Next, HostNext, RunnerNext

\* The heartbeat file and the claims in hand are of the container that runs: a
\* start removes the one, and no claim in hand is older than the start.
LEMMA SilenceInductive ==
  ASSUME TypeOK, TrackedCoversRunner, WakeIsForTheUntracked, NothingInHand,
         OwnHeartbeat, OwnClaims, [Next]_vars
  PROVE  OwnHeartbeat' /\ OwnClaims'
<1> USE DEF TypeOK, OwnHeartbeat, OwnClaims, Claims
<1> DEFINE Goal == OwnHeartbeat' /\ OwnClaims'
<1>1. CASE UNCHANGED <<beat, quiet, ack, claimAge>> /\ batch' \subseteq batch
  BY <1>1
<1>2. CASE beat' = 0 /\ quiet' = 0
  BY <1>2 DEF Absent
<1>3. ASSUME NEW m \in Rows, NEW k \in Kinds, RouteInbound(m, k) PROVE Goal
  BY <1>1, <1>3 DEF RouteInbound, outbound, process
<1>4. ASSUME NEW m \in Rows, NEW d \in Delays, ScheduleTask(m, d) PROVE Goal
  BY <1>1, <1>4 DEF ScheduleTask, outbound, process
<1>5. CASE SpawnContainer
  <2>1. batch = {}
    BY <1>5 DEF SpawnContainer, HostFree, TrackedCoversRunner, WakeIsForTheUntracked, NothingInHand
  <2> QED
    BY <1>5, <2>1 DEF SpawnContainer
<1>6. CASE \/ WakeFails \/ ContainerClosed \/ SweepBegin \/ SweepFindsHealthy
           \/ SweepFindsStuck \/ SweepFindsDown \/ HostCrash \/ UNCHANGED vars
  BY <1>1, <1>6 DEF WakeFails, ContainerClosed, SweepBegin, SweepFindsHealthy,
     SweepFindsStuck, SweepFindsDown, HostCrash, vars, outbound, process
<1>7. CASE KillContainer \/ HostStart \/ ContainerCrash
  BY <1>1, <1>7 DEF KillContainer, HostStart, CleanupOrphans, ContainerCrash, RunnerDies,
     outbound
<1>8. CASE Boot
  BY <1>8 DEF Boot, ClearStaleProcessingAcks
<1>9. CASE IdleBeat \/ QueryBeat \/ TurnResult \/ CompactBoundary
  BY <1>2, <1>9 DEF IdleBeat, QueryBeat, TurnResult, CompactBoundary
<1>10. CASE ClaimBatch
  BY <1>10 DEF ClaimBatch
<1>11. CASE StartQuery \/ PushFollowUps \/ QueryFails \/ QueryEnds
  BY <1>11 DEF StartQuery, PushFollowUps, QueryFails, QueryEnds, LeaveQuery, MarkCompleted
<1>12. CASE OpenWindow \/ OwnPrompt \/ DispatchReply \/ QueryHangs
  BY <1>1, <1>12 DEF OpenWindow, OwnPrompt, DispatchReply, QueryHangs, outbound
<1>13. ASSUME NEW t \in BashTimeouts, BashStarts(t) PROVE Goal
  BY <1>1, <1>13 DEF BashStarts
<1>14. CASE BashEnds
  BY <1>1, <1>14 DEF BashEnds
<1>15. CASE Tick
  BY <1>15, CountsAssumption DEF Tick, process, Absent
<1> QED
  BY <1>3, <1>4, <1>5, <1>6, <1>7, <1>8, <1>9, <1>10, <1>11, <1>12, <1>13, <1>14, <1>15
     DEF Next, HostNext, RunnerNext

\* The invariant holds initially and every step keeps it.
LEMMA InvariantInit == Init => SessionInvariant
<1> SUFFICES ASSUME Init PROVE SessionInvariant
  OBVIOUS
<1>1. TypeOK
  BY TypeInit
<1> QED
  BY <1>1 DEF Init, SessionInvariant, ClaimsHaveOwner, Claims, TrackedCoversRunner,
     WakeIsForTheUntracked, MapsDieWithHost, NothingInHand, HeldRowsAreOpenToAck,
     HeldRowsWerePrompted, AckFitsRow, RunningIsDeclared, OwnHeartbeat, OwnClaims, Polling

LEMMA InvariantInductive == SessionInvariant /\ [Next]_vars => SessionInvariant'
  BY TypeInductive, HostInductive, HandInductive, RowInductive, DeclaredInductive,
     SilenceInductive
     DEF SessionInvariant

\* The maps, the process, what it has in hand and the two tables agree in every
\* reachable state.
THEOREM SessionCorrect == Spec => []SessionInvariant
  BY InvariantInit, InvariantInductive, PTL DEF Spec

\* One container per session, known to the host as long as the host is up.
THEOREM OneTrackedContainer == Spec => []TrackedCoversRunner
<1>1. SessionInvariant => TrackedCoversRunner
  BY DEF SessionInvariant
<1> QED
  BY <1>1, SessionCorrect, PTL

\* No claim is orphaned behind a live runner.
THEOREM ClaimsOwned == Spec => []ClaimsHaveOwner
<1>1. SessionInvariant => ClaimsHaveOwner
  BY DEF SessionInvariant
<1> QED
  BY <1>1, SessionCorrect, PTL

\* A row shown as completed was given to the provider, answered or gated.
THEOREM CompletedHandled == Spec => []CompletedWasHandled
<1>1. SessionInvariant => CompletedWasHandled
  BY DEF SessionInvariant, AckFitsRow, CompletedWasHandled
<1> QED
  BY <1>1, SessionCorrect, PTL

-----------------------------------------------------------------------------
(* What a step may do to the tables, and what follows for action           *)
(* properties and for the ledger.                                          *)

\* The runner's half of a step: acknowledgements only grow, and the rows given
\* up make no progress.
RunnerHalf ==
  /\ UNCHANGED <<status, tries>>
  /\ \A m \in Rows : ack[m] = "completed" => ack'[m] = "completed"
  /\ \A m \in Rows : status[m] = "failed" => turn'[m] = turn[m]

\* The host's half of a step: insert, sync or reset, on the inbound side only.
HostHalf ==
  /\ UNCHANGED <<ack, turn>>
  /\ \/ UNCHANGED tries /\ \E m \in Rows : /\ status[m] = "none"
                                           /\ status' = [status EXCEPT ![m] = "pending"]
     \/ UNCHANGED tries /\ status' = Synced
     \/ ResetStuckProcessingRows /\ runner' = "down"

\* Every step is one of the two.
LEMMA StepHalves == SessionInvariant /\ [Next]_vars => RunnerHalf \/ HostHalf
<1> SUFFICES ASSUME SessionInvariant, [Next]_vars PROVE RunnerHalf \/ HostHalf
  OBVIOUS
<1>1. ASSUME NEW m \in Rows, NEW k \in Kinds, RouteInbound(m, k) PROVE HostHalf
  BY <1>1 DEF RouteInbound, InsertRow, outbound, HostHalf
<1>2. ASSUME NEW m \in Rows, NEW d \in Delays, ScheduleTask(m, d) PROVE HostHalf
  BY <1>2 DEF ScheduleTask, InsertRow, outbound, HostHalf
<1>3. CASE SweepBegin
  BY <1>3 DEF SweepBegin, outbound, HostHalf
<1>4. CASE SweepFindsDown
  BY <1>4 DEF SweepFindsDown, SessionInvariant, TrackedCoversRunner, outbound,
     process, HostHalf
<1>5. CASE KillContainer
  BY <1>5 DEF KillContainer, RunnerDies, outbound, HostHalf
<1>6. CASE \/ SpawnContainer \/ WakeFails \/ ContainerClosed \/ SweepFindsHealthy
           \/ SweepFindsStuck \/ HostCrash \/ HostStart \/ Tick \/ UNCHANGED vars
  BY <1>6 DEF SpawnContainer, WakeFails, ContainerClosed, SweepFindsHealthy,
     SweepFindsStuck, HostCrash, HostStart, Tick, vars, inbound, outbound, RunnerHalf
<1>7. CASE RunnerNext
  <2> USE DEF SessionInvariant, TypeOK, RunnerHalf
  <2>1. UNCHANGED <<status, tries>>
    BY <1>7, RunnerFrame DEF inbound
  <2>2. CASE Boot
    BY <2>1, <2>2 DEF Boot, ClearStaleProcessingAcks
  <2>3. CASE IdleBeat \/ OpenWindow \/ OwnPrompt \/ QueryBeat \/ QueryHangs \/ ContainerCrash
    BY <2>1, <2>3 DEF IdleBeat, OpenWindow, OwnPrompt, QueryBeat, QueryHangs, ContainerCrash, outbound
  <2>4. CASE ClaimBatch
    BY <2>1, <2>4, PendingFacts DEF ClaimBatch, SetTurn
  <2>5. CASE StartQuery
    BY <2>1, <2>5 DEF StartQuery, MarkCompleted, HeldRowsAreOpenToAck
  <2>6. CASE PushFollowUps
    BY <2>1, <2>6, PendingFacts DEF PushFollowUps, MarkCompleted, SetTurn
  <2>7. ASSUME NEW t \in BashTimeouts, BashStarts(t) PROVE RunnerHalf
    BY <2>1, <2>7 DEF BashStarts
  <2>8. CASE BashEnds
    BY <2>1, <2>8 DEF BashEnds
  <2>9. CASE TurnResult \/ QueryFails
    BY <2>1, <2>9 DEF TurnResult, QueryFails, LeaveQuery, MarkCompleted, SetTurn, HeldRowsAreOpenToAck
  <2>10. CASE DispatchReply
    BY <2>1, <2>10 DEF DispatchReply, outbound, HeldRowsAreOpenToAck
  <2>11. CASE CompactBoundary \/ QueryEnds
    BY <2>1, <2>11 DEF CompactBoundary, QueryEnds, LeaveQuery, MarkCompleted, process
  <2> QED
    BY <1>7, <2>2, <2>3, <2>4, <2>5, <2>6, <2>7, <2>8, <2>9, <2>10, <2>11 DEF RunnerNext
<1> QED
  BY <1>1, <1>2, <1>3, <1>4, <1>5, <1>6, <1>7 DEF Next, HostNext

\* A row is reset or given up only when no container is left to work on it.
THEOREM ResetsSpareRunners == Spec => ResetOnlyWithoutRunner
<1>1. SessionInvariant /\ [Next]_vars =>
        [(tries' # tries \/ \E m \in Rows : status'[m] = "failed" /\ status[m] # "failed")
            => runner' = "down"]_vars
  <2> SUFFICES ASSUME SessionInvariant, [Next]_vars
               PROVE  (tries' # tries \/ \E m \in Rows : status'[m] = "failed" /\ status[m] # "failed")
                         => runner' = "down"
    OBVIOUS
  <2> QED
    BY StepHalves DEF RunnerHalf, HostHalf, Synced, SessionInvariant, TypeOK
<1> QED
  BY <1>1, SessionCorrect, PTL DEF Spec, ResetOnlyWithoutRunner

\* A row that was given up stays so and is never prompted again.
THEOREM GivenUpStays == Spec => GivenUpIsFinal
<1>1. SessionInvariant /\ [Next]_vars =>
        [\A m \in Rows : status[m] = "failed" => status'[m] = "failed" /\ turn'[m] = turn[m]]_vars
  <2> SUFFICES ASSUME SessionInvariant, [Next]_vars, NEW m \in Rows, status[m] = "failed"
               PROVE  status'[m] = "failed" /\ turn'[m] = turn[m]
    OBVIOUS
  <2> USE DEF SessionInvariant, TypeOK
  <2>1. CASE RunnerHalf
    BY <2>1 DEF RunnerHalf
  <2>2. CASE HostHalf
    BY <2>2, ResetFacts DEF HostHalf, Synced, AckFitsRow
  <2> QED
    BY <2>1, <2>2, StepHalves
<1> QED
  BY <1>1, SessionCorrect, PTL DEF Spec, GivenUpIsFinal

\* An acknowledged row is never claimed again.
THEOREM AckStays == Spec => AckIsFinal
<1>1. SessionInvariant /\ [Next]_vars =>
        [\A m \in Rows : ack[m] = "completed" => ack'[m] = "completed"]_vars
  BY StepHalves DEF RunnerHalf, HostHalf
<1> QED
  BY <1>1, SessionCorrect, PTL DEF Spec, AckIsFinal

\* On a host at UTC or west of it, where Date.parse never makes a claim look
\* older than it is, a container that has booted is killed only for a silence
\* of its own, whatever its predecessors left behind.
THEOREM KillsAreForSilence == Skew \in Nat => (Spec => KilledForOwnSilence)
<1> SUFFICES ASSUME Skew \in Nat PROVE Spec => KilledForOwnSilence
  OBVIOUS
<1> DEFINE Deserved ==
      sweep = "resuming" /\ sweep' = "killing" /\ runner # "down" =>
        quiet > Larger(ClaimStuck, running) \/ JudgedByPredecessor
<1>1. SessionInvariant /\ [Next]_vars => [Deserved]_vars
  <2> SUFFICES ASSUME SessionInvariant, [Next]_vars, ~JudgedByPredecessor,
                      sweep = "resuming", sweep' = "killing", runner # "down"
               PROVE  quiet > Larger(ClaimStuck, running)
    OBVIOUS
  <2> USE DEF SessionInvariant, TypeOK, RunningIsDeclared
  <2>1. SweepFindsStuck
    <3>1. ~RunnerNext
      BY RunnerFrame DEF hostMem
    <3>2. ASSUME NEW m \in Rows, NEW k \in Kinds, RouteInbound(m, k) PROVE FALSE
      BY <3>2 DEF RouteInbound
    <3>3. ASSUME NEW m \in Rows, NEW d \in Delays, ScheduleTask(m, d) PROVE FALSE
      BY <3>3 DEF ScheduleTask, hostMem
    <3>4. ~(\/ SpawnContainer \/ WakeFails \/ ContainerClosed \/ SweepBegin
            \/ SweepFindsHealthy \/ SweepFindsDown \/ KillContainer \/ HostCrash
            \/ HostStart \/ Tick \/ UNCHANGED vars)
      BY DEF SpawnContainer, WakeFails, ContainerClosed, SweepBegin, SweepFindsHealthy,
         SweepFindsDown, KillContainer, HostCrash, HostStart, HostFree, Tick, vars, hostMem
    <3> QED
      BY <3>1, <3>2, <3>3, <3>4 DEF Next, HostNext
  <2>2. CASE PastCeiling
    <3>1. beat > Ceiling /\ beat > bash /\ beat = quiet
      BY <2>2, CountsAssumption, ChoicesAssumption DEF PastCeiling, Larger, OwnHeartbeat, Absent
    <3> QED
      BY <3>1, OrderAssumption, CountsAssumption, ChoicesAssumption DEF Larger
  <2>3. ASSUME NEW m \in Claims, StuckClaim(m) PROVE quiet > Larger(ClaimStuck, running)
    <3>1. m \in batch
      BY <2>3 DEF ClaimsHaveOwner, JudgedByPredecessor
    <3>2. claimAge[m] > Larger(ClaimStuck, bash) /\ bash \in Nat /\ running \in {0, bash}
      BY <2>3, CountsAssumption, ChoicesAssumption DEF StuckClaim, ParsedClaimAge, Larger, Claims
    <3>3. quiet > Larger(ClaimStuck, bash)
      <4>1. CASE beat = Absent
        BY <2>3, <3>1, <3>2, <4>1, CountsAssumption DEF OwnClaims, Larger, Claims
      <4>2. CASE beat # Absent
        BY <2>3, <3>2, <4>2, CountsAssumption
           DEF OwnHeartbeat, StuckClaim, ParsedClaimAge, Larger, Claims
      <4> QED
        BY <4>1, <4>2
    <3> QED
      BY <3>2, <3>3, CountsAssumption DEF Larger
  <2> QED
    BY <2>1, <2>2, <2>3 DEF SweepFindsStuck, MustKill
<1> QED
  BY <1>1, SessionCorrect, PTL DEF Spec, KilledForOwnSilence

\* Every step of the session is a step of the ledger or leaves it alone.
LEMMA LedgerStep ==
  SessionInvariant /\ SessionInvariant' /\ [Next]_vars => [Ledger!Next]_(Ledger!ledger)
<1> SUFFICES ASSUME SessionInvariant, SessionInvariant', [Next]_vars
             PROVE  Ledger!Next \/ UNCHANGED <<Outcome, tries>>
  BY DEF Ledger!ledger
<1> USE DEF SessionInvariant, TypeOK, AckFitsRow
<1>1. CASE RunnerHalf
  <2> DEFINE S == {m \in Rows : ack'[m] = "completed" /\ ack[m] # "completed"}
  <2>1. S \in SUBSET Ledger!Open
    BY <1>1 DEF RunnerHalf, Ledger!Open, Outcome
  <2>2. Ledger!Handle(S)
    BY <1>1 DEF RunnerHalf, Ledger!Handle, Ledger!Settle, Outcome
  <2> QED
    BY <2>1, <2>2 DEF Ledger!Next
<1>2. CASE HostHalf
  <2>1. ASSUME NEW m \in Rows, status[m] = "none", UNCHANGED <<ack, tries>>,
               status' = [status EXCEPT ![m] = "pending"]
        PROVE  Ledger!Accept(m)
    BY <2>1 DEF Ledger!Accept, Ledger!Settle, Outcome
  <2>2. CASE status' = Synced /\ UNCHANGED <<ack, tries>>
    BY <2>2 DEF Synced, Outcome
  <2>3. CASE ResetStuckProcessingRows /\ UNCHANGED ack
    <3>1. Retried \in SUBSET Ledger!Open /\ GivenUp \in SUBSET Ledger!Open
      BY DEF Retried, GivenUp, Resettable, Claims, Ledger!Open, Outcome
    <3>2. Ledger!Reclaim(Retried, GivenUp)
      <4>1. /\ \A m \in Retried : tries[m] < MaxTries
            /\ \A m \in GivenUp : tries[m] = MaxTries
        BY CountsAssumption DEF Retried, GivenUp, Resettable, Claims, Exhausted
      <4>2. Outcome' = [m \in Rows |-> IF m \in GivenUp THEN "dropped" ELSE Outcome[m]]
        BY <2>3 DEF ResetStuckProcessingRows, GivenUp, Resettable, Claims, Outcome
      <4> QED
        BY <2>3, <4>1, <4>2 DEF Ledger!Reclaim, Ledger!Settle, ResetStuckProcessingRows
    <3> QED
      BY <3>1, <3>2 DEF Ledger!Next
  <2> QED
    BY <1>2, <2>1, <2>2, <2>3 DEF HostHalf, Ledger!Next
<1> QED
  BY <1>1, <1>2, StepHalves

\* The session implements the ledger: whatever the interleaving, a row settles
\* at most once and is dropped only after MaxTries retries.
THEOREM LedgerImplemented == Spec => ImplementsLedger
<1>1. Init => Ledger!Init
  BY DEF Init, Ledger!Init, Outcome
<1> QED
  BY <1>1, LedgerStep, SessionCorrect, PTL DEF Spec, ImplementsLedger, Ledger!Spec
=============================================================================
