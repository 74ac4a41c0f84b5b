--------------------------- MODULE Delivery_proofs ---------------------------
(***************************************************************************)
(* What Delivery guarantees for every set of sessions, every number of     *)
(* rows and attempts and every number of crashes and database errors.      *)
(***************************************************************************)
EXTENDS Delivery, TLAPS

\* Every step keeps every variable in its type; an attempt count exceeds the
\* limit only by the database errors met while giving up.
LEMMA TypeInductive == TypeOK /\ [Next]_vars => TypeOK'
<1> SUFFICES ASSUME TypeOK, [Next]_vars PROVE TypeOK'
  OBVIOUS
<1> USE DeliveryAssumption DEF TypeOK
<1>1. ASSUME NEW m \in Messages, NEW s \in Sessions, NEW d \in Dests, WriteMessage(m, s, d)
      PROVE  TypeOK'
  BY <1>1 DEF WriteMessage, memory, history
<1>2. ASSUME NEW p \in Polls, PollBegins(p) PROVE TypeOK'
  BY <1>2 DEF PollBegins, rows, history
<1>3. ASSUME NEW p \in Polls, NEW s \in Sessions, SkipSession(p, s) PROVE TypeOK'
  BY <1>3 DEF SkipSession, rows, history
<1>4. ASSUME NEW p \in Polls, NEW s \in Sessions, EnterSession(p, s) PROVE TypeOK'
  BY <1>4 DEF EnterSession, Undelivered, rows, history
<1>5. ASSUME NEW p \in Polls, NEW m \in Messages, StartCall(p, m) PROVE TypeOK'
  BY <1>5 DEF StartCall, rows, history
<1>6. ASSUME NEW p \in Polls, NEW m \in Messages, Lands(p, m) PROVE TypeOK'
  BY <1>6 DEF Lands, Bump, rows
<1>14. ASSUME NEW p \in Polls, NEW m \in Messages, Swallows(p, m) PROVE TypeOK'
  BY <1>14 DEF Swallows, rows, history
<1>7. ASSUME NEW p \in Polls, NEW m \in Messages, Delivers(p, m) PROVE TypeOK'
  <2>1. attempts' \in [Messages -> 0..(MaxAttempts - 1 + faults)]
    BY <1>7 DEF Delivers
  <2> QED
    BY <1>7, <2>1 DEF Delivers, Mark, Advance, rows, history
<1>8. ASSUME NEW p \in Polls, NEW m \in Messages, Throws(p, m) PROVE TypeOK'
  <2>1. attempts' \in [Messages -> 0..(MaxAttempts - 1 + faults)]
    BY <1>8 DEF Throws, GivesUp, Bump
  <2>2. delivered' \in [Messages -> {"none", "delivered", "failed"}]
    BY <1>8 DEF Throws, Mark
  <2> QED
    BY <1>8, <2>1, <2>2 DEF Throws, Bump, Advance, rows
<1>9. ASSUME NEW p \in Polls, LeaveSession(p) PROVE TypeOK'
  BY <1>9 DEF LeaveSession, Release, rows, history
<1>10. ASSUME NEW p \in Polls, DrainFails(p) PROVE TypeOK'
  <2>1. faults' \in 0..MaxFaults /\ faults' = faults + 1
    BY <1>10 DEF DrainFails
  <2>2. /\ attempts' \in [Messages -> 0..(MaxAttempts - 1 + faults')]
        /\ threw' \in [Messages -> Nat] /\ doubt' \in [Messages -> Nat]
    <3>1. CASE UNCHANGED <<attempts, doubt, threw>>
      BY <2>1, <3>1
    <3>2. CASE \E m \in Messages :
                 /\ attempts' = Bump(attempts, m)
                 /\ threw' = Bump(threw, m)
                 /\ doubt' = IF call[p] = "landed" THEN Bump(doubt, m) ELSE doubt
      BY <2>1, <3>2 DEF Bump
    <3> QED
      BY <1>10, <3>1, <3>2 DEF DrainFails
  <2> QED
    BY <1>10, <2>1, <2>2 DEF DrainFails, Release, rows
<1>11. CASE HostCrash
  <2>1. faults' \in 0..MaxFaults
    BY <1>11 DEF HostCrash
  <2>2. attempts' \in [Messages -> 0..(MaxAttempts - 1 + faults')]
    BY <1>11, <2>1 DEF HostCrash
  <2> QED
    BY <1>11, <2>1, <2>2 DEF HostCrash, rows
<1>12. CASE HostStart
  BY <1>12 DEF HostStart, rows, memory, history
<1>13. CASE UNCHANGED vars
  BY <1>13 DEF vars, rows, memory, history
<1> QED
  BY <1>1, <1>2, <1>3, <1>4, <1>5, <1>6, <1>7, <1>8, <1>9, <1>10, <1>11, <1>12, <1>13, <1>14
     DEF Next, PollNext

\* What holds of the head of a queue: it is an unsettled row of the session its
\* poll has locked, and no other poll holds it.
LEMMA HeadFacts ==
  ASSUME DeliveryInvariant, NEW p \in Polls, NEW m \in Messages, IsHead(p, m)
  PROVE  /\ delivered[m] = "none" /\ home[m] = at[p] /\ at[p] \in Sessions
         /\ m \in queue[p]
         /\ \A k \in Messages : IsHead(p, k) => k = m
         /\ \A q \in Polls : q # p => m \notin queue[q]
         /\ shown[m] = doubt[m] + (IF call[p] = "landed" THEN 1 ELSE 0)
<1> USE DeliveryAssumption DEF DeliveryInvariant, TypeOK, Messages
<1>1. /\ m \in queue[p] /\ delivered[m] = "none" /\ home[m] = at[p]
      /\ at[p] # NoSession /\ at[p] \in Sessions
  BY DEF IsHead, SnapshotIsUnsettled, CallHasMessage
<1>2. \A k \in Messages : IsHead(p, k) => k = m
  BY DEF IsHead
<1>3. \A q \in Polls : q # p => m \notin queue[q]
  BY <1>1 DEF SnapshotIsUnsettled, DrainsAreLocked
<1>4. m \in Unrecorded <=> call[p] = "landed"
  BY <1>3 DEF Unrecorded, IsHead
<1> QED
  BY <1>1, <1>2, <1>3, <1>4 DEF UnsettledIsAccounted

\* The part of the invariant that says how lock, snapshots and calls fit.
LocksFit ==
  DrainsAreLocked /\ SnapshotIsUnsettled /\ CallHasMessage /\ OnlyWrittenRowsMove

\* Every step keeps them fitting.
LEMMA LockInductive ==
  DeliveryInvariant /\ [Next]_vars => LocksFit'
<1> SUFFICES ASSUME DeliveryInvariant, [Next]_vars
             PROVE  LocksFit'
  OBVIOUS
<1> USE DeliveryAssumption
    DEF DeliveryInvariant, LocksFit, TypeOK, Polls,
        DrainsAreLocked, SnapshotIsUnsettled, CallHasMessage, OnlyWrittenRowsMove
<1>1. ASSUME NEW m \in Messages, NEW s \in Sessions, NEW d \in Dests, WriteMessage(m, s, d)
      PROVE  LocksFit'
  <2>1. /\ \A n \in Messages : m < n => home[n] = NoSession
        /\ \A k \in Messages : k < m => home[k] # NoSession
    BY <1>1 DEF WriteMessage
  <2>2. \A p \in Polls : m \notin queue[p]
    BY <1>1 DEF WriteMessage
  <2>3. OnlyWrittenRowsMove'
    BY <1>1, <2>1 DEF WriteMessage, memory, history, Messages
  <2> QED
    BY <1>1, <2>2, <2>3 DEF WriteMessage, memory, history
<1>2. ASSUME NEW p \in Polls, PollBegins(p)
      PROVE  LocksFit'
  BY <1>2 DEF PollBegins, rows, history
<1>3. ASSUME NEW p \in Polls, NEW s \in Sessions, SkipSession(p, s)
      PROVE  LocksFit'
  BY <1>3 DEF SkipSession, rows, history
<1>4. ASSUME NEW p \in Polls, NEW s \in Sessions, EnterSession(p, s)
      PROVE  LocksFit'
  BY <1>4 DEF EnterSession, Undelivered, rows, history
<1>5. ASSUME NEW p \in Polls, NEW m \in Messages, StartCall(p, m)
      PROVE  LocksFit'
  BY <1>5 DEF StartCall, IsHead, rows, history
<1>6. ASSUME NEW p \in Polls, NEW m \in Messages, Lands(p, m)
      PROVE  LocksFit'
  BY <1>6, HeadFacts DEF Lands, IsHead, Bump, rows
<1>14. ASSUME NEW p \in Polls, NEW m \in Messages, Swallows(p, m)
      PROVE  LocksFit'
  BY <1>14, HeadFacts DEF Swallows, IsHead, rows, history
<1>7. ASSUME NEW p \in Polls, NEW m \in Messages, Delivers(p, m)
      PROVE  LocksFit'
  BY <1>7, HeadFacts DEF Delivers, Mark, Advance, rows, history
<1>8. ASSUME NEW p \in Polls, NEW m \in Messages, Throws(p, m)
      PROVE  LocksFit'
  <2>1. delivered' = [delivered EXCEPT ![m] = "failed"] \/ UNCHANGED delivered
    BY <1>8 DEF Throws, Mark
  <2> QED
    BY <1>8, <2>1, HeadFacts DEF Throws, Advance, rows
<1>9. ASSUME NEW p \in Polls, LeaveSession(p)
      PROVE  LocksFit'
  BY <1>9 DEF LeaveSession, Release, rows, history
<1>10. ASSUME NEW p \in Polls, DrainFails(p)
      PROVE  LocksFit'
  BY <1>10 DEF DrainFails, Release, rows
<1>11. CASE HostCrash
  BY <1>11 DEF HostCrash, rows
<1>12. CASE HostStart
  BY <1>12 DEF HostStart, rows, memory, history
<1>13. CASE UNCHANGED vars
  BY <1>13 DEF vars, rows, memory, history
<1> QED
  BY <1>1, <1>2, <1>3, <1>4, <1>5, <1>6, <1>7, <1>8, <1>9, <1>10, <1>11, <1>12, <1>13, <1>14
     DEF Next, PollNext

\* What the steps do to the rows whose effect is known but not yet recorded.
LEMMA UnrecordedSteps ==
  ASSUME DeliveryInvariant, NEW p \in Polls
  PROVE  /\ UNCHANGED <<queue, call>> => Unrecorded' = Unrecorded
         /\ \A s \in Sessions : EnterSession(p, s) => Unrecorded' = Unrecorded
         /\ \A m \in Messages : StartCall(p, m) => Unrecorded' = Unrecorded
         /\ \A m \in Messages : Swallows(p, m) => Unrecorded' = Unrecorded
         /\ \A m \in Messages : Lands(p, m) => Unrecorded' = Unrecorded \union {m}
         /\ \A m \in Messages : IsHead(p, m) /\ Advance(p, m) => Unrecorded' = Unrecorded \ {m}
         /\ DrainFails(p) => Unrecorded' = {m \in Unrecorded : m \notin queue[p]}
<1> USE DEF DeliveryInvariant, TypeOK
<1>1. UNCHANGED <<queue, call>> => Unrecorded' = Unrecorded
  BY DEF Unrecorded, IsHead
<1>2. ASSUME NEW s \in Sessions, EnterSession(p, s) PROVE Unrecorded' = Unrecorded
  <2>1. call[p] = "none" /\ call'[p] = "none"
    BY <1>2 DEF EnterSession, CallHasMessage
  <2>2. \A q \in Polls : q # p => queue'[q] = queue[q] /\ call'[q] = call[q]
    BY <1>2 DEF EnterSession
  <2> QED
    BY <2>1, <2>2 DEF Unrecorded, IsHead
<1>3. ASSUME NEW m \in Messages, StartCall(p, m) PROVE Unrecorded' = Unrecorded
  BY <1>3 DEF StartCall, Unrecorded, IsHead
<1>7. ASSUME NEW m \in Messages, Swallows(p, m) PROVE Unrecorded' = Unrecorded
  BY <1>7 DEF Swallows, Unrecorded, IsHead
<1>4. ASSUME NEW m \in Messages, Lands(p, m) PROVE Unrecorded' = Unrecorded \union {m}
  <2>1. queue' = queue /\ call' = [call EXCEPT ![p] = "landed"] /\ call[p] = "open" /\ IsHead(p, m)
    BY <1>4 DEF Lands
  <2>2. \A k \in Messages : IsHead(p, k) => k = m
    BY <2>1, HeadFacts
  <2> QED
    BY <2>1, <2>2 DEF Unrecorded, IsHead
<1>5. ASSUME NEW m \in Messages, IsHead(p, m), Advance(p, m)
      PROVE  Unrecorded' = Unrecorded \ {m}
  <2>1. /\ call' = [call EXCEPT ![p] = "none"] /\ call'[p] = "none"
        /\ \A q \in Polls : q # p => queue'[q] = queue[q] /\ call'[q] = call[q]
    BY <1>5 DEF Advance
  <2>2. /\ \A k \in Messages : IsHead(p, k) => k = m
        /\ \A q \in Polls : q # p => m \notin queue[q]
    BY <1>5, HeadFacts
  <2> QED
    BY <2>1, <2>2 DEF Unrecorded, IsHead
<1>6. ASSUME DrainFails(p) PROVE Unrecorded' = {m \in Unrecorded : m \notin queue[p]}
  <2>1. /\ call'[p] = "none"
        /\ \A q \in Polls : q # p => queue'[q] = queue[q] /\ call'[q] = call[q]
    BY <1>6 DEF DrainFails
  <2>2. \A q \in Polls, m \in Messages : q # p /\ IsHead(q, m) => m \notin queue[p]
    BY HeadFacts
  <2> QED
    BY <2>1, <2>2 DEF Unrecorded, IsHead
<1> QED
  BY <1>1, <1>2, <1>3, <1>4, <1>5, <1>6, <1>7

\* The part of the invariant that counts effects.
EffectsCounted == UnsettledIsAccounted /\ NoNeedlessDuplicate /\ DeliveredTookEffect

\* Every step keeps the count.
LEMMA CountInductive == DeliveryInvariant /\ [Next]_vars => EffectsCounted'
<1> SUFFICES ASSUME DeliveryInvariant, [Next]_vars PROVE EffectsCounted'
  OBVIOUS
<1> USE DeliveryAssumption
    DEF DeliveryInvariant, EffectsCounted, TypeOK,
        UnsettledIsAccounted, NoNeedlessDuplicate, DeliveredTookEffect
<1>a. ASSUME UNCHANGED <<dest, delivered, shown, doubt, swallowed>>, Unrecorded' = Unrecorded
      PROVE  EffectsCounted'
  BY <1>a
<1>1. ASSUME NEW m \in Messages, NEW s \in Sessions, NEW d \in Dests, WriteMessage(m, s, d)
      PROVE  EffectsCounted'
  <2>1. Unrecorded' = Unrecorded
    BY <1>1, UnrecordedSteps DEF WriteMessage, memory, Polls
  <2>2. delivered[m] = "none"
    BY <1>1 DEF WriteMessage, OnlyWrittenRowsMove
  <2> QED
    BY <1>1, <2>1, <2>2 DEF WriteMessage, history
<1>2. ASSUME NEW p \in Polls, PollBegins(p) PROVE EffectsCounted'
  BY <1>2, <1>a, UnrecordedSteps DEF PollBegins, rows, history
<1>3. ASSUME NEW p \in Polls, NEW s \in Sessions, SkipSession(p, s) PROVE EffectsCounted'
  BY <1>3, <1>a, UnrecordedSteps DEF SkipSession, rows, history
<1>4. ASSUME NEW p \in Polls, NEW s \in Sessions, EnterSession(p, s) PROVE EffectsCounted'
  <2>1. UNCHANGED <<dest, delivered, shown, doubt, swallowed>>
    BY <1>4 DEF EnterSession, rows, history
  <2> QED
    BY <1>4, <2>1, <1>a, UnrecordedSteps
<1>5. ASSUME NEW p \in Polls, NEW m \in Messages, StartCall(p, m) PROVE EffectsCounted'
  <2>1. UNCHANGED <<dest, delivered, shown, doubt, swallowed>>
    BY <1>5 DEF StartCall, rows, history
  <2> QED
    BY <1>5, <2>1, <1>a, UnrecordedSteps
<1>14. ASSUME NEW p \in Polls, NEW m \in Messages, Swallows(p, m) PROVE EffectsCounted'
  <2>1. UNCHANGED <<dest, delivered, shown, doubt, swallowed>>
    BY <1>14 DEF Swallows, rows, history
  <2> QED
    BY <1>14, <2>1, <1>a, UnrecordedSteps
<1>6. ASSUME NEW p \in Polls, NEW m \in Messages, Lands(p, m) PROVE EffectsCounted'
  <2>1. Unrecorded' = Unrecorded \union {m}
    BY <1>6, UnrecordedSteps
  <2>2. delivered[m] = "none" /\ shown[m] = doubt[m]
    BY <1>6, HeadFacts DEF Lands
  <2> QED
    BY <1>6, <2>1, <2>2 DEF Lands, Bump, rows
<1>7. ASSUME NEW p \in Polls, NEW m \in Messages, Delivers(p, m) PROVE EffectsCounted'
  <2>1. Unrecorded' = Unrecorded \ {m}
    BY <1>7, UnrecordedSteps DEF Delivers
  <2>2. delivered[m] = "none" /\ shown[m] = doubt[m] + (IF call[p] = "landed" THEN 1 ELSE 0)
    BY <1>7, HeadFacts DEF Delivers
  <2>3. delivered' = [delivered EXCEPT ![m] = "delivered"]
    BY <1>7, <2>2 DEF Delivers, Mark
  <2>4. /\ UNCHANGED <<dest, shown, doubt>>
        /\ swallowed' = IF call[p] = "swallowed" THEN swallowed \union {m} ELSE swallowed
    BY <1>7 DEF Delivers, rows
  <2>5. \/ call[p] = "landed"
        \/ call[p] # "landed" /\ (dest'[m] = "nowhere" \/ m \in swallowed')
    BY <1>7, <2>4 DEF Delivers
  <2> QED
    BY <2>1, <2>2, <2>3, <2>4, <2>5
<1>8. ASSUME NEW p \in Polls, NEW m \in Messages, Throws(p, m) PROVE EffectsCounted'
  <2>1. Unrecorded' = Unrecorded \ {m}
    BY <1>8, UnrecordedSteps DEF Throws
  <2>2. /\ delivered[m] = "none"
        /\ shown[m] = doubt[m] + (IF call[p] = "landed" THEN 1 ELSE 0)
    BY <1>8, HeadFacts DEF Throws
  <2>3. delivered' = [delivered EXCEPT ![m] = "failed"] \/ UNCHANGED delivered
    BY <1>8 DEF Throws, Mark
  <2>4. /\ UNCHANGED <<dest, shown, swallowed>>
        /\ doubt' = IF call[p] = "landed" THEN [doubt EXCEPT ![m] = @ + 1] ELSE doubt
    BY <1>8 DEF Throws, rows, Bump
  <2> QED
    BY <2>1, <2>2, <2>3, <2>4
<1>9. ASSUME NEW p \in Polls, LeaveSession(p) PROVE EffectsCounted'
  BY <1>9, <1>a, UnrecordedSteps DEF LeaveSession, rows, history
<1>10. ASSUME NEW p \in Polls, DrainFails(p) PROVE EffectsCounted'
  <2>1. Unrecorded' = {m \in Unrecorded : m \notin queue[p]}
    BY <1>10, UnrecordedSteps
  <2>2. UNCHANGED <<dest, delivered, shown, swallowed>>
    BY <1>10 DEF DrainFails, rows
  <2>3. CASE call[p] = "none" /\ UNCHANGED doubt
    <3>1. \A m \in Unrecorded : m \notin queue[p]
      BY <2>3, HeadFacts DEF Unrecorded
    <3> QED
      BY <2>1, <2>2, <2>3, <3>1
  <2>4. ASSUME NEW m \in Messages, IsHead(p, m),
               doubt' = IF call[p] = "landed" THEN Bump(doubt, m) ELSE doubt
        PROVE  EffectsCounted'
    <3>1. \A k \in Unrecorded : k \in queue[p] => k = m /\ call[p] = "landed"
      BY <2>4, HeadFacts DEF Unrecorded
    <3>2. /\ delivered[m] = "none"
          /\ shown[m] = doubt[m] + (IF call[p] = "landed" THEN 1 ELSE 0)
          /\ m \in queue[p]
      BY <2>4, HeadFacts
    <3> QED
      BY <2>1, <2>2, <2>4, <3>1, <3>2 DEF Bump
  <2> QED
    BY <1>10, <2>3, <2>4 DEF DrainFails
<1>11. CASE HostCrash
  <2>1. Unrecorded' = {}
    BY <1>11 DEF HostCrash, Unrecorded
  <2>2. \A m \in Unrecorded : delivered[m] = "none"
    BY HeadFacts DEF Unrecorded
  <2> QED
    BY <1>11, <2>1, <2>2 DEF HostCrash, rows
<1>12. CASE HostStart
  BY <1>12, <1>a, UnrecordedSteps DEF HostStart, rows, memory, history, Polls
<1>13. CASE UNCHANGED vars
  BY <1>13, <1>a, UnrecordedSteps DEF vars, rows, memory, history, Polls
<1> QED
  BY <1>1, <1>2, <1>3, <1>4, <1>5, <1>6, <1>7, <1>8, <1>9, <1>10, <1>11, <1>12, <1>13, <1>14
     DEF Next, PollNext

\* A settled row has had its turn.
LEMMA SettledHadTurn ==
  ASSUME DeliveryInvariant, NEW m \in Messages, delivered[m] # "none"
  PROVE  HadItsTurn(m)
BY DeliveryAssumption
   DEF DeliveryInvariant, TypeOK, DeliveredTookEffect, FailedAfterMaxAttempts, HadItsTurn

\* A row that has had its turn keeps it; only a call that lands shows a row, and
\* only a session that is entered adds to a snapshot.
LEMMA TurnSteps ==
  ASSUME DeliveryInvariant, [Next]_vars
  PROVE  /\ \A m \in Messages : home[m] # NoSession /\ HadItsTurn(m) => HadItsTurn(m)'
         /\ \A n \in Messages : shown'[n] # shown[n] => \E p \in Polls : Lands(p, n)
<1> USE DeliveryAssumption DEF DeliveryInvariant, TypeOK, HadItsTurn
<1>1. ASSUME NEW m \in Messages, NEW s \in Sessions, NEW d \in Dests, WriteMessage(m, s, d)
      PROVE  UNCHANGED <<shown, threw, swallowed>> /\ \A k \in Messages : home[k] # NoSession => dest'[k] = dest[k]
  BY <1>1 DEF WriteMessage, history
<1>2. ASSUME NEW p \in Polls, NEW m \in Messages, Lands(p, m)
      PROVE  /\ UNCHANGED <<dest, threw, swallowed>> /\ shown' = [shown EXCEPT ![m] = @ + 1]
  BY <1>2 DEF Lands, rows, Bump
<1>3. ASSUME NEW p \in Polls, NEW m \in Messages, Throws(p, m)
      PROVE  /\ UNCHANGED <<dest, shown, swallowed>> /\ threw' = [threw EXCEPT ![m] = @ + 1]
  BY <1>3 DEF Throws, rows, Bump
<1>4. ASSUME NEW p \in Polls, DrainFails(p)
      PROVE  /\ UNCHANGED <<dest, shown, swallowed>>
             /\ \A k \in Messages : threw[k] > 0 => threw'[k] > 0
  <2>1. UNCHANGED threw \/ \E m \in Messages : threw' = [threw EXCEPT ![m] = @ + 1]
    BY <1>4 DEF DrainFails, Bump
  <2> QED
    BY <1>4, <2>1 DEF DrainFails, rows
<1>5. ASSUME NEW p \in Polls,
             \/ PollBegins(p) \/ LeaveSession(p)
             \/ \E s \in Sessions : SkipSession(p, s) \/ EnterSession(p, s)
             \/ \E m \in Messages : StartCall(p, m) \/ Swallows(p, m) \/ Delivers(p, m)
      PROVE  UNCHANGED <<dest, shown, threw>> /\ swallowed \subseteq swallowed'
  BY <1>5 DEF PollBegins, LeaveSession, SkipSession, EnterSession, StartCall, Swallows, Delivers,
              rows, history
<1>6. CASE HostCrash \/ HostStart \/ UNCHANGED vars
  <2> UNCHANGED <<dest, shown, threw, swallowed>>
    BY <1>6 DEF HostCrash, HostStart, vars, rows, history
  <2> QED
    OBVIOUS
<1>7. ASSUME NEW p \in Polls, PollNext(p)
      PROVE  /\ \A m \in Messages : HadItsTurn(m) => HadItsTurn(m)'
             /\ \A n \in Messages : shown'[n] # shown[n] => Lands(p, n)
  <2>1. ASSUME NEW m \in Messages, Lands(p, m)
        PROVE  /\ \A k \in Messages : HadItsTurn(k) => HadItsTurn(k)'
               /\ \A n \in Messages : shown'[n] # shown[n] => Lands(p, n)
    BY <1>2, <2>1
  <2>2. ASSUME NEW m \in Messages, Throws(p, m)
        PROVE  /\ \A k \in Messages : HadItsTurn(k) => HadItsTurn(k)'
               /\ UNCHANGED shown
    BY <1>3, <2>2
  <2>3. CASE DrainFails(p)
    BY <1>4, <2>3
  <2>4. CASE \/ PollBegins(p) \/ LeaveSession(p)
             \/ \E s \in Sessions : SkipSession(p, s) \/ EnterSession(p, s)
             \/ \E m \in Messages : StartCall(p, m) \/ Swallows(p, m) \/ Delivers(p, m)
    <3> UNCHANGED <<dest, shown, threw>> /\ swallowed \subseteq swallowed'
      BY <1>5, <2>4
    <3> QED
      OBVIOUS
  <2>5. \/ \E m \in Messages : Lands(p, m)
        \/ \E m \in Messages : Throws(p, m)
        \/ DrainFails(p)
        \/ PollBegins(p) \/ LeaveSession(p)
        \/ \E s \in Sessions : SkipSession(p, s) \/ EnterSession(p, s)
        \/ \E m \in Messages : StartCall(p, m) \/ Swallows(p, m) \/ Delivers(p, m)
    BY <1>7 DEF PollNext
  <2> QED
    BY <2>1, <2>2, <2>3, <2>4, <2>5
<1> QED
  BY <1>1, <1>6, <1>7 DEF Next

\* What a step does to a snapshot.
LEMMA QueueSteps ==
  ASSUME DeliveryInvariant, [Next]_vars, NEW p \in Polls
  PROVE  \/ queue'[p] = queue[p]
         \/ queue'[p] = {}
         \/ \E k \in Messages : queue'[p] = queue[p] \ {k} /\ HadItsTurn(k)'
         \/ \E s \in Sessions : EnterSession(p, s)
<1> USE DEF DeliveryInvariant, TypeOK
<1>1. ASSUME NEW q \in Polls, NEW k \in Messages, Delivers(q, k) \/ Throws(q, k)
      PROVE  queue' = [queue EXCEPT ![q] = @ \ {k}] /\ HadItsTurn(k)'
  <2>1. queue' = [queue EXCEPT ![q] = @ \ {k}] /\ IsHead(q, k)
    BY <1>1 DEF Delivers, Throws, Advance
  <2>2. CASE Delivers(q, k)
    <3>1. \/ shown[k] = doubt[k] + 1 \/ dest[k] = "nowhere" \/ k \in swallowed'
      BY <2>1, <2>2, HeadFacts DEF Delivers
    <3> QED
      BY <2>1, <2>2, <3>1 DEF Delivers, HadItsTurn, rows
  <2>3. CASE Throws(q, k)
    BY <2>1, <2>3 DEF Throws, Bump, HadItsTurn
  <2> QED
    BY <1>1, <2>1, <2>2, <2>3
<1>2. ASSUME NEW q \in Polls, PollNext(q)
      PROVE  \/ queue' = queue
             \/ queue' = [queue EXCEPT ![q] = {}]
             \/ \E k \in Messages : queue' = [queue EXCEPT ![q] = @ \ {k}] /\ HadItsTurn(k)'
             \/ \E s \in Sessions : EnterSession(q, s) /\ queue' = [queue EXCEPT ![q] = Undelivered(s)]
  BY <1>1, <1>2 DEF PollNext, PollBegins, SkipSession, EnterSession, StartCall, Lands, Swallows,
                    LeaveSession, DrainFails
<1>3. CASE \E q \in Polls : PollNext(q)
  BY <1>2, <1>3
<1>4. CASE ~\E q \in Polls : PollNext(q)
  BY <1>4 DEF Next, WriteMessage, HostCrash, HostStart, memory, vars
<1> QED
  BY <1>3, <1>4

\* Every step keeps rows in order.
LEMMA OrderInductive == DeliveryInvariant /\ [Next]_vars => SnapshotIsClosed' /\ SentInOrder'
<1> SUFFICES ASSUME DeliveryInvariant, [Next]_vars PROVE SnapshotIsClosed' /\ SentInOrder'
  OBVIOUS
<1> USE DeliveryAssumption DEF DeliveryInvariant, TypeOK
<1>w. ASSUME NEW m \in Messages, NEW s \in Sessions, NEW d \in Dests, WriteMessage(m, s, d)
      PROVE  /\ home' = [home EXCEPT ![m] = s]
             /\ UNCHANGED <<queue, shown>> /\ shown[m] = 0 /\ home[m] = NoSession
             /\ \A n \in Messages : m < n => home[n] = NoSession
  BY <1>w DEF WriteMessage, memory, history, OnlyWrittenRowsMove
<1>h. \/ \E m \in Messages, s \in Sessions, d \in Dests : WriteMessage(m, s, d)
      \/ UNCHANGED home
  BY DEF Next, PollNext, PollBegins, SkipSession, EnterSession, StartCall, Lands, Swallows,
         Delivers, Throws, LeaveSession, DrainFails, HostCrash, HostStart, vars, rows
<1>n. \A m \in Messages : home[m] = NoSession => shown[m] = 0 /\ \A p \in Polls : m \notin queue[p]
  BY DEF OnlyWrittenRowsMove, SnapshotIsUnsettled, CallHasMessage
<1>1. SentInOrder'
  <2> SUFFICES ASSUME NEW m \in Messages, NEW n \in Messages,
                      m < n, home'[m] = home'[n], shown'[n] > 0
               PROVE  HadItsTurn(m)'
    BY DEF SentInOrder, Messages
  <2>1. CASE shown'[n] = shown[n]
    <3>1. home[n] # NoSession /\ shown[n] > 0
      BY <2>1, <1>n
    <3>2. home[m] = home[n]
      BY <3>1, <1>w, <1>h DEF OnlyWrittenRowsMove
    <3> QED
      BY <3>1, <3>2, TurnSteps DEF SentInOrder
  <2>2. ASSUME NEW p \in Polls, Lands(p, n) PROVE HadItsTurn(m)'
    <3>1. UNCHANGED <<home, queue>> /\ n \in queue[p] /\ m \notin queue[p]
      BY <2>2 DEF Lands, rows, IsHead, Messages
    <3>2. home[m] # NoSession
      BY <3>1, <1>n
    <3> QED
      BY <3>1, <3>2, TurnSteps DEF SnapshotIsClosed
  <2> QED
    BY <2>1, <2>2, TurnSteps
<1>2. SnapshotIsClosed'
  <2> SUFFICES ASSUME NEW p \in Polls, NEW n \in queue'[p], NEW m \in Messages,
                      m < n, home'[m] = home'[n], m \notin queue'[p]
               PROVE  HadItsTurn(m)'
    BY DEF SnapshotIsClosed
  <2>0. n \in Messages
    BY TypeInductive
  <2>1. CASE n \in queue[p] /\ m \notin queue[p]
    <3>1. home[n] # NoSession
      BY <2>0, <2>1, <1>n
    <3>2. home[m] = home[n]
      <4>1. CASE UNCHANGED home
        BY <4>1
      <4>2. ASSUME NEW k \in Messages, NEW s \in Sessions, NEW d \in Dests, WriteMessage(k, s, d)
            PROVE  home[m] = home[n]
        <5>1. k # n /\ k # m
          BY <2>0, <3>1, <4>2, <1>w
        <5> QED
          BY <2>0, <5>1, <4>2, <1>w
      <4> QED
        BY <4>1, <4>2, <1>h
    <3>3. HadItsTurn(m) /\ home[m] # NoSession
      BY <2>1, <3>1, <3>2 DEF SnapshotIsClosed
    <3> QED
      BY <3>3, TurnSteps
  <2>2. CASE n \in queue[p] /\ m \in queue[p]
    <3>1. CASE \E t \in Sessions : EnterSession(p, t)
      BY <2>2, <3>1 DEF EnterSession, CallHasMessage
    <3> QED
      BY <2>2, <3>1, QueueSteps
  <2>3. CASE n \notin queue[p]
    <3>1. PICK s \in Sessions : EnterSession(p, s)
      BY <2>3, QueueSteps
    <3>2. queue'[p] = Undelivered(s) /\ UNCHANGED home
      BY <3>1 DEF EnterSession, rows
    <3>3. delivered[m] # "none" /\ home[m] # NoSession
      BY <2>0, <3>2, DeliveryAssumption DEF Undelivered
    <3> QED
      BY <3>3, SettledHadTurn, TurnSteps
  <2> QED
    BY <2>1, <2>2, <2>3
<1> QED
  BY <1>1, <1>2

\* Attempts are counted no faster than they fail, and a row fails for good only
\* at the limit.
LEMMA AttemptInductive ==
  DeliveryInvariant /\ [Next]_vars => AttemptsThrew' /\ FailedAfterMaxAttempts'
<1> SUFFICES ASSUME DeliveryInvariant, [Next]_vars
             PROVE  AttemptsThrew' /\ FailedAfterMaxAttempts'
  OBVIOUS
<1> USE DeliveryAssumption
    DEF DeliveryInvariant, TypeOK, AttemptsThrew, FailedAfterMaxAttempts
<1>1. ASSUME NEW p \in Polls, NEW m \in Messages, Delivers(p, m)
      PROVE  AttemptsThrew' /\ FailedAfterMaxAttempts'
  <2>1. attempts' = [attempts EXCEPT ![m] = 0] /\ UNCHANGED threw
    BY <1>1 DEF Delivers, history
  <2>2. \A k \in Messages : delivered'[k] = "failed" => delivered[k] = "failed"
    BY <1>1 DEF Delivers, Mark
  <2> QED
    BY <2>1, <2>2
<1>2. ASSUME NEW p \in Polls, NEW m \in Messages, Throws(p, m)
      PROVE  AttemptsThrew' /\ FailedAfterMaxAttempts'
  <2>1. threw' = [threw EXCEPT ![m] = @ + 1]
    BY <1>2 DEF Throws, Bump
  <2>2. CASE GivesUp(m)
    <3>1. attempts' = [attempts EXCEPT ![m] = 0]
      BY <1>2, <2>2 DEF Throws
    <3>2. \A k \in Messages : delivered'[k] = "failed" => delivered[k] = "failed" \/ k = m
      BY <1>2, <2>2 DEF Throws, Mark
    <3>3. threw[m] + 1 >= MaxAttempts
      BY <2>2 DEF GivesUp
    <3> QED
      BY <2>1, <3>1, <3>2, <3>3
  <2>3. CASE ~GivesUp(m)
    BY <1>2, <2>1, <2>3 DEF Throws, Bump
  <2> QED
    BY <2>2, <2>3
<1>3. ASSUME NEW p \in Polls, DrainFails(p) PROVE AttemptsThrew' /\ FailedAfterMaxAttempts'
  <2>1. CASE UNCHANGED <<attempts, threw>>
    BY <1>3, <2>1 DEF DrainFails
  <2>2. ASSUME NEW m \in Messages, attempts' = Bump(attempts, m), threw' = Bump(threw, m)
        PROVE  AttemptsThrew' /\ FailedAfterMaxAttempts'
    BY <1>3, <2>2 DEF DrainFails, Bump
  <2> QED
    BY <1>3, <2>1, <2>2 DEF DrainFails
<1>4. CASE HostCrash
  BY <1>4 DEF HostCrash
<1>5. CASE UNCHANGED <<attempts, threw, delivered>>
  BY <1>5
<1>6. ASSUME NEW p \in Polls, PollNext(p)
      PROVE  \/ UNCHANGED <<attempts, threw, delivered>> \/ DrainFails(p)
             \/ \E m \in Messages : Delivers(p, m) \/ Throws(p, m)
  BY <1>6 DEF PollNext, PollBegins, SkipSession, EnterSession, StartCall, Lands, Swallows,
             LeaveSession, history
<1>7. \/ UNCHANGED <<attempts, threw, delivered>> \/ HostCrash
      \/ \E p \in Polls : PollNext(p)
  BY DEF Next, WriteMessage, HostStart, memory, history, vars
<1> QED
  BY <1>1, <1>2, <1>3, <1>4, <1>5, <1>6, <1>7

\* The invariant holds initially.
LEMMA InvariantInit == Init => DeliveryInvariant
<1> SUFFICES ASSUME Init PROVE DeliveryInvariant
  OBVIOUS
<1> USE DeliveryAssumption DEF Init
<1>1. TypeOK
  <2>1. attempts \in [Messages -> 0..(MaxAttempts - 1 + faults)] /\ faults \in 0..MaxFaults
    OBVIOUS
  <2> QED
    BY <2>1 DEF TypeOK
<1>2. LocksFit
  BY DEF LocksFit, DrainsAreLocked, SnapshotIsUnsettled, CallHasMessage, OnlyWrittenRowsMove, Polls
<1>3. EffectsCounted
  BY DEF EffectsCounted, UnsettledIsAccounted, NoNeedlessDuplicate, DeliveredTookEffect, Unrecorded
<1>4. SnapshotIsClosed /\ SentInOrder /\ AttemptsThrew /\ FailedAfterMaxAttempts
  BY DEF SnapshotIsClosed, SentInOrder, AttemptsThrew, FailedAfterMaxAttempts
<1> QED
  BY <1>1, <1>2, <1>3, <1>4 DEF DeliveryInvariant, LocksFit, EffectsCounted

\* The inductive invariant holds in every reachable state.
THEOREM DeliveryCorrect == Spec => []DeliveryInvariant
<1>1. DeliveryInvariant /\ [Next]_vars => DeliveryInvariant'
  BY TypeInductive, LockInductive, CountInductive, OrderInductive, AttemptInductive
     DEF DeliveryInvariant, LocksFit, EffectsCounted
<1> QED
  BY <1>1, InvariantInit, PTL DEF Spec

\* Every variable stays in its type; the tables of the two polls and of the host
\* never hold a session, row or count that does not exist.
THEOREM TypeCorrect == Spec => []TypeOK
<1>1. DeliveryInvariant => TypeOK
  BY DEF DeliveryInvariant
<1> QED
  BY <1>1, DeliveryCorrect, PTL

\* No crash, error or overlap of the two polls shows a message again unless the
\* host could not know that it had been shown.
THEOREM NoDuplicate == Spec => []NoNeedlessDuplicate
<1>1. DeliveryInvariant => NoNeedlessDuplicate
  BY DEF DeliveryInvariant
<1> QED
  BY <1>1, DeliveryCorrect, PTL

\* What is recorded as delivered took effect, had nowhere to go, or was passed
\* over by an adapter that reported no error.
THEOREM DeliveredReached == Spec => []DeliveredTookEffect
<1>1. DeliveryInvariant => DeliveredTookEffect
  BY DEF DeliveryInvariant
<1> QED
  BY <1>1, DeliveryCorrect, PTL

\* The rows of a session take effect in the order in which they were written,
\* failed attempts apart.
THEOREM InOrder == Spec => []SentInOrder
<1>1. DeliveryInvariant => SentInOrder
  BY DEF DeliveryInvariant
<1> QED
  BY <1>1, DeliveryCorrect, PTL

\* A row is given up only after MaxAttempts errors.
THEOREM GivenUpAtLimit == Spec => []FailedAfterMaxAttempts
<1>1. DeliveryInvariant => FailedAfterMaxAttempts
  BY DEF DeliveryInvariant
<1> QED
  BY <1>1, DeliveryCorrect, PTL

\* A settled row is left alone for good.
THEOREM SettledStays == Spec => SettledIsFinal
<1>1. DeliveryInvariant /\ [Next]_vars =>
        [\A m \in Messages : delivered[m] # "none" =>
           delivered'[m] = delivered[m] /\ shown'[m] = shown[m] /\ threw'[m] = threw[m]]_vars
  <2> SUFFICES ASSUME DeliveryInvariant, [Next]_vars, NEW m \in Messages, delivered[m] # "none"
               PROVE  delivered'[m] = delivered[m] /\ shown'[m] = shown[m] /\ threw'[m] = threw[m]
    OBVIOUS
  <2> USE DEF DeliveryInvariant, TypeOK
  <2>1. \A p \in Polls : ~IsHead(p, m)
    BY HeadFacts
  <2>2. ASSUME NEW p \in Polls, NEW k \in Messages, Lands(p, k) \/ Delivers(p, k) \/ Throws(p, k)
        PROVE  delivered'[m] = delivered[m] /\ shown'[m] = shown[m] /\ threw'[m] = threw[m]
    <3>1. k # m
      BY <2>1, <2>2 DEF Lands, Delivers, Throws
    <3> QED
      BY <2>2, <3>1 DEF Lands, Delivers, Throws, Mark, Bump, history
  <2>3. ASSUME NEW p \in Polls, DrainFails(p)
        PROVE  delivered'[m] = delivered[m] /\ shown'[m] = shown[m] /\ threw'[m] = threw[m]
    BY <2>1, <2>3 DEF DrainFails, Bump
  <2>4. ASSUME NEW p \in Polls, PollNext(p)
        PROVE  delivered'[m] = delivered[m] /\ shown'[m] = shown[m] /\ threw'[m] = threw[m]
    BY <2>2, <2>3, <2>4 DEF PollNext, PollBegins, SkipSession, EnterSession, StartCall,
                            Swallows, LeaveSession, history
  <2>5. CASE ~\E p \in Polls : PollNext(p)
    BY <2>5 DEF Next, WriteMessage, HostCrash, HostStart, history, vars
  <2> QED
    BY <2>4, <2>5
<1> QED
  BY <1>1, DeliveryCorrect, PTL DEF Spec, SettledIsFinal
=============================================================================
