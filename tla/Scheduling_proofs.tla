--------------------------- MODULE Scheduling_proofs ---------------------------
(***************************************************************************)
(* What Scheduling guarantees for any number of task rows, crashes and     *)
(* database errors.                                                        *)
(***************************************************************************)
EXTENDS Scheduling, TLAPS

\* What the invariant says of a written row: its series is headed by a written
\* row.
LEMMA SeriesFacts ==
  ASSUME SchedulingInvariant, NEW m \in Written
  PROVE  m \in Occ /\ series[m] \in Written /\ series[m] \in Occ /\ series[series[m]] = series[m]
BY DEF SchedulingInvariant, SeriesOfWritten, Written

\* Every step keeps every variable in its type; that what is expected or
\* interrupted is a series rests on the rest of the invariant.
LEMMA TypeInductive == SchedulingInvariant /\ [Next]_vars => TypeOK'
<1> SUFFICES ASSUME SchedulingInvariant, [Next]_vars PROVE TypeOK'
  OBVIOUS
<1>0. TypeOK
  BY DEF SchedulingInvariant
<1> USE <1>0, SchedulingAssumption DEF TypeOK, rows, fanout, history
<1>1. ASSUME NEW n \in Occ, NEW r \in BOOLEAN, ScheduleTask(n, r) PROVE TypeOK'
  BY <1>1 DEF ScheduleTask, Insert
<1>2. ASSUME NEW t \in Occ, NEW r \in BOOLEAN, UpdateTask(t, r) PROVE TypeOK'
  <2>1. series[t] \in Occ
    BY <1>2, SeriesFacts DEF UpdateTask
  <2> QED
    BY <1>2, <2>1 DEF UpdateTask
<1>3. ASSUME NEW t \in Occ, CancelTask(t) PROVE TypeOK'
  BY <1>3 DEF CancelTask
<1>4. ASSUME NEW t \in Occ, PauseTask(t) PROVE TypeOK'
  BY <1>4 DEF PauseTask
<1>5. ASSUME NEW t \in Occ, ResumeTask(t) PROVE TypeOK'
  BY <1>5 DEF ResumeTask
<1>6. CASE StartContainer
  BY <1>6 DEF StartContainer
<1>7. CASE ContainerStops
  BY <1>7 DEF ContainerStops
<1>8. ASSUME NEW S \in SUBSET Occ, Claim(S) PROVE TypeOK'
  BY <1>8 DEF Claim
<1>9. ASSUME NEW S \in SUBSET Occ, Acknowledge(S) PROVE TypeOK'
  BY <1>9 DEF Acknowledge
<1>10. CASE SweepBegin
  BY <1>10 DEF SweepBegin, Synced
<1>11. CASE SweepResumes
  <2>1. faults' \in 0..MaxFaults
    BY <1>11 DEF SweepResumes
  <2> QED
    BY <1>11, <2>1 DEF SweepResumes
<1>12. CASE ReadRecurring
  BY <1>12 DEF ReadRecurring, Recurring, Written
<1>13. ASSUME NEW F \in SUBSET Occ, SweepResets(F) PROVE TypeOK'
  BY <1>13 DEF SweepResets
<1>14. ASSUME NEW m \in Occ, NEW n \in Occ, InsertNext(m, n) PROVE TypeOK'
  BY <1>14 DEF InsertNext, Insert
<1>15. CASE ClearRecurrence
  BY <1>15 DEF ClearRecurrence, NextInLoop
<1>16. CASE ClearFails
  <2>1. faults' \in 0..MaxFaults
    BY <1>16 DEF ClearFails
  <2>2. series[current] \in Occ
    BY <1>16, SeriesFacts DEF ClearFails, SchedulingInvariant, CurrentIsRecurring, Recurring
  <2> QED
    BY <1>16, <2>1, <2>2 DEF ClearFails, NextInLoop
<1>17. ASSUME NEW m \in Occ, InsertFails(m) PROVE TypeOK'
  <2>1. faults' \in 0..MaxFaults
    BY <1>17 DEF InsertFails
  <2> QED
    BY <1>17, <2>1 DEF InsertFails
<1>18. CASE HostCrash
  <2>1. faults' \in 0..MaxFaults
    BY <1>18 DEF HostCrash
  <2>2. sweep = "inserted" => series[current] \in Occ
    BY SeriesFacts DEF SchedulingInvariant, CurrentIsRecurring, Recurring
  <2> QED
    BY <1>18, <2>1, <2>2 DEF HostCrash
<1>19. CASE HostStart
  BY <1>19 DEF HostStart
<1>20. CASE UNCHANGED vars
  BY <1>20 DEF vars
<1> QED
  BY <1>1, <1>2, <1>3, <1>4, <1>5, <1>6, <1>7, <1>8, <1>9, <1>10, <1>11, <1>12, <1>13,
     <1>14, <1>15, <1>16, <1>17, <1>18, <1>19, <1>20
     DEF Next, AgentNext, ContainerNext, SweepNext

\* The columns fit together: series have written heads, and what was given up
\* is not claimed by a container that is up.
LEMMA ColumnsInductive ==
  SchedulingInvariant /\ [Next]_vars => SeriesOfWritten' /\ FailedIsNotAcked'
<1> SUFFICES ASSUME SchedulingInvariant, [Next]_vars
             PROVE  SeriesOfWritten' /\ FailedIsNotAcked'
  OBVIOUS
<1>0. TypeOK /\ SeriesOfWritten /\ FailedIsNotAcked
  BY DEF SchedulingInvariant
<1> USE <1>0 DEF TypeOK, SeriesOfWritten, FailedIsNotAcked, Written, rows, fanout, history
<1>1. ASSUME NEW n \in Occ, NEW r \in BOOLEAN, ScheduleTask(n, r)
      PROVE  SeriesOfWritten' /\ FailedIsNotAcked'
  BY <1>1 DEF ScheduleTask, Insert
<1>2. ASSUME NEW t \in Occ, NEW r \in BOOLEAN, UpdateTask(t, r)
      PROVE  SeriesOfWritten' /\ FailedIsNotAcked'
  BY <1>2 DEF UpdateTask
<1>3. ASSUME NEW t \in Occ, CancelTask(t)
      PROVE  SeriesOfWritten' /\ FailedIsNotAcked'
  BY <1>3 DEF CancelTask, Named, Live
<1>4. ASSUME NEW t \in Occ, PauseTask(t)
      PROVE  SeriesOfWritten' /\ FailedIsNotAcked'
  BY <1>4 DEF PauseTask, Named
<1>5. ASSUME NEW t \in Occ, ResumeTask(t)
      PROVE  SeriesOfWritten' /\ FailedIsNotAcked'
  BY <1>5 DEF ResumeTask, Named
<1>6. CASE StartContainer
  BY <1>6 DEF StartContainer
<1>7. CASE ContainerStops
  BY <1>7 DEF ContainerStops
<1>8. ASSUME NEW S \in SUBSET Occ, Claim(S)
      PROVE  SeriesOfWritten' /\ FailedIsNotAcked'
  BY <1>8 DEF Claim, Claimable
<1>9. ASSUME NEW S \in SUBSET Occ, Acknowledge(S)
      PROVE  SeriesOfWritten' /\ FailedIsNotAcked'
  BY <1>9 DEF Acknowledge, Claimable
<1>10. CASE SweepBegin
  BY <1>10 DEF SweepBegin, Synced
<1>11. CASE SweepResumes
  BY <1>11 DEF SweepResumes
<1>12. CASE ReadRecurring
  BY <1>12 DEF ReadRecurring
<1>13. ASSUME NEW F \in SUBSET Occ, SweepResets(F)
       PROVE  SeriesOfWritten' /\ FailedIsNotAcked'
  BY <1>13 DEF SweepResets
<1>14. ASSUME NEW m \in Occ, NEW n \in Occ, InsertNext(m, n)
       PROVE  SeriesOfWritten' /\ FailedIsNotAcked'
  <2>1. m \in Written
    BY <1>14 DEF InsertNext, SchedulingInvariant, SnapshotIsRecurring, Recurring
  <2> QED
    BY <1>14, <2>1 DEF InsertNext, Insert
<1>15. CASE ClearRecurrence
  BY <1>15 DEF ClearRecurrence
<1>16. CASE ClearFails
  BY <1>16 DEF ClearFails
<1>17. ASSUME NEW m \in Occ, InsertFails(m)
       PROVE  SeriesOfWritten' /\ FailedIsNotAcked'
  BY <1>17 DEF InsertFails
<1>18. CASE HostCrash
  BY <1>18 DEF HostCrash
<1>19. CASE HostStart
  BY <1>19 DEF HostStart
<1>20. CASE UNCHANGED vars
  BY <1>20 DEF vars
<1> QED
  BY <1>1, <1>2, <1>3, <1>4, <1>5, <1>6, <1>7, <1>8, <1>9, <1>10, <1>11, <1>12, <1>13,
     <1>14, <1>15, <1>16, <1>17, <1>18, <1>19, <1>20
     DEF Next, AgentNext, ContainerNext, SweepNext

\* The stems of the series and what step 5 of the sweep holds of them.
StemsFit ==
  /\ SnapshotIsRecurring /\ CurrentIsRecurring
  /\ NextFollowsARun /\ SeriesNeverLost /\ OneStemPerSeries /\ CancelledHasNoStem

\* The rows a request names belong to one series, and outside of "inserted"
\* they are the only live ones of it that can have been found.
LEMMA HitFacts ==
  ASSUME SchedulingInvariant, NEW t \in Written, NEW m \in Named(t)
  PROVE  m \in Written /\ series[m] = series[t]
BY SeriesFacts DEF Named, Written

\* No request disturbs the rows step 5 has read: it changes live rows only.
LEMMA RequestFrame ==
  ASSUME SchedulingInvariant, NEW t \in Occ, NEW r \in BOOLEAN,
         \/ CancelTask(t) \/ PauseTask(t) \/ ResumeTask(t) \/ UpdateTask(t, r)
  PROVE  /\ UNCHANGED <<series, ack, fanout, interrupted>>
         /\ t \in Written /\ sweep # "inserted" /\ current = 0
         /\ Recurring' = Recurring /\ Live' \subseteq Live /\ GivenUp' = GivenUp
<1>1. /\ UNCHANGED <<series, ack, fanout, interrupted>>
      /\ t \in Written /\ sweep # "inserted" /\ current = 0
  BY DEF CancelTask, PauseTask, ResumeTask, UpdateTask, HostFree, SchedulingInvariant, CurrentIsRecurring
<1>2. /\ \A m \in Occ \ Live : status'[m] = status[m] /\ recurs'[m] = recurs[m]
      /\ \A m \in Live : status'[m] = "completed" => ~recurs'[m]
      /\ \A m \in Occ : status'[m] = "none" <=> status[m] = "none"
  <2> USE DEF SchedulingInvariant, TypeOK, Live
  <2>1. CASE CancelTask(t)
    BY <2>1 DEF CancelTask
  <2>2. CASE PauseTask(t)
    BY <2>2 DEF PauseTask, rows
  <2>3. CASE ResumeTask(t)
    BY <2>3 DEF ResumeTask
  <2>4. CASE UpdateTask(t, r)
    BY <2>4 DEF UpdateTask
  <2> QED
    BY <2>1, <2>2, <2>3, <2>4
<1>3. Recurring' = Recurring
  BY <1>2 DEF Recurring, Written, Live
<1>4. Live' \subseteq Live
  BY <1>2 DEF Live
<1>5. GivenUp' = GivenUp
  <2>1. \A m \in Live : status'[m] # "failed"
    BY DEF CancelTask, PauseTask, ResumeTask, UpdateTask, rows, Live, SchedulingInvariant, TypeOK
  <2> QED
    BY <1>2, <2>1 DEF GivenUp, Written, Live
<1> QED
  BY <1>1, <1>3, <1>4, <1>5

\* A cancel takes the live rows it names off their series, and a cancel that
\* found one leaves the series without a stem.
LEMMA CancelInductive ==
  ASSUME SchedulingInvariant, NEW t \in Occ, CancelTask(t)
  PROVE  SeriesNeverLost' /\ CancelledHasNoStem'
<1> DEFINE hit == Named(t) \intersect Live
<1>1. /\ UNCHANGED <<series, interrupted>> /\ Recurring' = Recurring /\ GivenUp' = GivenUp
      /\ t \in Written /\ current = 0
  BY RequestFrame
<1>2. \A m \in Named(t) : series[m] = series[t]
  BY <1>1, HitFacts
<1>3. series[t] \in Occ
  BY <1>1, SeriesFacts
<1>4. /\ \A m \in Occ : status'[m] = IF m \in hit THEN "completed" ELSE status[m]
      /\ \A m \in Occ : recurs'[m] = (recurs[m] /\ m \notin hit)
      /\ expected' = expected \ {series[t]}
  BY DEF CancelTask
<1>5. Live' = Live \ hit
  BY <1>4 DEF Live
<1>6. hit \intersect Recurring = {} /\ Live \subseteq Occ /\ Recurring \subseteq Occ
  BY DEF Live, Recurring, Written
<1>7. SeriesNeverLost'
  <2> SUFFICES ASSUME NEW s \in expected' PROVE \E m \in Stems' \union GivenUp' : series'[m] = s /\ recurs'[m]
    BY DEF SeriesNeverLost
  <2>1. s \in expected /\ s # series[t]
    BY <1>4
  <2>2. PICK m \in Stems \union GivenUp : series[m] = s /\ recurs[m]
    BY <2>1 DEF SchedulingInvariant, SeriesNeverLost
  <2>3. m \notin hit /\ m \in Occ
    BY <1>2, <1>6, <2>1, <2>2 DEF Stems, GivenUp, Written
  <2> QED
    BY <1>1, <1>4, <1>5, <2>2, <2>3 DEF Stems
<1>8. CancelledHasNoStem'
  <2> SUFFICES ASSUME NEW m \in Stems', wish'[series[m]] = "cancelled"
               PROVE  series[m] \in interrupted
    BY <1>1 DEF CancelledHasNoStem
  <2>1. m \in Stems /\ m \notin hit
    BY <1>1, <1>5, <1>6 DEF Stems
  <2>2. CASE wish[series[m]] = "cancelled"
    BY <2>1, <2>2 DEF SchedulingInvariant, CancelledHasNoStem
  <2>3. CASE wish[series[m]] # "cancelled"
    <3>1. hit # {} /\ series[m] = series[t]
      BY <1>3, <2>3 DEF CancelTask, SchedulingInvariant, TypeOK
    <3>2. PICK h \in hit : h # m /\ h \in Stems \ {current} /\ series[h] = series[m]
      BY <1>1, <1>2, <1>6, <2>1, <3>1 DEF Stems, Occ
    <3>3. m \in Stems \ {current}
      BY <1>1, <1>6, <2>1 DEF Stems, Occ
    <3> QED
      BY <3>2, <3>3 DEF SchedulingInvariant, OneStemPerSeries
  <2> QED
    BY <2>2, <2>3
<1> QED
  BY <1>7, <1>8

\* Requests keep the stems of every series.
LEMMA RequestInductive ==
  ASSUME SchedulingInvariant, NEW t \in Occ, NEW r \in BOOLEAN,
         \/ CancelTask(t) \/ PauseTask(t) \/ ResumeTask(t) \/ UpdateTask(t, r)
  PROVE  StemsFit'
<1>1. /\ UNCHANGED <<series, ack, fanout, interrupted>>
      /\ t \in Written /\ sweep # "inserted" /\ current = 0
      /\ Recurring' = Recurring /\ Live' \subseteq Live /\ GivenUp' = GivenUp
  BY RequestFrame
<1>2. SnapshotIsRecurring' /\ CurrentIsRecurring' /\ NextFollowsARun'
  BY <1>1 DEF SchedulingInvariant, SnapshotIsRecurring, CurrentIsRecurring, NextFollowsARun, fanout
<1>3. OneStemPerSeries'
  BY <1>1 DEF SchedulingInvariant, OneStemPerSeries, Stems, fanout
<1>4. CASE CancelTask(t)
  BY <1>2, <1>3, <1>4, CancelInductive DEF StemsFit
<1>5. CASE PauseTask(t) \/ ResumeTask(t)
  <2>1. /\ \A m \in Live : m \in Live' /\ UNCHANGED <<recurs, expected>>
        /\ wish' = [wish EXCEPT ![series[t]] = "paused"] \/ wish' = [wish EXCEPT ![series[t]] = "on"]
    <3>1. CASE PauseTask(t)
      BY <3>1 DEF PauseTask, Live, SchedulingInvariant, TypeOK
    <3>2. CASE ResumeTask(t)
      BY <3>2 DEF ResumeTask, Live, SchedulingInvariant, TypeOK
    <3> QED
      BY <1>5, <3>1, <3>2
  <2>2. SeriesNeverLost'
    BY <1>1, <1>5, <2>1 DEF SchedulingInvariant, SeriesNeverLost, Stems, PauseTask, ResumeTask
  <2>3. CancelledHasNoStem'
    <3> SUFFICES ASSUME NEW m \in Stems', wish'[series[m]] = "cancelled"
                 PROVE  m \in Stems /\ wish[series[m]] = "cancelled"
      BY <1>1 DEF SchedulingInvariant, CancelledHasNoStem
    <3>1. m \in Stems
      BY <1>1 DEF Stems
    <3>2. series[m] \in Occ
      BY <3>1, SeriesFacts DEF Stems, Live, Recurring, Written
    <3> QED
      BY <2>1, <3>1, <3>2 DEF SchedulingInvariant, TypeOK
  <2> QED
    BY <1>2, <1>3, <2>2, <2>3 DEF StemsFit
<1>6. CASE UpdateTask(t, r)
  <2> DEFINE hit == Named(t) \intersect Live
  <2>1. /\ hit # {} /\ UNCHANGED <<status, wish>>
        /\ \A m \in Occ : recurs'[m] = IF m \in hit THEN r ELSE recurs[m]
        /\ expected' = IF r THEN expected \union {series[t]} ELSE expected \ {series[t]}
    BY <1>6 DEF UpdateTask
  <2>2. Live' = Live /\ Stems' = Stems /\ Stems \subseteq Occ
    BY <1>1, <2>1 DEF Live, Stems, Recurring, Written
  <2>3. \A m \in hit : series[m] = series[t] /\ m \in Stems
    BY <1>1, HitFacts DEF Stems
  <2>4. SeriesNeverLost'
    <3> SUFFICES ASSUME NEW s \in expected'
                 PROVE  \E m \in Stems \union GivenUp : series[m] = s /\ recurs'[m]
      BY <1>1, <2>2 DEF SeriesNeverLost
    <3>1. CASE r /\ s = series[t]
      BY <2>1, <2>2, <2>3, <3>1
    <3>2. CASE s # series[t] \/ ~r
      <4>1. s \in expected /\ (~r => s # series[t])
        BY <2>1, <3>2
      <4>2. PICK m \in Stems \union GivenUp : series[m] = s /\ recurs[m]
        BY <4>1 DEF SchedulingInvariant, SeriesNeverLost
      <4>3. m \in Occ
        BY <2>2, <4>2 DEF GivenUp, Written
      <4> QED
        BY <2>1, <2>2, <2>3, <4>1, <4>2, <4>3
    <3> QED
      BY <3>1, <3>2
  <2>5. CancelledHasNoStem'
    BY <1>1, <2>1, <2>2 DEF SchedulingInvariant, CancelledHasNoStem
  <2> QED
    BY <1>2, <1>3, <2>4, <2>5 DEF StemsFit
<1> QED
  BY <1>4, <1>5, <1>6

\* What an insert adds to the live rows.
LEMMA InsertFacts ==
  ASSUME SchedulingInvariant, NEW n \in Occ, NEW r \in BOOLEAN, NEW s \in Occ, Insert(n, r, s)
  PROVE  /\ n \notin Written /\ n \notin Stems /\ \A k \in Written : series[k] # n
         /\ Live' = Live \union {n} /\ Recurring' = Recurring /\ Stems \subseteq Written
         /\ GivenUp \subseteq Written /\ GivenUp' = GivenUp
         /\ \A k \in Written : series'[k] = series[k] /\ recurs'[k] = recurs[k]
         /\ series'[n] = s /\ recurs'[n] = r
<1> USE DEF Insert, SchedulingInvariant, TypeOK, Live, Recurring, Written, Stems, GivenUp
<1>1. n \notin Written /\ n \notin Stems /\ Stems \subseteq Written
  OBVIOUS
<1>2. \A k \in Written : series[k] # n
  BY <1>1, SeriesFacts
<1>3. Live' = Live \union {n} /\ Recurring' = Recurring /\ GivenUp' = GivenUp
  OBVIOUS
<1> QED
  BY <1>1, <1>2, <1>3

\* A new series starts with one stem; a next occurrence takes the place of the
\* row it follows.
LEMMA InsertInductive ==
  ASSUME SchedulingInvariant, NEW n \in Occ, NEW m \in Occ, NEW r \in BOOLEAN,
         ScheduleTask(n, r) \/ InsertNext(m, n)
  PROVE  StemsFit'
<1> USE DEF SchedulingInvariant, StemsFit
<1>0. current = 0 /\ sweep # "inserted"
  BY DEF ScheduleTask, InsertNext, HostFree, CurrentIsRecurring
<1>1. CASE ScheduleTask(n, r)
  <2>1. /\ n \notin Written /\ n \notin Stems /\ \A k \in Written : series[k] # n
        /\ Live' = Live \union {n} /\ Recurring' = Recurring /\ Stems \subseteq Written
        /\ GivenUp \subseteq Written /\ GivenUp' = GivenUp
        /\ \A k \in Written : series'[k] = series[k] /\ recurs'[k] = recurs[k]
        /\ series'[n] = n /\ recurs'[n] = r
    BY <1>1, InsertFacts DEF ScheduleTask
  <2>2. Stems' = Stems \union {n}
    BY <2>1 DEF Stems
  <2>3. SnapshotIsRecurring' /\ CurrentIsRecurring' /\ NextFollowsARun'
    BY <1>0, <1>1, <2>1 DEF ScheduleTask, fanout, SnapshotIsRecurring, CurrentIsRecurring, NextFollowsARun
  <2>4. SeriesNeverLost'
    BY <1>1, <2>1, <2>2 DEF ScheduleTask, SeriesNeverLost
  <2>5. OneStemPerSeries'
    BY <1>0, <1>1, <2>1, <2>2 DEF ScheduleTask, fanout, OneStemPerSeries
  <2>6. CancelledHasNoStem'
    BY <1>1, <2>1, <2>2, SeriesFacts DEF ScheduleTask, CancelledHasNoStem, TypeOK
  <2> QED
    BY <2>3, <2>4, <2>5, <2>6
<1>2. CASE InsertNext(m, n)
  <2>0. m \in Recurring /\ m \in Written /\ m \in Stems /\ series[m] \in Occ
    BY <1>2, SeriesFacts DEF InsertNext, SnapshotIsRecurring, Recurring, Stems
  <2>1. /\ n \notin Written /\ n \notin Stems
        /\ Live' = Live \union {n} /\ Recurring' = Recurring /\ Stems \subseteq Written
        /\ GivenUp \subseteq Written /\ GivenUp' = GivenUp
        /\ \A k \in Written : series'[k] = series[k] /\ recurs'[k] = recurs[k]
        /\ series'[n] = series[m] /\ recurs'[n] = TRUE
    BY <1>2, <2>0, InsertFacts DEF InsertNext
  <2>2. Stems' = Stems \union {n}
    BY <2>1 DEF Stems
  <2>3. SnapshotIsRecurring' /\ CurrentIsRecurring' /\ NextFollowsARun'
    BY <1>2, <2>0, <2>1 DEF InsertNext, SnapshotIsRecurring, CurrentIsRecurring, NextFollowsARun
  <2>4. SeriesNeverLost'
    BY <1>2, <2>1, <2>2 DEF InsertNext, SeriesNeverLost, history
  <2>5. OneStemPerSeries'
    <3>1. \A k \in Stems : series[k] = series[m] /\ series[m] \notin interrupted => k = m
      <4>1. 0 \notin Stems
        BY DEF Stems, Live, Recurring, Written, Occ
      <4> QED
        BY <1>0, <2>0, <4>1 DEF OneStemPerSeries
    <3>2. \A k, l \in Stems : series[k] = series[l] /\ series[k] \notin interrupted => k = l
      <4>1. 0 \notin Stems
        BY DEF Stems, Live, Recurring, Written, Occ
      <4> QED
        BY <1>0, <4>1 DEF OneStemPerSeries
    <3>3. current' = m /\ interrupted' = interrupted
      BY <1>2 DEF InsertNext, history
    <3> QED
      BY <2>0, <2>1, <2>2, <3>1, <3>2, <3>3 DEF OneStemPerSeries
  <2>6. CancelledHasNoStem'
    BY <1>2, <2>0, <2>1, <2>2 DEF InsertNext, CancelledHasNoStem, history
  <2> QED
    BY <2>3, <2>4, <2>5, <2>6
<1> QED
  BY <1>1, <1>2

\* The sweep's other writes: acknowledgements copied, rows given up, the
\* recurrence of a row with a successor cleared or left behind.
LEMMA SweepInductive ==
  ASSUME SchedulingInvariant, NEW F \in SUBSET Occ,
         \/ SweepBegin \/ SweepResets(F) \/ ClearRecurrence \/ ClearFails \/ HostCrash
  PROVE  StemsFit'
<1> USE DEF TypeOK, SchedulingInvariant, StemsFit, rows, fanout, history,
        SnapshotIsRecurring, CurrentIsRecurring, NextFollowsARun, Recurring, Live, Stems, Written, GivenUp
<1>1. CASE SweepBegin
  <2>1. /\ Stems' \subseteq Stems /\ recurs' = recurs /\ series' = series
        /\ \A m \in Stems : recurs[m] => m \in Stems'
        /\ GivenUp' = GivenUp
    BY <1>1 DEF SweepBegin, Synced, FailedIsNotAcked, SeriesOfWritten
  <2>2. SnapshotIsRecurring' /\ CurrentIsRecurring' /\ NextFollowsARun'
    BY <1>1 DEF SweepBegin, Synced
  <2>3. SeriesNeverLost'
    BY <1>1, <2>1 DEF SweepBegin, SeriesNeverLost
  <2>4. OneStemPerSeries' /\ CancelledHasNoStem'
    BY <1>1, <2>1 DEF SweepBegin, OneStemPerSeries, CancelledHasNoStem
  <2> QED
    BY <2>2, <2>3, <2>4
<1>2. CASE SweepResets(F)
  <2>1. /\ Stems' = Stems \ F /\ GivenUp' = GivenUp \union {m \in F : recurs[m]}
        /\ Recurring' = Recurring /\ recurs' = recurs /\ series' = series
    BY <1>2 DEF SweepResets
  <2>2. SnapshotIsRecurring' /\ CurrentIsRecurring' /\ NextFollowsARun'
    BY <1>2, <2>1 DEF SweepResets
  <2>3. SeriesNeverLost'
    BY <1>2, <2>1 DEF SweepResets, SeriesNeverLost
  <2>4. OneStemPerSeries' /\ CancelledHasNoStem'
    BY <1>2, <2>1 DEF SweepResets, OneStemPerSeries, CancelledHasNoStem
  <2> QED
    BY <2>2, <2>3, <2>4
<1>3. CASE ClearRecurrence
  <2>1. /\ Live' = Live /\ Recurring' = Recurring \ {current} /\ series' = series
        /\ GivenUp' = GivenUp /\ current \notin GivenUp
        /\ \A k \in Occ : k # current => recurs'[k] = recurs[k]
        /\ current \in Recurring /\ current' = 0
    BY <1>3 DEF ClearRecurrence
  <2>2. SnapshotIsRecurring' /\ CurrentIsRecurring' /\ NextFollowsARun'
    BY <1>3, <2>1 DEF ClearRecurrence, NextInLoop
  <2>3. SeriesNeverLost'
    <3>1. PICK n \in Live : n # current /\ series[n] = series[current] /\ recurs[n]
      BY <1>3 DEF ClearRecurrence
    <3> QED
      BY <1>3, <2>1, <3>1 DEF ClearRecurrence, SeriesNeverLost
  <2>4. OneStemPerSeries' /\ CancelledHasNoStem'
    BY <1>3, <2>1 DEF ClearRecurrence, OneStemPerSeries, CancelledHasNoStem
  <2> QED
    BY <2>2, <2>3, <2>4
<1>4. CASE ClearFails \/ HostCrash
  <2>1. /\ Live' = Live /\ Recurring' = Recurring /\ GivenUp' = GivenUp
        /\ recurs' = recurs /\ series' = series
    BY <1>4 DEF ClearFails, HostCrash
  <2>2. SnapshotIsRecurring' /\ CurrentIsRecurring' /\ NextFollowsARun'
    BY <1>4, <2>1 DEF ClearFails, HostCrash, NextInLoop
  <2>3. SeriesNeverLost' /\ CancelledHasNoStem'
    BY <1>4, <2>1 DEF ClearFails, HostCrash, SeriesNeverLost, CancelledHasNoStem
  <2>4. OneStemPerSeries'
    BY <1>4, <2>1 DEF ClearFails, HostCrash, OneStemPerSeries
  <2> QED
    BY <2>2, <2>3, <2>4
<1> QED
  BY <1>1, <1>2, <1>3, <1>4

\* Every step keeps the stems of the series fitting; a step of the container
\* changes no row and withdraws no acknowledgement.
LEMMA StemsInductive == SchedulingInvariant /\ [Next]_vars => StemsFit'
<1> SUFFICES ASSUME SchedulingInvariant, [Next]_vars PROVE StemsFit'
  OBVIOUS
<1> DEFINE Quiet ==
     /\ UNCHANGED <<status, recurs, series, expected, wish, interrupted>>
     /\ \A m \in Occ : ack[m] = "completed" => ack'[m] = "completed"
<1>1. ASSUME Quiet
      PROVE  /\ Live' = Live /\ Recurring' = Recurring /\ Stems' = Stems /\ GivenUp' = GivenUp
             /\ NextFollowsARun' /\ SeriesNeverLost' /\ CancelledHasNoStem'
  <2>1. Live' = Live /\ Recurring' = Recurring /\ Stems' = Stems /\ GivenUp' = GivenUp
    BY <1>1 DEF Live, Recurring, Stems, Written, GivenUp
  <2> QED
    BY <1>1, <2>1 DEF SchedulingInvariant, NextFollowsARun, SeriesNeverLost,
         CancelledHasNoStem, Recurring, Written
<1>2. CASE Quiet /\ UNCHANGED fanout
  BY <1>1, <1>2 DEF SchedulingInvariant, StemsFit, fanout, SnapshotIsRecurring,
       CurrentIsRecurring, OneStemPerSeries
<1>3. CASE StartContainer \/ ContainerStops \/ HostStart \/ UNCHANGED vars
  BY <1>2, <1>3 DEF StartContainer, ContainerStops, HostStart, vars, rows, fanout, history
<1>4. ASSUME NEW S \in SUBSET Occ, Claim(S) \/ Acknowledge(S) PROVE StemsFit'
  <2>1. Quiet /\ UNCHANGED fanout
    BY <1>4 DEF Claim, Acknowledge, Claimable, rows, fanout, history
  <2> QED
    BY <1>2, <2>1
<1>5. CASE SweepResumes \/ ReadRecurring \/ \E m \in Occ : InsertFails(m)
  <2>1. Quiet /\ current' = current
    BY <1>5 DEF SweepResumes, ReadRecurring, InsertFails, rows, history
  <2>2. SnapshotIsRecurring' /\ CurrentIsRecurring'
    BY <1>1, <1>5, <2>1 DEF SweepResumes, ReadRecurring, InsertFails, SchedulingInvariant,
         SnapshotIsRecurring, CurrentIsRecurring
  <2> QED
    BY <1>1, <2>1, <2>2 DEF SchedulingInvariant, StemsFit, OneStemPerSeries
<1> QED
  BY <1>3, <1>4, <1>5, RequestInductive, InsertInductive, SweepInductive
     DEF Next, AgentNext, ContainerNext, SweepNext

LEMMA InvariantInit == Init => SchedulingInvariant
<1> SUFFICES ASSUME Init PROVE SchedulingInvariant
  OBVIOUS
<1> USE SchedulingAssumption DEF Init
<1>1. Written = {} /\ Stems = {} /\ Recurring = {}
  BY DEF Written, Stems, Live, Recurring
<1>2. TypeOK
  BY DEF TypeOK
<1>3. SeriesOfWritten /\ FailedIsNotAcked
  BY <1>1 DEF SeriesOfWritten, FailedIsNotAcked
<1>4. StemsFit
  BY <1>1 DEF StemsFit, SnapshotIsRecurring, CurrentIsRecurring, NextFollowsARun, SeriesNeverLost,
       OneStemPerSeries, CancelledHasNoStem
<1> QED
  BY <1>2, <1>3, <1>4 DEF SchedulingInvariant, StemsFit

\* The columns of a task row, the snapshot of step 5 and the stems of every
\* series fit together in every reachable state.
THEOREM SchedulingCorrect == Spec => []SchedulingInvariant
<1>1. SchedulingInvariant /\ [Next]_vars => SchedulingInvariant'
  BY TypeInductive, ColumnsInductive, StemsInductive DEF SchedulingInvariant, StemsFit
<1> QED
  BY InvariantInit, <1>1, PTL DEF Spec

\* A series the agent was told will recur has a row to go on from as long as no
\* row of it that carried the recurrence was given up.
THEOREM SeriesSurvive == Spec => []SeriesNeverLost
<1>1. SchedulingInvariant => SeriesNeverLost
  BY DEF SchedulingInvariant
<1> QED
  BY SchedulingCorrect, <1>1, PTL

\* A series has one such row, unless a crash or an error fell between the
\* insertion of an occurrence and the clearing of the one before it.
THEOREM SeriesStaySingle == Spec => []OneStemPerSeries
<1>1. SchedulingInvariant => OneStemPerSeries
  BY DEF SchedulingInvariant
<1> QED
  BY SchedulingCorrect, <1>1, PTL

\* Only an occurrence the agent acknowledged is followed by another.
THEOREM OnlyRunsAreFollowed == Spec => []NextFollowsARun
<1>1. SchedulingInvariant => NextFollowsARun
  BY DEF SchedulingInvariant
<1> QED
  BY SchedulingCorrect, <1>1, PTL

\* After a cancel that found a live row no occurrence of the series starts.
THEOREM CancelHolds == Spec => CancelThatHitHolds
<1> DEFINE Quiet == \A m \in Started : wish[series[m]] = "cancelled" => series[m] \in interrupted
<1>1. SchedulingInvariant /\ [Next]_vars => Quiet
  <2> SUFFICES ASSUME SchedulingInvariant, [Next]_vars, NEW m \in Started,
                      wish[series[m]] = "cancelled"
               PROVE  series[m] \in interrupted
    OBVIOUS
  <2>1. m \in Occ /\ ack[m] = "none" /\ ack'[m] # "none"
    BY DEF Started
  <2>2. status[m] = "pending"
    <3>1. CASE \E S \in SUBSET Occ : Claim(S) \/ Acknowledge(S)
      BY <2>1, <3>1 DEF Claim, Acknowledge, Claimable
    <3>2. CASE StartContainer
      BY <2>1, <3>2 DEF StartContainer
    <3>3. CASE UNCHANGED ack
      BY <2>1, <3>3
    <3>4. AgentNext \/ SweepNext \/ ContainerStops \/ UNCHANGED vars => UNCHANGED ack
      BY DEF AgentNext, ScheduleTask, UpdateTask, CancelTask, PauseTask, ResumeTask,
           SweepNext, SweepBegin, SweepResumes, ReadRecurring, SweepResets, InsertNext,
           ClearRecurrence, ClearFails, InsertFails, HostCrash, HostStart, ContainerStops, vars
    <3> QED
      BY <3>1, <3>2, <3>3, <3>4 DEF Next, ContainerNext
  <2>3. m \in Stems
    BY <2>1, <2>2 DEF Stems, Live
  <2> QED
    BY <2>3 DEF SchedulingInvariant, CancelledHasNoStem
<1>2. Spec => [][Quiet]_vars
  BY SchedulingCorrect, <1>1, PTL DEF Spec
<1> QED
  BY <1>2 DEF CancelThatHitHolds
=============================================================================
