------------------------------- MODULE Delivery -------------------------------
(***************************************************************************)
(* Outbound delivery (src/delivery.ts): two timer chains of the host, the  *)
(* active poll and the sweep poll, drain the messages_out rows of every    *)
(* session through the channel adapters and record each outcome in the     *)
(* delivered table of the session's inbound.db.                            *)
(*                                                                         *)
(* A step is a stretch of code without an await.  The only await a step    *)
(* can be suspended at for long is the call that sends the message, so a   *)
(* call has its own life: open, then landed (the user sees the message, or *)
(* the action is applied) or swallowed (the adapter has done nothing and   *)
(* will not say so), and then returned or thrown, or never ended at all.   *)
(* deliver_after is NULL in every row the code writes and is left out; so  *)
(* are attachments, whose clean-up cannot fail a delivery, and typing.     *)
(***************************************************************************)
EXTENDS Integers, FiniteSets

CONSTANTS
  Sessions,     \* the active sessions
  NoSession,    \* not a session
  MaxMessages,  \* bound on the rows ever written to messages_out
  Dests,        \* the kinds of destination the agents address
  MaxAttempts,  \* MAX_DELIVERY_ATTEMPTS
  MaxFaults     \* bound on host crashes and database errors together

ASSUME DeliveryAssumption ==
  /\ NoSession \notin Sessions
  /\ MaxMessages \in Nat /\ MaxFaults \in Nat
  /\ MaxAttempts \in Nat \ {0}
  /\ Dests \subseteq {"reachable", "denied", "nowhere"}

Messages == 1..MaxMessages   \* a row is named by the order of its timestamp
Polls == {"active", "sweep"}

VARIABLES
  home,      \* the session whose outbound.db holds the row
  dest,      \* "reachable" through an adapter, the handler of a system action
             \* or the route to an agent; "denied" by the permission check;
             \* "nowhere" without routing fields or an adapter for the channel
  delivered, \* delivered.status, "none" when there is no row
  attempts,  \* deliveryAttempts
  inflight,  \* inflightDeliveries
  todo,      \* the sessions a poll has read and not yet visited
  at,        \* the session a poll is draining
  queue,     \* what is left of its snapshot of undelivered rows
  call,      \* the send of the head of the queue
  host,      \* is the host process up
  shown,     \* history: how often the message took effect
  doubt,     \* history: how often the host did not learn that it had
  swallowed, \* history: the rows settled by an adapter that passed over them
  threw,     \* history: how often an attempt ended in an error
  faults     \* history: crashes and database errors so far

rows    == <<home, dest>>
memory  == <<attempts, inflight, todo, at, queue, call>>
history == <<shown, doubt, swallowed, threw, faults>>
vars == <<rows, delivered, memory, host, history>>

TypeOK ==
  /\ home \in [Messages -> Sessions \union {NoSession}]
  /\ dest \in [Messages -> Dests \union {"none"}]
  /\ delivered \in [Messages -> {"none", "delivered", "failed"}]
  /\ attempts \in [Messages -> 0..(MaxAttempts - 1 + faults)]
  /\ inflight \in SUBSET Sessions
  /\ todo \in [Polls -> SUBSET Sessions]
  /\ at \in [Polls -> Sessions \union {NoSession}]
  /\ queue \in [Polls -> SUBSET Messages]
  /\ call \in [Polls -> {"none", "open", "landed", "swallowed"}]
  /\ host \in {"up", "down"}
  /\ shown \in [Messages -> Nat]
  /\ doubt \in [Messages -> Nat]
  /\ swallowed \in SUBSET Messages
  /\ threw \in [Messages -> Nat]
  /\ faults \in 0..MaxFaults

-----------------------------------------------------------------------------

\* The due rows of session s that the delivered table does not know.
Undelivered(s) == {m \in Messages : home[m] = s /\ delivered[m] = "none"}

\* Mutant of IsHead: the newest row goes out first.
IsLast(p, m) == m \in queue[p] /\ \A k \in queue[p] : k <= m

\* ORDER BY timestamp ASC
IsHead(p, m) == m \in queue[p] /\ \A k \in queue[p] : m <= k

\* markDelivered and markDeliveryFailed: INSERT OR IGNORE.
Mark(m, st) ==
  delivered' = IF delivered[m] = "none" THEN [delivered EXCEPT ![m] = st] ELSE delivered

Bump(f, m) == [f EXCEPT ![m] = @ + 1]

\* The message at the head is done with for this drain.
Advance(p, m) ==
  /\ queue' = [queue EXCEPT ![p] = @ \ {m}]
  /\ call' = [call EXCEPT ![p] = "none"]

\* Mutant of Release: the lock outlives the drain.
KeepLock(p) == UNCHANGED inflight

\* The finally of deliverSessionMessages.
Release(p) == inflight' = inflight \ {at[p]}

-----------------------------------------------------------------------------
(* The two polls.                                                          *)

\* The agent's container writes a row; it needs no host for that.
WriteMessage(m, s, d) ==
  /\ home[m] = NoSession
  /\ \A k \in Messages : k < m => home[k] # NoSession
  /\ home' = [home EXCEPT ![m] = s]
  /\ dest' = [dest EXCEPT ![m] = d]
  /\ UNCHANGED <<delivered, memory, host, history>>

\* A timer fires: the active poll reads the sessions with a container, the
\* sweep poll reads all of them.
PollBegins(p) ==
  /\ host = "up" /\ at[p] = NoSession /\ todo[p] = {}
  /\ \E S \in SUBSET Sessions :
       /\ p = "sweep" => S = Sessions
       /\ todo' = [todo EXCEPT ![p] = S]
  /\ UNCHANGED <<rows, delivered, attempts, inflight, at, queue, call, host, history>>

\* deliverSessionMessages turns a second caller away.
SkipSession(p, s) ==
  /\ host = "up" /\ at[p] = NoSession /\ s \in todo[p]
  /\ s \in inflight
  /\ todo' = [todo EXCEPT ![p] = @ \ {s}]
  /\ UNCHANGED <<rows, delivered, attempts, inflight, at, queue, call, host, history>>

\* Mutant of EnterSession: inflightDeliveries is not consulted.
BargeIn(p, s) ==
  /\ host = "up" /\ at[p] = NoSession /\ s \in todo[p]
  /\ inflight' = inflight \union {s}
  /\ at' = [at EXCEPT ![p] = s]
  /\ todo' = [todo EXCEPT ![p] = @ \ {s}]
  /\ queue' = [queue EXCEPT ![p] = Undelivered(s)]
  /\ UNCHANGED <<rows, delivered, attempts, call, host, history>>

\* deliverSessionMessages and the first part of drainSession.
EnterSession(p, s) ==
  /\ host = "up" /\ at[p] = NoSession /\ s \in todo[p]
  /\ s \notin inflight
  /\ inflight' = inflight \union {s}
  /\ at' = [at EXCEPT ![p] = s]
  /\ todo' = [todo EXCEPT ![p] = @ \ {s}]
  /\ queue' = [queue EXCEPT ![p] = Undelivered(s)]
  /\ UNCHANGED <<rows, delivered, attempts, call, host, history>>

\* deliverMessage reaches the adapter or the handler of the action.
StartCall(p, m) ==
  /\ IsHead(p, m) /\ call[p] = "none"
  /\ dest[m] = "reachable"
  /\ call' = [call EXCEPT ![p] = "open"]
  /\ UNCHANGED <<rows, delivered, attempts, inflight, todo, at, queue, host, history>>

\* The message is on the user's screen, or the action applied.
Lands(p, m) ==
  /\ IsHead(p, m) /\ call[p] = "open"
  /\ call' = [call EXCEPT ![p] = "landed"]
  /\ shown' = Bump(shown, m)
  /\ UNCHANGED <<rows, delivered, attempts, inflight, todo, at, queue, host, doubt, swallowed, threw, faults>>

\* The adapter does nothing and returns as it would have otherwise: no terminal
\* is connected or its write error is caught, a card has no title, a content no
\* text, a system action no handler.
Swallows(p, m) ==
  /\ IsHead(p, m) /\ call[p] = "open"
  /\ call' = [call EXCEPT ![p] = "swallowed"]
  /\ UNCHANGED <<rows, delivered, attempts, inflight, todo, at, queue, host, history>>

\* Mutant of Delivers: the call is not awaited.
DeliversUnawaited(p, m) ==
  /\ IsHead(p, m)
  /\ call[p] # "none" \/ dest[m] = "nowhere"
  /\ Mark(m, "delivered")
  /\ attempts' = [attempts EXCEPT ![m] = 0]
  /\ Advance(p, m)
  /\ UNCHANGED <<rows, inflight, todo, at, host, history>>

\* deliverMessage returns: after the effect, or without one when the adapter
\* swallowed the row, the row lacks routing fields or its channel an adapter.
Delivers(p, m) ==
  /\ IsHead(p, m)
  /\ call[p] \in {"landed", "swallowed"} \/ (call[p] = "none" /\ dest[m] = "nowhere")
  /\ Mark(m, "delivered")
  /\ swallowed' = IF call[p] = "swallowed" THEN swallowed \union {m} ELSE swallowed
  /\ attempts' = [attempts EXCEPT ![m] = 0]
  /\ Advance(p, m)
  /\ UNCHANGED <<rows, inflight, todo, at, host, shown, doubt, threw, faults>>

GivesUp(m) == attempts[m] + 1 >= MaxAttempts

\* deliverMessage throws: the permission check refuses, the adapter rejects
\* before or after the effect, or markDelivered fails after it.
Throws(p, m) ==
  /\ IsHead(p, m)
  /\ call[p] # "none" \/ dest[m] = "denied"
  /\ threw' = Bump(threw, m)
  /\ doubt' = IF call[p] = "landed" THEN Bump(doubt, m) ELSE doubt
  /\ IF GivesUp(m)
     THEN Mark(m, "failed") /\ attempts' = [attempts EXCEPT ![m] = 0]
     ELSE UNCHANGED delivered /\ attempts' = Bump(attempts, m)
  /\ Advance(p, m)
  /\ UNCHANGED <<rows, inflight, todo, at, host, shown, swallowed, faults>>

\* The snapshot is used up.
LeaveSession(p) ==
  /\ at[p] # NoSession /\ queue[p] = {}
  /\ Release(p)
  /\ at' = [at EXCEPT ![p] = NoSession]
  /\ UNCHANGED <<rows, delivered, attempts, todo, queue, call, host, history>>

\* A database error outside the per-message try: a read at the start of the
\* drain, or markDeliveryFailed after the last attempt, whose count stays.  The
\* poll gives up the sessions it has not visited yet.
DrainFails(p) ==
  /\ at[p] # NoSession /\ faults < MaxFaults
  /\ faults' = faults + 1
  /\ \/ call[p] = "none" /\ UNCHANGED <<attempts, doubt, threw>>
     \/ \E m \in Messages :
          /\ IsHead(p, m) /\ GivesUp(m)
          /\ call[p] # "none" \/ dest[m] = "denied"
          /\ attempts' = Bump(attempts, m)
          /\ threw' = Bump(threw, m)
          /\ doubt' = IF call[p] = "landed" THEN Bump(doubt, m) ELSE doubt
  /\ Release(p)
  /\ at' = [at EXCEPT ![p] = NoSession]
  /\ todo' = [todo EXCEPT ![p] = {}]
  /\ queue' = [queue EXCEPT ![p] = {}]
  /\ call' = [call EXCEPT ![p] = "none"]
  /\ UNCHANGED <<rows, delivered, host, shown, swallowed>>

\* The rows whose effect a dying host will not remember.
Unrecorded == {m \in Messages : \E p \in Polls : IsHead(p, m) /\ call[p] = "landed"}

\* The host dies: its memory is gone, what landed has landed.
HostCrash ==
  /\ host = "up" /\ faults < MaxFaults
  /\ faults' = faults + 1
  /\ host' = "down"
  /\ doubt' = [m \in Messages |-> IF m \in Unrecorded THEN doubt[m] + 1 ELSE doubt[m]]
  /\ attempts' = [m \in Messages |-> 0]
  /\ inflight' = {}
  /\ todo' = [p \in Polls |-> {}]
  /\ at' = [p \in Polls |-> NoSession]
  /\ queue' = [p \in Polls |-> {}]
  /\ call' = [p \in Polls |-> "none"]
  /\ UNCHANGED <<rows, delivered, shown, swallowed, threw>>

HostStart ==
  /\ host = "down"
  /\ host' = "up"
  /\ UNCHANGED <<rows, delivered, memory, history>>

-----------------------------------------------------------------------------

Init ==
  /\ home = [m \in Messages |-> NoSession]
  /\ dest = [m \in Messages |-> "none"]
  /\ delivered = [m \in Messages |-> "none"]
  /\ attempts = [m \in Messages |-> 0]
  /\ inflight = {}
  /\ todo = [p \in Polls |-> {}]
  /\ at = [p \in Polls |-> NoSession]
  /\ queue = [p \in Polls |-> {}]
  /\ call = [p \in Polls |-> "none"]
  /\ host = "up"
  /\ shown = [m \in Messages |-> 0]
  /\ doubt = [m \in Messages |-> 0]
  /\ swallowed = {}
  /\ threw = [m \in Messages |-> 0]
  /\ faults = 0

PollNext(p) ==
  \/ PollBegins(p)
  \/ \E s \in Sessions : SkipSession(p, s) \/ EnterSession(p, s)
  \/ \E m \in Messages :
       StartCall(p, m) \/ Lands(p, m) \/ Swallows(p, m) \/ Delivers(p, m) \/ Throws(p, m)
  \/ LeaveSession(p)
  \/ DrainFails(p)

Next ==
  \/ \E m \in Messages, s \in Sessions, d \in Dests : WriteMessage(m, s, d)
  \/ \E p \in Polls : PollNext(p)
  \/ HostCrash \/ HostStart

Spec == Init /\ [][Next]_vars

(* Fairness: the host is restarted, its timers keep firing, a poll goes on *)
(* as long as it is not waiting, and a call that was started ends.  The    *)
(* last is what the code takes for granted: it sets no timeout.            *)
PollMoves(p) ==
  \/ \E s \in Sessions : SkipSession(p, s) \/ EnterSession(p, s)
  \/ \E m \in Messages :
       StartCall(p, m) \/ Lands(p, m) \/ Swallows(p, m) \/ Delivers(p, m) \/ Throws(p, m)
  \/ LeaveSession(p)

Fairness ==
  /\ WF_vars(HostStart)
  /\ \A p \in Polls : WF_vars(PollBegins(p) \/ PollMoves(p))

FairSpec == Spec /\ Fairness

-----------------------------------------------------------------------------
(* Properties.                                                             *)

\* The user sees a message again only when the host could not know that an
\* earlier attempt had landed.  (inflightDeliveries, the delivered table and
\* the two polls that share both)
NoNeedlessDuplicate == \A m \in Messages : shown[m] <= doubt[m] + 1

\* The host does not record what has not happened: a row marked delivered took
\* effect once more than in the attempts that were given up, unless it had
\* nowhere to go or the adapter passed over it without an error.  The second
\* exception is the code's: a normal return is all that delivery.ts:193 asks for.
DeliveredTookEffect ==
  \A m \in Messages : delivered[m] = "delivered" =>
    \/ shown[m] = doubt[m] + 1
    \/ shown[m] = doubt[m] /\ (dest[m] = "nowhere" \/ m \in swallowed)

\* Once settled a row is left alone: no status change, no further effect.
\* (INSERT OR IGNORE, and the filter on the delivered table)
SettledIsFinal ==
  [][\A m \in Messages : delivered[m] # "none" =>
       delivered'[m] = delivered[m] /\ shown'[m] = shown[m] /\ threw'[m] = threw[m]]_vars

\* Within a session a row takes effect ahead of an older one only if that one
\* has failed an attempt, is refused, was swallowed, or has nowhere to go.
HadItsTurn(m) == shown[m] > 0 \/ threw[m] > 0 \/ m \in swallowed \/ dest[m] = "nowhere"
SentInOrder ==
  \A m, n \in Messages : m < n /\ home[m] = home[n] /\ shown[n] > 0 => HadItsTurn(m)

\* A row is given up only after MAX_DELIVERY_ATTEMPTS errors, a database error
\* or a crash in between notwithstanding.
FailedAfterMaxAttempts ==
  \A m \in Messages : delivered[m] = "failed" => threw[m] >= MaxAttempts

AttemptsThrew == \A m \in Messages : attempts[m] <= threw[m]

\* What NoNeedlessDuplicate rests on: a poll drains only what it has locked,
\* the two polls never drain one session together, and a snapshot holds
\* unsettled rows of the session it was taken of.
DrainsAreLocked ==
  /\ inflight = {at[p] : p \in Polls} \ {NoSession}
  /\ \A p, q \in Polls : p # q /\ at[p] = at[q] => at[p] = NoSession
SnapshotIsUnsettled ==
  \A p \in Polls : \A m \in queue[p] : home[m] = at[p] /\ delivered[m] = "none"
CallHasMessage ==
  /\ \A p \in Polls : at[p] = NoSession => queue[p] = {}
  /\ \A p \in Polls : queue[p] = {} => call[p] = "none"
OnlyWrittenRowsMove ==
  \A m \in Messages : home[m] = NoSession =>
    /\ dest[m] = "none" /\ delivered[m] = "none" /\ shown[m] = 0
    /\ \A n \in Messages : m < n => home[n] = NoSession

\* How often an unsettled row has been shown is exactly known.
UnsettledIsAccounted ==
  \A m \in Messages :
    delivered[m] = "none" =>
      shown[m] = doubt[m] + (IF m \in Unrecorded THEN 1 ELSE 0)

\* What SentInOrder rests on: a row older than one a poll still holds, and not
\* held itself, has had its turn.
SnapshotIsClosed ==
  \A p \in Polls : \A n \in queue[p], m \in Messages :
    m < n /\ home[m] = home[n] /\ m \notin queue[p] => HadItsTurn(m)

\* The inductive invariant of the module.
DeliveryInvariant ==
  /\ TypeOK
  /\ DrainsAreLocked /\ SnapshotIsUnsettled /\ CallHasMessage /\ OnlyWrittenRowsMove
  /\ UnsettledIsAccounted
  /\ NoNeedlessDuplicate /\ DeliveredTookEffect
  /\ SnapshotIsClosed /\ SentInOrder
  /\ AttemptsThrew /\ FailedAfterMaxAttempts

\* Every row is settled in the end: as rows stay written and stay settled, it is
\* enough that moments without an unsettled one never cease.  (the timer chains,
\* the lock's release, the attempt limit)
EveryRowSettles ==
  []<>(\A m \in Messages : home[m] # NoSession => delivered[m] # "none")
=============================================================================
