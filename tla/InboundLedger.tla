---------------------------- MODULE InboundLedger ----------------------------
(***************************************************************************)
(* What the host promises of the messages it accepted for a session: each  *)
(* one is handled once or dropped once, is dropped only after MaxTries     *)
(* retries, and is never touched again afterwards.  How claims, crashes    *)
(* and sweeps bring this about is the business of SessionQueue.            *)
(***************************************************************************)
EXTENDS Naturals

CONSTANTS
  Messages,   \* the messages that may ever be accepted
  MaxTries    \* retries before a message is dropped

VARIABLES
  outcome,    \* [Messages -> {"absent", "open", "handled", "dropped"}]
  tries       \* [Messages -> 0..MaxTries]

ledger == <<outcome, tries>>

Open == {m \in Messages : outcome[m] = "open"}

Settle(S, o) == outcome' = [m \in Messages |-> IF m \in S THEN o ELSE outcome[m]]

Accept(m) ==
  /\ outcome[m] = "absent"
  /\ Settle({m}, "open")
  /\ UNCHANGED tries

Handle(S) ==
  /\ Settle(S, "handled")
  /\ UNCHANGED tries

\* One sweep retries some open messages and drops others.
Reclaim(retried, dropped) ==
  /\ \A m \in retried : tries[m] < MaxTries
  /\ \A m \in dropped : tries[m] = MaxTries
  /\ Settle(dropped, "dropped")
  /\ tries' = [m \in Messages |-> IF m \in retried THEN tries[m] + 1 ELSE tries[m]]

Init ==
  /\ outcome = [m \in Messages |-> "absent"]
  /\ tries = [m \in Messages |-> 0]

Next ==
  \/ \E m \in Messages : Accept(m)
  \/ \E S \in SUBSET Open : Handle(S)
  \/ \E R, D \in SUBSET Open : Reclaim(R, D)

Spec == Init /\ [][Next]_ledger
=============================================================================
