--------------------------- MODULE Approvals_proofs ---------------------------
(***************************************************************************)
(* What Approvals guarantees for any number of requests, presses and host  *)
(* crashes.                                                                *)
(***************************************************************************)
EXTENDS Approvals, TLAPS

-----------------------------------------------------------------------------
(* The inductive invariant *)

\* A press of Approve is honoured once at most.
PressCounted(r) ==
  /\ applied[r] + (IF "approve" \in presses[r] THEN 1 ELSE 0) <= approved[r]
  /\ approved[r] <= pressed[r]
  /\ verdict[r] = "approve" => approved[r] > 0

\* The requesting agent has heard the outcome of its action, or the answer.
Heard(r) ==
  /\ kind[r] = "action" => notes[r] \intersect {"rejected", "applied", "failed"} # {}
  /\ kind[r] = "question" => response[r] # "none"

\* A row is closed only behind that.
ClosedBehind(r) ==
  /\ handling[r] # "no" => kind[r] \in {"action", "question"}
  /\ handling[r] = "applying" => kind[r] = "action"
  /\ handling[r] = "closing" => Heard(r)
  /\ flow[r] \in {"carding", "asked"} /\ row[r] = "none" => Heard(r)

\* The connection of a credential request is open while it is being asked and
\* while it has a resolver; what is expiring has been denied or lost.
Held(r) ==
  /\ verdict[r] # "none" => kind[r] = "credential"
  /\ kind[r] = "none" => flow[r] = "idle" /\ row[r] = "none"
  /\ flow[r] = "idle" => kind[r] = "none"
  /\ flow[r] = "out" => kind[r] = "question"
  /\ flow[r] = "picking" => kind[r] \in {"action", "credential"}
  /\ kind[r] = "credential" /\ flow[r] \in {"picking", "carding"} => verdict[r] = "open" /\ row[r] = "none"
  /\ kind[r] = "credential" /\ verdict[r] = "open" => host = "up" /\ (flow[r] = "asked" => r \in resolver)
  /\ kind[r] = "credential" /\ flow[r] = "failed" => verdict[r] \in {"deny", "lost"}
  /\ kind[r] = "credential" => verdict[r] # "none"
  /\ kind[r] = "credential" /\ row[r] # "none" => verdict[r] \in {"open", "deny", "lost"}
  /\ r \in resolver => kind[r] = "credential" /\ flow[r] = "asked" /\ verdict[r] = "open" /\ row[r] = "pending"
  /\ r \in editing \union stale => kind[r] = "credential" /\ verdict[r] \in {"deny", "lost"}
  /\ card[r] = "expired" => kind[r] = "credential" /\ verdict[r] \in {"deny", "lost"}

ApprovalsInvariant ==
  TypeOK /\ \A r \in Requests : PressCounted(r) /\ ClosedBehind(r) /\ Held(r)
-----------------------------------------------------------------------------
(* Types *)

\* The steps of asking keep every variable in its type.
LEMMA TypeOfAsking ==
  ASSUME ApprovalsInvariant, NEW q \in Requests, Asking(q)
  PROVE  TypeOK'
<1>t. TypeOK
  BY DEF ApprovalsInvariant
<1>1. CASE AskQuestion(q)
  BY <1>t, ApprovalsAssumption, <1>1 DEF TypeOK, hostVars, effects, history, agentVars, AskQuestion
<1>2. CASE DeliverQuestion(q)
  BY <1>t, ApprovalsAssumption, <1>2 DEF TypeOK, hostVars, effects, history, agentVars, DeliverQuestion
<1>3. ASSUME NEW admitted \in BOOLEAN, RequestAction(q, admitted) PROVE TypeOK'
  BY <1>t, ApprovalsAssumption, <1>3 DEF TypeOK, hostVars, effects, history, agentVars, RequestAction
<1>4. ASSUME NEW admitted \in BOOLEAN, RequestCredential(q, admitted) PROVE TypeOK'
  BY <1>t, ApprovalsAssumption, <1>4 DEF TypeOK, hostVars, effects, history, agentVars, RequestCredential
<1>5. CASE NobodyReached(q)
  BY <1>t, ApprovalsAssumption, <1>5 DEF TypeOK, hostVars, effects, history, agentVars, NobodyReached
<1>6. CASE ApproverPicked(q)
  BY <1>t, ApprovalsAssumption, <1>6 DEF TypeOK, hostVars, effects, history, agentVars, ApproverPicked
<1>7. CASE CardLands(q)
  BY <1>t, ApprovalsAssumption, <1>7 DEF TypeOK, hostVars, effects, history, agentVars, CardLands
<1>8. CASE CardSent(q)
  BY <1>t, ApprovalsAssumption, <1>8 DEF TypeOK, hostVars, effects, history, agentVars, CardSent
<1>9. ASSUME NEW again \in BOOLEAN, CardFails(q, again) PROVE TypeOK'
  BY <1>t, ApprovalsAssumption, <1>9 DEF TypeOK, hostVars, effects, history, agentVars, CardFails
<1> QED
  BY <1>1, <1>2, <1>3, <1>4, <1>5, <1>6, <1>7, <1>8, <1>9 DEF Asking

\* So do the steps of answering: a press is counted within its bound.
LEMMA TypeOfAnswering ==
  ASSUME ApprovalsInvariant, NEW q \in Requests, Answering(q)
  PROVE  TypeOK'
<1>t. TypeOK
  BY DEF ApprovalsInvariant
<1>1. ASSUME NEW choice \in {"approve", "reject"}, Press(q, choice) PROVE TypeOK'
  <2>0. approved[q] <= pressed[q] /\ pressed[q] < MaxPresses
    BY <1>1 DEF Press, PressCounted, ApprovalsInvariant
  <2>1. /\ pressed[q] \in Nat /\ approved[q] \in Nat
        /\ pressed[q] + 1 \in 0..MaxPresses /\ approved[q] + 1 \in 0..MaxPresses
    <3>1. pressed[q] \in 0..MaxPresses /\ approved[q] \in 0..MaxPresses
      BY <1>t DEF TypeOK
    <3> QED
      BY <2>0, <3>1, ApprovalsAssumption
  <2>2. SelectedOption(q, choice) \in {"approve", "reject", "index"}
    BY DEF SelectedOption
  <2>3. /\ presses' \in [Requests -> SUBSET {"approve", "reject", "index"}]
        /\ pressed' \in [Requests -> 0..MaxPresses] /\ approved' \in [Requests -> 0..MaxPresses]
    BY <1>t, ApprovalsAssumption, <1>1, <2>1, <2>2 DEF TypeOK, hostVars, effects, history, agentVars, Press
  <2> QED
    BY <1>t, ApprovalsAssumption, <1>1, <2>3 DEF TypeOK, hostVars, effects, history, agentVars, Press
<1>2. ASSUME NEW v \in {"approve", "reject", "index"}, Dispatched(q, v)
      PROVE  /\ presses' \in [Requests -> SUBSET {"approve", "reject", "index"}]
             /\ card' \in [Requests -> {"none", "buttons", "answered", "expired"}]
             /\ UNCHANGED <<kind, flow, editing, stale, host, agentVars, history>>
  <2>1. presses' = [presses EXCEPT ![q] = @ \ {v}]
    BY <1>2 DEF Dispatched
  <2>2. PICK edited \in BOOLEAN :
          card' = [card EXCEPT ![q] = IF edited /\ @ = "buttons" THEN "answered" ELSE @]
    BY <1>2 DEF Dispatched
  <2>3. card' = card \/ card' = [card EXCEPT ![q] = "answered"]
    <3>1. CASE edited /\ card[q] = "buttons"
      BY <2>2, <3>1
    <3>2. CASE ~(edited /\ card[q] = "buttons")
      BY <1>t, <2>2, <3>2 DEF TypeOK
    <3> QED
      BY <3>1, <3>2
  <2>4. presses' \in [Requests -> SUBSET {"approve", "reject", "index"}]
    BY <1>t, <2>1 DEF TypeOK
  <2>5. card' \in [Requests -> {"none", "buttons", "answered", "expired"}]
    BY <1>t, <2>3 DEF TypeOK
  <2> QED
    BY <1>2, <2>4, <2>5 DEF Dispatched
<1>3. ASSUME NEW v \in {"approve", "reject", "index"},
             ResolveCredential(q, v) \/ DropStale(q, v) \/ Unclaimed(q, v)
      PROVE  TypeOK'
  <2>1. Dispatched(q, v)
    BY <1>3 DEF ResolveCredential, DropStale, Unclaimed
  <2>2. /\ UNCHANGED <<handling, notes, response, applied>> /\ resolver' \subseteq resolver
        /\ row' = row \/ row' = [row EXCEPT ![q] = "none"]
        /\ verdict' = verdict \/ \E d \in {"approve", "deny"} : verdict' = [verdict EXCEPT ![q] = d]
    BY <1>3 DEF ResolveCredential, DropStale, Unclaimed, Decision, effects
  <2>3. row' \in [Requests -> {"none", "pending", "expired"}]
    BY <1>t, <2>2 DEF TypeOK
  <2>4. verdict' \in [Requests -> {"none", "open", "approve", "deny", "lost"}]
    BY <1>t, <2>2 DEF TypeOK
  <2>5. /\ presses' \in [Requests -> SUBSET {"approve", "reject", "index"}]
        /\ card' \in [Requests -> {"none", "buttons", "answered", "expired"}]
        /\ UNCHANGED <<kind, flow, editing, stale, host, agentVars, history>>
    BY <1>2, <2>1
  <2>6. resolver' \in SUBSET Requests
    BY <1>t, <2>2 DEF TypeOK
  <2> QED
    BY <1>t, <2>2, <2>3, <2>4, <2>5, <2>6 DEF TypeOK, agentVars, history
<1>4. ASSUME NEW v \in {"approve", "reject", "index"},
             RejectAction(q, v) \/ ApplyAction(q, v) \/ AnswerQuestion(q, v)
      PROVE  TypeOK'
  <2>1. Dispatched(q, v)
    BY <1>4 DEF RejectAction, ApplyAction, AnswerQuestion
  <2>2. /\ UNCHANGED <<row, resolver, verdict>>
        /\ \E h \in {"closing", "applying"} : handling' = [handling EXCEPT ![q] = h]
        /\ notes' = notes \/ notes' = [notes EXCEPT ![q] = @ \union {"rejected"}]
        /\ applied' = applied \/ applied' = [applied EXCEPT ![q] = @ + 1]
        /\ response' = response \/ \E d \in {response[q], "due"} : response' = [response EXCEPT ![q] = d]
    BY <1>4 DEF RejectAction, ApplyAction, AnswerQuestion
  <2>3. /\ handling \in [Requests -> {"no", "applying", "closing"}] /\ applied \in [Requests -> Nat]
        /\ notes \in [Requests -> SUBSET {"failed", "undeliverable", "rejected", "applied"}]
        /\ response \in [Requests -> {"none", "due", "read"}]
    BY <1>t DEF TypeOK
  <2>4. handling' \in [Requests -> {"no", "applying", "closing"}]
    BY <2>2, <2>3
  <2>5. notes' \in [Requests -> SUBSET {"failed", "undeliverable", "rejected", "applied"}]
    BY <2>2, <2>3
  <2>6. applied' \in [Requests -> Nat]
    BY <2>2, <2>3
  <2>7. response' \in [Requests -> {"none", "due", "read"}]
    BY <2>2, <2>3
  <2>8. /\ presses' \in [Requests -> SUBSET {"approve", "reject", "index"}]
        /\ card' \in [Requests -> {"none", "buttons", "answered", "expired"}]
        /\ UNCHANGED <<kind, flow, editing, stale, host, agentVars, history>>
    BY <1>2, <2>1
  <2> QED
    BY <1>t, <2>2, <2>4, <2>5, <2>6, <2>7, <2>8 DEF TypeOK, agentVars, history
<1>5. ASSUME NEW outcome \in {"applied", "failed"}, FinishAction(q, outcome) PROVE TypeOK'
  <2>1. waiting' = waiting \/ waiting' = [r \in Requests |-> IF waiting[r] = "polling" THEN "gave up" ELSE waiting[r]]
    BY <1>5 DEF FinishAction, Killed, agentVars
  <2>2. waiting' \in [Requests -> {"no", "polling", "answered", "gave up"}]
    <3>1. waiting \in [Requests -> {"no", "polling", "answered", "gave up"}]
      BY <1>t DEF TypeOK
    <3> QED
      BY <2>1, <3>1
  <2>3. container' = container \/ container' = "stopped"
    BY <1>5 DEF FinishAction, Killed, agentVars
  <2>4. /\ handling' = [handling EXCEPT ![q] = "closing"]
        /\ notes' = [notes EXCEPT ![q] = @ \union {outcome}]
        /\ UNCHANGED <<kind, flow, row, resolver, editing, stale, host, card, presses, verdict, response, applied, history>>
    BY <1>5 DEF FinishAction
  <2> QED
    BY <1>t, <2>2, <2>3, <2>4 DEF TypeOK, history
<1>6. CASE CloseRow(q)
  BY <1>t, ApprovalsAssumption, <1>6 DEF TypeOK, hostVars, effects, history, agentVars, CloseRow
<1>7. CASE ReadAnswer(q)
  BY <1>t, <1>7 DEF TypeOK, hostVars, history, ReadAnswer
<1>8. CASE GiveUp(q)
  BY <1>t, <1>8 DEF TypeOK, hostVars, effects, history, GiveUp
<1> QED
  BY <1>1, <1>3, <1>4, <1>5, <1>6, <1>7, <1>8 DEF Answering

\* Every step keeps every variable in its type.
LEMMA TypeInductive == ApprovalsInvariant /\ [Next]_vars => TypeOK'
<1> SUFFICES ASSUME ApprovalsInvariant, [Next]_vars PROVE TypeOK'
  OBVIOUS
<1>t. TypeOK
  BY DEF ApprovalsInvariant
<1>1. ASSUME NEW q \in Requests, TimerFires(q) PROVE TypeOK'
  <2>1. verdict' = [verdict EXCEPT ![q] = "deny"] /\ row' = [row EXCEPT ![q] = "expired"]
    BY <1>1 DEF TimerFires
  <2>2. resolver' = resolver \ {q} /\ editing' = editing \union {q}
    BY <1>1 DEF TimerFires
  <2>3. UNCHANGED <<kind, flow, stale, handling, host, card, presses, notes, response, applied, agentVars, history>>
    BY <1>1 DEF TimerFires
  <2>4. /\ verdict' \in [Requests -> {"none", "open", "approve", "deny", "lost"}]
        /\ row' \in [Requests -> {"none", "pending", "expired"}]
    BY <1>t, <2>1 DEF TypeOK
  <2>5. resolver' \in SUBSET Requests /\ editing' \in SUBSET Requests
    <3>1. resolver \in SUBSET Requests /\ editing \in SUBSET Requests
      BY <1>t DEF TypeOK
    <3> QED
      BY <2>2, <3>1
  <2> QED
    BY <1>t, <2>3, <2>4, <2>5 DEF TypeOK, agentVars, history
<1>2. ASSUME NEW q \in Requests, NEW edited \in BOOLEAN, ExpiryEnds(q, edited) PROVE TypeOK'
  BY <1>t, ApprovalsAssumption, <1>2 DEF TypeOK, hostVars, effects, history, agentVars, ExpiryEnds
<1>3. CASE ContainerStops
  <2>1. waiting' \in [Requests -> {"no", "polling", "answered", "gave up"}] /\ container' \in {"running", "stopped"}
    BY <1>t, ApprovalsAssumption, <1>3 DEF TypeOK, hostVars, effects, history, agentVars, ContainerStops, Killed
  <2> QED
    BY <1>t, ApprovalsAssumption, <1>3, <2>1 DEF TypeOK, hostVars, effects, history, agentVars, ContainerStops
<1>4. CASE SweepWakes
  BY <1>t, ApprovalsAssumption, <1>4 DEF TypeOK, hostVars, effects, history, agentVars, SweepWakes
<1>5. CASE HostCrash
  <2>1. flow' \in [Requests -> {"idle", "out", "picking", "carding", "asked", "failed"}]
    BY <1>t, ApprovalsAssumption, <1>5 DEF TypeOK, hostVars, effects, history, agentVars, HostCrash
  <2>2. verdict' \in [Requests -> {"none", "open", "approve", "deny", "lost"}]
    BY <1>t, ApprovalsAssumption, <1>5 DEF TypeOK, hostVars, effects, history, agentVars, HostCrash
  <2> QED
    <3>1. /\ resolver' = {} /\ editing' = {} /\ stale' = {} /\ host' = "down"
          /\ handling' = [r \in Requests |-> "no"] /\ presses' = [r \in Requests |-> {}]
      BY <1>5 DEF HostCrash
    <3>2. faults' = faults + 1 /\ faults < MaxFaults
      BY <1>5 DEF HostCrash
    <3>3. UNCHANGED <<kind, row, card, notes, response, agentVars, applied, approved, pressed>>
      BY <1>5 DEF HostCrash
    <3>4. faults' \in 0..MaxFaults
      <4>1. faults \in 0..MaxFaults
        BY <1>t DEF TypeOK
      <4> QED
        BY <3>2, <4>1, ApprovalsAssumption
    <3> QED
      BY <1>t, <2>1, <2>2, <3>1, <3>3, <3>4 DEF TypeOK, agentVars
<1>6. CASE HostStart
  BY <1>t, ApprovalsAssumption, <1>6 DEF TypeOK, hostVars, effects, history, agentVars, HostStart, Of
<1>7. CASE UNCHANGED vars
  BY <1>t, ApprovalsAssumption, <1>7 DEF TypeOK, hostVars, effects, history, agentVars, vars
<1> QED
  BY <1>1, <1>2, <1>3, <1>4, <1>5, <1>6, <1>7, TypeOfAsking, TypeOfAnswering DEF Next, Expiring

-----------------------------------------------------------------------------
(* One request *)

\* What is said of one request.
OfRequest(r) == PressCounted(r) /\ ClosedBehind(r) /\ Held(r)

\* The state of a request is as it was.
Same(r) ==
  /\ kind'[r] = kind[r] /\ flow'[r] = flow[r] /\ row'[r] = row[r] /\ handling'[r] = handling[r]
  /\ card'[r] = card[r] /\ presses'[r] = presses[r] /\ verdict'[r] = verdict[r] /\ notes'[r] = notes[r]
  /\ response'[r] = response[r] /\ applied'[r] = applied[r]
  /\ approved'[r] = approved[r] /\ pressed'[r] = pressed[r]
  /\ r \in resolver' <=> r \in resolver
  /\ r \in editing' \union stale' <=> r \in editing \union stale
  /\ host' = host

\* Then what is said of it stays true.
LEMMA SameKeeps == ASSUME NEW r \in Requests, OfRequest(r), Same(r) PROVE OfRequest(r)'
BY DEF OfRequest, Same, PressCounted, ClosedBehind, Heard, Held

\* The variables are functions on the requests.
LEMMA Domains ==
  TypeOK =>
    /\ DOMAIN kind = Requests /\ DOMAIN flow = Requests /\ DOMAIN row = Requests
    /\ DOMAIN handling = Requests /\ DOMAIN card = Requests /\ DOMAIN presses = Requests
    /\ DOMAIN verdict = Requests /\ DOMAIN notes = Requests /\ DOMAIN response = Requests
    /\ DOMAIN applied = Requests /\ DOMAIN approved = Requests /\ DOMAIN pressed = Requests
BY DEF TypeOK

\* A step of asking leaves the other requests alone.
LEMMA AskingOthers ==
  ASSUME TypeOK, NEW q \in Requests, Asking(q), NEW r \in Requests, r # q
  PROVE  Same(r)
<1>1. CASE AskQuestion(q)
  BY <1>1, Domains DEF AskQuestion, Same, hostVars, effects, history, agentVars
<1>2. CASE DeliverQuestion(q)
  BY <1>2, Domains DEF DeliverQuestion, Same, hostVars, effects, history, agentVars
<1>3. ASSUME NEW admitted \in BOOLEAN, RequestAction(q, admitted) PROVE Same(r)
  BY <1>3, Domains DEF RequestAction, Same, hostVars, effects, history, agentVars
<1>4. ASSUME NEW admitted \in BOOLEAN, RequestCredential(q, admitted) PROVE Same(r)
  BY <1>4, Domains DEF RequestCredential, Same, hostVars, effects, history, agentVars
<1>5. CASE NobodyReached(q)
  BY <1>5, Domains DEF NobodyReached, Same, hostVars, effects, history, agentVars
<1>6. CASE ApproverPicked(q)
  BY <1>6, Domains DEF ApproverPicked, Same, hostVars, effects, history, agentVars
<1>7. CASE CardLands(q)
  BY <1>7, Domains DEF CardLands, Same, hostVars, effects, history, agentVars
<1>8. CASE CardSent(q)
  BY <1>8, Domains DEF CardSent, Same, hostVars, effects, history, agentVars
<1>9. ASSUME NEW again \in BOOLEAN, CardFails(q, again) PROVE Same(r)
  BY <1>9, Domains DEF CardFails, Same, hostVars, effects, history, agentVars
<1> QED
  BY <1>1, <1>2, <1>3, <1>4, <1>5, <1>6, <1>7, <1>8, <1>9 DEF Asking

\* A step of asking keeps what is said of its request.
LEMMA AskingKeeps ==
  ASSUME TypeOK, NEW q \in Requests, OfRequest(q), Asking(q)
  PROVE  OfRequest(q)'
<1>1. CASE AskQuestion(q)
  BY <1>1, Domains DEF AskQuestion, OfRequest, PressCounted, ClosedBehind, Heard, Held, HostFree, hostVars, effects, history, agentVars
<1>2. CASE DeliverQuestion(q)
  BY <1>2, Domains DEF DeliverQuestion, OfRequest, PressCounted, ClosedBehind, Heard, Held, HostFree, hostVars, effects, history, agentVars
<1>3. ASSUME NEW admitted \in BOOLEAN, RequestAction(q, admitted) PROVE OfRequest(q)'
  <2>1. CASE admitted
    BY <1>3, <2>1, Domains DEF RequestAction, OfRequest, PressCounted, ClosedBehind, Heard, Held, HostFree, hostVars, effects, history, agentVars
  <2>2. CASE ~admitted
    BY <1>3, <2>2, Domains DEF RequestAction, OfRequest, PressCounted, ClosedBehind, Heard, Held, HostFree, hostVars, effects, history, agentVars
  <2> QED
    BY <2>1, <2>2
<1>4. ASSUME NEW admitted \in BOOLEAN, RequestCredential(q, admitted) PROVE OfRequest(q)'
  <2>1. CASE admitted
    BY <1>4, <2>1, Domains DEF RequestCredential, OfRequest, PressCounted, ClosedBehind, Heard, Held, HostFree, hostVars, effects, history, agentVars
  <2>2. CASE ~admitted
    BY <1>4, <2>2, Domains DEF RequestCredential, OfRequest, PressCounted, ClosedBehind, Heard, Held, HostFree, hostVars, effects, history, agentVars
  <2> QED
    BY <2>1, <2>2
<1>5. CASE NobodyReached(q)
  <2>1. CASE kind[q] = "action"
    BY <1>5, <2>1, Domains DEF NobodyReached, OfRequest, PressCounted, ClosedBehind, Heard, Held, HostFree, hostVars, effects, history, agentVars
  <2>2. CASE kind[q] = "credential"
    BY <1>5, <2>2, Domains DEF NobodyReached, OfRequest, PressCounted, ClosedBehind, Heard, Held, HostFree, hostVars, effects, history, agentVars
  <2>3. CASE kind[q] \notin {"action", "credential"}
    BY <1>5, <2>3, Domains DEF NobodyReached, OfRequest, PressCounted, ClosedBehind, Heard, Held, HostFree, hostVars, effects, history, agentVars
  <2> QED
    BY <2>1, <2>2, <2>3
<1>6. CASE ApproverPicked(q)
  <2>1. CASE kind[q] = "action"
    BY <1>6, <2>1, Domains DEF ApproverPicked, OfRequest, PressCounted, ClosedBehind, Heard, Held, HostFree, hostVars, effects, history, agentVars
  <2>2. CASE kind[q] # "action"
    BY <1>6, <2>2, Domains DEF ApproverPicked, OfRequest, PressCounted, ClosedBehind, Heard, Held, HostFree, hostVars, effects, history, agentVars
  <2> QED
    BY <2>1, <2>2
<1>7. CASE CardLands(q)
  BY <1>7, Domains DEF CardLands, OfRequest, PressCounted, ClosedBehind, Heard, Held, HostFree, hostVars, effects, history, agentVars
<1>8. CASE CardSent(q)
  BY <1>8, Domains DEF CardSent, OfRequest, PressCounted, ClosedBehind, Heard, Held, HostFree, hostVars, effects, history, agentVars
<1>9. ASSUME NEW again \in BOOLEAN, CardFails(q, again) PROVE OfRequest(q)'
  BY <1>9, Domains DEF CardFails, OfRequest, PressCounted, ClosedBehind, Heard, Held, HostFree, hostVars, effects, history, agentVars
<1> QED
  BY <1>1, <1>2, <1>3, <1>4, <1>5, <1>6, <1>7, <1>8, <1>9 DEF Asking

\* So does a step of answering or expiring.
LEMMA AnsweringOthers ==
  ASSUME TypeOK, NEW q \in Requests, Answering(q) \/ Expiring(q), NEW r \in Requests, r # q
  PROVE  Same(r)
<1>1. ASSUME NEW choice \in {"approve", "reject"}, Press(q, choice) PROVE Same(r)
  BY <1>1, Domains DEF Press, Same, hostVars, effects, history, agentVars
<1>2. ASSUME NEW v \in {"approve", "reject", "index"}, ResolveCredential(q, v) PROVE Same(r)
  BY <1>2, Domains DEF ResolveCredential, Dispatched, Same, hostVars, effects, history, agentVars
<1>3. ASSUME NEW v \in {"approve", "reject", "index"}, DropStale(q, v) PROVE Same(r)
  BY <1>3, Domains DEF DropStale, Dispatched, Same, hostVars, effects, history, agentVars
<1>4. ASSUME NEW v \in {"approve", "reject", "index"}, Unclaimed(q, v) PROVE Same(r)
  BY <1>4, Domains DEF Unclaimed, Dispatched, Same, hostVars, effects, history, agentVars
<1>5. ASSUME NEW v \in {"approve", "reject", "index"}, RejectAction(q, v) PROVE Same(r)
  BY <1>5, Domains DEF RejectAction, Dispatched, Same, hostVars, effects, history, agentVars
<1>6. ASSUME NEW v \in {"approve", "reject", "index"}, ApplyAction(q, v) PROVE Same(r)
  BY <1>6, Domains DEF ApplyAction, Dispatched, Same, hostVars, effects, history, agentVars
<1>7. ASSUME NEW v \in {"approve", "reject", "index"}, AnswerQuestion(q, v) PROVE Same(r)
  BY <1>7, Domains DEF AnswerQuestion, Dispatched, Same, hostVars, effects, history, agentVars
<1>8. ASSUME NEW outcome \in {"applied", "failed"}, FinishAction(q, outcome) PROVE Same(r)
  BY <1>8, Domains DEF FinishAction, Same, hostVars, effects, history, agentVars
<1>9. CASE CloseRow(q)
  BY <1>9, Domains DEF CloseRow, Same, hostVars, effects, history, agentVars
<1>10. CASE ReadAnswer(q)
  BY <1>10, Domains DEF ReadAnswer, Same, hostVars, effects, history, agentVars
<1>11. CASE GiveUp(q)
  BY <1>11, Domains DEF GiveUp, Same, hostVars, effects, history, agentVars
<1>12. CASE TimerFires(q)
  BY <1>12, Domains DEF TimerFires, Same, hostVars, effects, history, agentVars
<1>13. ASSUME NEW edited \in BOOLEAN, ExpiryEnds(q, edited) PROVE Same(r)
  BY <1>13, Domains DEF ExpiryEnds, Same, hostVars, effects, history, agentVars
<1> QED
  BY <1>1, <1>2, <1>3, <1>4, <1>5, <1>6, <1>7, <1>8, <1>9, <1>10, <1>11, <1>12, <1>13 DEF Answering, Expiring

\* The counts are numbers.
LEMMA Counts ==
  ASSUME TypeOK, NEW q \in Requests
  PROVE  /\ applied[q] \in Nat /\ approved[q] \in Nat /\ pressed[q] \in Nat
         /\ notes[q] \subseteq {"failed", "undeliverable", "rejected", "applied"}
<1>1. applied[q] \in Nat /\ notes[q] \in SUBSET {"failed", "undeliverable", "rejected", "applied"}
  BY DEF TypeOK
<1>2. approved[q] \in 0..MaxPresses /\ pressed[q] \in 0..MaxPresses
  BY DEF TypeOK
<1> QED
  BY <1>1, <1>2

\* A press that was dispatched is not counted twice.
LEMMA DispatchedOnce ==
  ASSUME TypeOK, NEW q \in Requests, OfRequest(q), NEW v, Dispatched(q, v)
  PROVE  /\ applied[q] + (IF "approve" \in presses'[q] THEN 1 ELSE 0) <= approved[q]
         /\ v = "approve" => approved[q] > 0 /\ applied[q] + 1 + (IF "approve" \in presses'[q] THEN 1 ELSE 0) <= approved[q]
         /\ UNCHANGED <<kind, flow, editing, stale, host, approved, pressed>>
         /\ card'[q] \in {card[q], "answered"}
<1>1. presses'[q] = presses[q] \ {v} /\ v \in presses[q]
  BY Domains DEF Dispatched
<1>2. applied[q] \in Nat /\ approved[q] \in Nat
  BY Counts
<1>3. applied[q] + (IF "approve" \in presses[q] THEN 1 ELSE 0) <= approved[q]
  BY DEF OfRequest, PressCounted
<1>4. card'[q] \in {card[q], "answered"}
  BY Domains DEF Dispatched
<1>5. UNCHANGED <<kind, flow, editing, stale, host, approved, pressed>>
  BY DEF Dispatched, history
<1>6. "approve" \in presses'[q] => "approve" \in presses[q] /\ v # "approve"
  BY <1>1
<1> QED
  BY <1>1, <1>2, <1>3, <1>4, <1>5, <1>6

\* A step of answering or expiring keeps what is said of its request.
LEMMA AnsweringKeeps ==
  ASSUME TypeOK, NEW q \in Requests, OfRequest(q), Answering(q) \/ Expiring(q)
  PROVE  OfRequest(q)'
<1>n. applied[q] \in Nat /\ approved[q] \in Nat /\ pressed[q] \in Nat /\ notes[q] \subseteq {"failed", "undeliverable", "rejected", "applied"}
  BY Counts
<1>1. ASSUME NEW choice \in {"approve", "reject"}, Press(q, choice) PROVE OfRequest(q)'
  <2>1. /\ approved'[q] = approved[q] + (IF choice = "approve" THEN 1 ELSE 0)
        /\ pressed'[q] = pressed[q] + 1
        /\ "approve" \in presses'[q] => "approve" \in presses[q] \/ choice = "approve"
    BY <1>1, <1>n, Domains DEF Press, SelectedOption
  <2>2. PressCounted(q)'
    BY <1>n, <1>1, <2>1 DEF OfRequest, PressCounted, Press, effects
  <2> QED
    BY <1>1, <2>2 DEF Press, OfRequest, ClosedBehind, Heard, Held, hostVars, effects, history, agentVars
<1>2. ASSUME NEW v \in {"approve", "reject", "index"}, ResolveCredential(q, v) PROVE OfRequest(q)'
  BY <1>n, <1>2, DispatchedOnce, Domains DEF ResolveCredential, Decision, OfRequest, PressCounted, ClosedBehind, Heard, Held
<1>3. ASSUME NEW v \in {"approve", "reject", "index"}, DropStale(q, v) PROVE OfRequest(q)'
  BY <1>n, <1>3, DispatchedOnce, Domains DEF DropStale, OfRequest, PressCounted, ClosedBehind, Heard, Held, effects
<1>4. ASSUME NEW v \in {"approve", "reject", "index"}, Unclaimed(q, v) PROVE OfRequest(q)'
  BY <1>n, <1>4, DispatchedOnce, Domains DEF Unclaimed, OfRequest, PressCounted, ClosedBehind, Heard, Held, effects
<1>5. ASSUME NEW v \in {"approve", "reject", "index"}, RejectAction(q, v) PROVE OfRequest(q)'
  BY <1>n, <1>5, DispatchedOnce, Domains DEF RejectAction, OfRequest, PressCounted, ClosedBehind, Heard, Held
<1>6. ASSUME NEW v \in {"approve", "reject", "index"}, ApplyAction(q, v) PROVE OfRequest(q)'
  BY <1>n, <1>6, DispatchedOnce, Domains DEF ApplyAction, Decision, OfRequest, PressCounted, ClosedBehind, Heard, Held
<1>7. ASSUME NEW v \in {"approve", "reject", "index"}, AnswerQuestion(q, v) PROVE OfRequest(q)'
  BY <1>n, <1>7, DispatchedOnce, Domains DEF AnswerQuestion, OfRequest, PressCounted, ClosedBehind, Heard, Held
<1>8. ASSUME NEW outcome \in {"applied", "failed"}, FinishAction(q, outcome) PROVE OfRequest(q)'
  BY <1>n, <1>8, Domains DEF FinishAction, OfRequest, PressCounted, ClosedBehind, Heard, Held, history
<1>9. CASE CloseRow(q)
  BY <1>n, <1>9, Domains DEF CloseRow, OfRequest, PressCounted, ClosedBehind, Heard, Held, effects, history
<1>10. CASE ReadAnswer(q)
  BY <1>n, <1>10, Domains DEF ReadAnswer, OfRequest, PressCounted, ClosedBehind, Heard, Held, hostVars, history
<1>11. CASE GiveUp(q)
  BY <1>n, <1>11, Domains DEF GiveUp, OfRequest, PressCounted, ClosedBehind, Heard, Held, hostVars, effects, history
<1>12. CASE TimerFires(q)
  BY <1>n, <1>12, Domains DEF TimerFires, HostFree, OfRequest, PressCounted, ClosedBehind, Heard, Held, history
<1>13. ASSUME NEW edited \in BOOLEAN, ExpiryEnds(q, edited) PROVE OfRequest(q)'
  BY <1>n, <1>13, Domains DEF ExpiryEnds, HostFree, OfRequest, PressCounted, ClosedBehind, Heard, Held, effects, history
<1> QED
  BY <1>1, <1>2, <1>3, <1>4, <1>5, <1>6, <1>7, <1>8, <1>9, <1>10, <1>11, <1>12, <1>13 DEF Answering, Expiring

\* A step of the container or of the process keeps what is said of each.
LEMMA ProcessKeeps ==
  ASSUME TypeOK, NEW r \in Requests, OfRequest(r),
         ContainerStops \/ SweepWakes \/ HostCrash \/ HostStart \/ UNCHANGED vars
  PROVE  OfRequest(r)'
<1>1. CASE ContainerStops \/ SweepWakes \/ UNCHANGED vars
  <2>1. Same(r)
    BY <1>1 DEF ContainerStops, SweepWakes, Same, vars, hostVars, effects, history
  <2> QED
    BY <2>1, SameKeeps
<1>2. CASE HostCrash
  <2>1. /\ flow'[r] = IF kind[r] = "question" /\ flow[r] = "carding" THEN "out"
                      ELSE IF flow[r] \in {"picking", "carding"} THEN "failed" ELSE flow[r]
        /\ verdict'[r] = IF verdict[r] = "open" THEN "lost" ELSE verdict[r]
        /\ handling'[r] = "no" /\ presses'[r] = {}
        /\ resolver' = {} /\ editing' = {} /\ stale' = {}
        /\ UNCHANGED <<kind, row, card, notes, response, applied, approved, pressed>>
    BY <1>2 DEF HostCrash
  <2>2. PressCounted(r)'
    BY <2>1, Counts DEF OfRequest, PressCounted
  <2>3. ClosedBehind(r)'
    BY <2>1 DEF OfRequest, ClosedBehind, Heard
  <2>4. Held(r)'
    BY <2>1 DEF OfRequest, Held
  <2> QED
    BY <2>2, <2>3, <2>4 DEF OfRequest
<1>3. CASE HostStart
  BY <1>3 DEF HostStart, Of, OfRequest, PressCounted, ClosedBehind, Heard, Held, effects, history
<1> QED
  BY <1>1, <1>2, <1>3

-----------------------------------------------------------------------------
(* The theorems *)

\* The initial state satisfies the invariant.
LEMMA InvariantInit == Init => ApprovalsInvariant
<1> SUFFICES ASSUME Init PROVE ApprovalsInvariant
  OBVIOUS
<1>1. TypeOK
  BY ApprovalsAssumption DEF Init, TypeOK
<1>2. ASSUME NEW r \in Requests PROVE PressCounted(r) /\ ClosedBehind(r) /\ Held(r)
  BY DEF Init, PressCounted, ClosedBehind, Heard, Held
<1> QED
  BY <1>1, <1>2 DEF ApprovalsInvariant

\* Every step keeps it.
LEMMA InvariantInductive == ApprovalsInvariant /\ [Next]_vars => ApprovalsInvariant'
<1> SUFFICES ASSUME ApprovalsInvariant, [Next]_vars PROVE ApprovalsInvariant'
  OBVIOUS
<1>1. TypeOK /\ \A r \in Requests : OfRequest(r)
  BY DEF ApprovalsInvariant, OfRequest
<1>2. ASSUME NEW r \in Requests PROVE OfRequest(r)'
  <2>1. CASE \E q \in Requests : Asking(q) \/ Answering(q) \/ Expiring(q)
    <3>1. PICK q \in Requests : Asking(q) \/ Answering(q) \/ Expiring(q)
      BY <2>1
    <3>2. CASE r = q
      BY <1>1, <3>1, <3>2, AskingKeeps, AnsweringKeeps
    <3>3. CASE r # q
      BY <1>1, <3>1, <3>3, AskingOthers, AnsweringOthers, SameKeeps
    <3> QED
      BY <3>2, <3>3
  <2>2. CASE ContainerStops \/ SweepWakes \/ HostCrash \/ HostStart \/ UNCHANGED vars
    BY <1>1, <2>2, ProcessKeeps
  <2> QED
    BY <2>1, <2>2 DEF Next
<1>3. TypeOK'
  BY TypeInductive
<1> QED
  BY <1>2, <1>3 DEF ApprovalsInvariant, OfRequest

\* What is said of the requests holds always.
THEOREM ApprovalsCorrect == Spec => []ApprovalsInvariant
BY InvariantInit, InvariantInductive, PTL DEF Spec

\* Every variable keeps its type (schema of the request tables, primitive.ts,
\* onecli-approvals.ts).
THEOREM TypeCorrect == Spec => []TypeOK
<1>1. ApprovalsInvariant => TypeOK
  BY DEF ApprovalsInvariant
<1> QED
  BY <1>1, ApprovalsCorrect, PTL

\* No release and no change of configuration without as many Approves
\* (response-handler.ts, onecli-approvals.ts): a press is consumed when it is
\* dispatched, and only the value "approve" decides.
THEOREM ConsentNeeded == Spec => []NothingWithoutConsent
<1>1. ApprovalsInvariant => NothingWithoutConsent
  <2> SUFFICES ASSUME ApprovalsInvariant, NEW r \in Requests
               PROVE (verdict[r] = "approve" => approved[r] > 0) /\ applied[r] <= approved[r]
    BY DEF NothingWithoutConsent
  <2>1. TypeOK /\ PressCounted(r)
    BY DEF ApprovalsInvariant
  <2> QED
    BY <2>1, Counts DEF PressCounted
<1> QED
  BY <1>1, ApprovalsCorrect, PTL

\* The row of a request goes only behind what its asker hears
\* (response-handler.ts, interactive/index.ts), whenever the host dies.
THEOREM NeverSilent == Spec => []NoSilentClose
<1>1. ApprovalsInvariant => NoSilentClose
  <2> SUFFICES ASSUME ApprovalsInvariant, NEW r \in Requests, row[r] = "none", flow[r] = "asked"
               PROVE /\ kind[r] = "action" => notes[r] \intersect {"rejected", "applied", "failed"} # {}
                     /\ kind[r] = "question" => response[r] # "none"
                     /\ kind[r] = "credential" => verdict[r] # "open"
    BY DEF NoSilentClose
  <2>1. ClosedBehind(r) /\ Held(r)
    BY DEF ApprovalsInvariant
  <2> QED
    BY <2>1 DEF ClosedBehind, Heard, Held
<1> QED
  BY <1>1, ApprovalsCorrect, PTL

\* A card that was edited to "Expired" belongs to a request that was not
\* granted (onecli-approvals.ts, editCardExpired).
THEOREM ExpiredDenied == Spec => []ExpiredWasDenied
<1>1. ApprovalsInvariant => ExpiredWasDenied
  BY DEF ApprovalsInvariant, ExpiredWasDenied, Held
<1> QED
  BY <1>1, ApprovalsCorrect, PTL

\* The verdict of a credential is given once (onecli-approvals.ts): the
\* resolver that gives it is gone with it.
THEOREM VerdictStays == Spec => VerdictIsFinal
<1>1. ASSUME ApprovalsInvariant, [Next]_vars
      PROVE [\A r \in Requests : verdict[r] \in {"approve", "deny", "lost"} => verdict'[r] = verdict[r]]_vars
  <2> SUFFICES ASSUME NEW r \in Requests, verdict[r] \in {"approve", "deny", "lost"}
               PROVE  verdict'[r] = verdict[r]
    OBVIOUS
  <2>0. TypeOK /\ Held(r)
    BY <1>1 DEF ApprovalsInvariant
  <2>1. ASSUME NEW q \in Requests, Asking(q) PROVE verdict'[r] = verdict[r]
    BY <2>0, <2>1, Domains DEF Held, Asking, AskQuestion, DeliverQuestion, RequestAction, RequestCredential,
       NobodyReached, ApproverPicked, CardLands, CardSent, CardFails, effects
  <2>2. ASSUME NEW q \in Requests, Answering(q) PROVE verdict'[r] = verdict[r]
    BY <2>0, <2>2, Domains DEF Held, Answering, Press, ResolveCredential, DropStale, Unclaimed, RejectAction,
       ApplyAction, AnswerQuestion, FinishAction, CloseRow, ReadAnswer, GiveUp, effects
  <2>3. ASSUME NEW q \in Requests, Expiring(q) PROVE verdict'[r] = verdict[r]
    BY <2>0, <2>3, Domains DEF Held, Expiring, TimerFires, ExpiryEnds, effects
  <2>4. CASE ContainerStops \/ SweepWakes \/ HostCrash \/ HostStart \/ UNCHANGED vars
    BY <2>4 DEF ContainerStops, SweepWakes, HostCrash, HostStart, vars, effects
  <2> QED
    BY <1>1, <2>1, <2>2, <2>3, <2>4 DEF Next
<1> QED
  BY <1>1, ApprovalsCorrect, PTL DEF Spec, VerdictIsFinal

=============================================================================
