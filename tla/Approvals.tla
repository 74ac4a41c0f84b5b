------------------------------- MODULE Approvals -------------------------------
(***************************************************************************)
(* Requests of one session that a human decides with a button card:        *)
(* questions of an agent (ask_user_question), self-modifications that an   *)
(* admin approves (modules/approvals/primitive.ts), and credentials the    *)
(* OneCLI gateway holds a connection open for (onecli-approvals.ts).       *)
(*                                                                         *)
(* A step is a stretch of host code without an await, cut where a crash in *)
(* between would leave one database written and the other not.  The card   *)
(* lives on the platform: it may be on screen before deliver() returns,    *)
(* and deliver() may throw although it is.  A button carries an index into *)
(* the options of the pending row; the bridge turns it into a value when   *)
(* the press arrives, if there is a row.                                   *)
(***************************************************************************)
EXTENDS Naturals, FiniteSets

CONSTANTS
  Requests,    \* ids of requests
  Kinds,       \* which of "question", "action", "credential" are asked
  MaxPresses,  \* bound on the presses of the buttons of a card
  MaxFaults    \* bound on host crashes

ASSUME ApprovalsAssumption ==
  /\ Kinds \subseteq {"question", "action", "credential"}
  /\ MaxPresses \in Nat /\ MaxFaults \in Nat

VARIABLES
  kind,     \* what was asked, "none" before
  flow,     \* where the asking code is: a request goes through "picking"
            \* (awaits a DM), "carding" (awaits deliver), "asked" or "failed"
  row,      \* the pending_approvals or pending_questions row
  resolver, \* credentials: entry and timer in the map `pending`
  editing,  \* credentials whose card is being edited to "Expired"
  stale,    \* credential rows the start-up sweep has read and not handled
  handling, \* "applying" or "closing" while a claimed press is being handled
  host,     \* is the host process up
  card,     \* what the platform shows
  presses,  \* values of presses the bridge has read and not dispatched
  verdict,  \* what the gateway was told of a credential
  notes,    \* what the requesting agent was told of an action
  response, \* the question_response row in inbound.db
  waiting,  \* the ask_user_question call in the container
  container, \* the container of the session
  applied,  \* history: how often the action was applied
  approved, \* history: how often a human pressed Approve
  pressed,  \* history: how often any button was pressed
  faults    \* history: crashes so far

hostVars == <<flow, resolver, editing, stale, handling, host>>
effects  == <<verdict, notes, response, applied>>
history  == <<approved, pressed, faults>>
agentVars == <<waiting, container>>
vars == <<kind, row, hostVars, card, presses, effects, agentVars, history>>

TypeOK ==
  /\ kind \in [Requests -> Kinds \union {"none"}]
  /\ flow \in [Requests -> {"idle", "out", "picking", "carding", "asked", "failed"}]
  /\ row \in [Requests -> {"none", "pending", "expired"}]
  /\ resolver \in SUBSET Requests
  /\ editing \in SUBSET Requests
  /\ stale \in SUBSET Requests
  /\ handling \in [Requests -> {"no", "applying", "closing"}]
  /\ host \in {"up", "down"}
  /\ card \in [Requests -> {"none", "buttons", "answered", "expired"}]
  /\ presses \in [Requests -> SUBSET {"approve", "reject", "index"}]
  /\ verdict \in [Requests -> {"none", "open", "approve", "deny", "lost"}]
  /\ notes \in [Requests -> SUBSET {"failed", "undeliverable", "rejected", "applied"}]
  /\ response \in [Requests -> {"none", "due", "read"}]
  /\ waiting \in [Requests -> {"no", "polling", "answered", "gave up"}]
  /\ container \in {"running", "stopped"}
  /\ applied \in [Requests -> Nat]
  /\ approved \in [Requests -> 0..MaxPresses]
  /\ pressed \in [Requests -> 0..MaxPresses]
  /\ faults \in 0..MaxFaults

Of(k) == {r \in Requests : kind[r] = k}

\* No stretch of synchronous host code is under way.
HostFree == host = "up" /\ \A r \in Requests : handling[r] = "no"

-----------------------------------------------------------------------------
(* Asking.                                                                 *)

\* ask_user_question writes the card to outbound.db and starts to poll.
AskQuestion(r) ==
  /\ "question" \in Kinds /\ kind[r] = "none"
  /\ kind' = [kind EXCEPT ![r] = "question"]
  /\ flow' = [flow EXCEPT ![r] = "out"]
  /\ waiting' = [waiting EXCEPT ![r] = "polling"]
  /\ container' = "running"
  /\ UNCHANGED <<row, resolver, editing, stale, handling, host, card, presses, effects, history>>

\* deliverMessage: the pending_questions row, INSERT OR IGNORE, then the send.
DeliverQuestion(r) ==
  /\ HostFree /\ flow[r] = "out"
  /\ row' = [row EXCEPT ![r] = "pending"]
  /\ flow' = [flow EXCEPT ![r] = "carding"]
  /\ UNCHANGED <<kind, resolver, editing, stale, handling, host, card, presses, effects, agentVars, history>>

\* handleInstallPackages and handleAddMcpServer: an invalid request is
\* refused, as is one that nobody could approve.
RequestAction(r, admitted) ==
  /\ HostFree /\ "action" \in Kinds /\ kind[r] = "none"
  /\ kind' = [kind EXCEPT ![r] = "action"]
  /\ flow' = [flow EXCEPT ![r] = IF admitted THEN "picking" ELSE "failed"]
  /\ notes' = [notes EXCEPT ![r] = IF admitted THEN {} ELSE {"failed"}]
  /\ UNCHANGED <<row, resolver, editing, stale, handling, host, card, presses, verdict, response, applied, agentVars, history>>

\* handleRequest of the gateway's callback, up to its first await.
RequestCredential(r, admitted) ==
  /\ HostFree /\ "credential" \in Kinds /\ kind[r] = "none"
  /\ kind' = [kind EXCEPT ![r] = "credential"]
  /\ flow' = [flow EXCEPT ![r] = IF admitted THEN "picking" ELSE "failed"]
  /\ verdict' = [verdict EXCEPT ![r] = IF admitted THEN "open" ELSE "deny"]
  /\ UNCHANGED <<row, resolver, editing, stale, handling, host, card, presses, notes, response, applied, agentVars, history>>

\* pickApprovalDelivery has found no approver with a direct message channel.
NobodyReached(r) ==
  /\ HostFree /\ flow[r] = "picking"
  /\ flow' = [flow EXCEPT ![r] = "failed"]
  /\ notes' = [notes EXCEPT ![r] = IF kind[r] = "action" THEN @ \union {"failed"} ELSE @]
  /\ verdict' = [verdict EXCEPT ![r] = IF kind[r] = "credential" THEN "deny" ELSE @]
  /\ UNCHANGED <<kind, row, resolver, editing, stale, handling, host, card, presses, response, applied, agentVars, history>>

\* pickApprovalDelivery has an approver: an action's row is written before
\* its card is sent, a credential's only afterwards.
ApproverPicked(r) ==
  /\ HostFree /\ flow[r] = "picking"
  /\ flow' = [flow EXCEPT ![r] = "carding"]
  /\ row' = [row EXCEPT ![r] = IF kind[r] = "action" THEN "pending" ELSE @]
  /\ UNCHANGED <<kind, resolver, editing, stale, handling, host, card, presses, effects, agentVars, history>>

\* The platform shows the card; the call has not returned yet.
CardLands(r) ==
  /\ flow[r] = "carding" /\ card[r] # "buttons"
  /\ card' = [card EXCEPT ![r] = "buttons"]
  /\ UNCHANGED <<kind, row, hostVars, presses, effects, agentVars, history>>

\* deliver() returns: a credential gets its row, its resolver and its timer.
CardSent(r) ==
  /\ HostFree /\ flow[r] = "carding" /\ card[r] # "none"
  /\ flow' = [flow EXCEPT ![r] = "asked"]
  /\ row' = [row EXCEPT ![r] = IF kind[r] = "credential" THEN "pending" ELSE @]
  /\ resolver' = IF kind[r] = "credential" THEN resolver \union {r} ELSE resolver
  /\ UNCHANGED <<kind, editing, stale, handling, host, card, presses, effects, agentVars, history>>

\* deliver() throws, the card being on screen or not: a question is tried
\* again until its attempts are used up, an action's agent is told while the
\* row stays, a credential is denied.
CardFails(r, again) ==
  /\ HostFree /\ flow[r] = "carding"
  /\ again => kind[r] = "question"
  /\ flow' = [flow EXCEPT ![r] = IF again THEN "out" ELSE "failed"]
  /\ notes' = [notes EXCEPT ![r] = IF kind[r] = "action" THEN @ \union {"undeliverable"} ELSE @]
  /\ verdict' = [verdict EXCEPT ![r] = IF kind[r] = "credential" THEN "deny" ELSE @]
  /\ UNCHANGED <<kind, row, resolver, editing, stale, handling, host, card, presses, response, applied, agentVars, history>>

-----------------------------------------------------------------------------
(* Answering.                                                              *)

\* Mutant of SelectedOption: an index that cannot be resolved approves.
FirstOption(r, choice) == IF row[r] = "none" THEN "approve" ELSE choice

\* resolveSelectedOption: without a row the index stays what it is.
SelectedOption(r, choice) == IF row[r] = "none" THEN "index" ELSE choice

\* A press reaches the bridge, which reads the options and then awaits the
\* edit that takes the buttons away.
Press(r, choice) ==
  /\ HostFree /\ card[r] = "buttons" /\ pressed[r] < MaxPresses
  /\ presses' = [presses EXCEPT ![r] = @ \union {SelectedOption(r, choice)}]
  /\ pressed' = [pressed EXCEPT ![r] = @ + 1]
  /\ approved' = [approved EXCEPT ![r] = IF choice = "approve" THEN @ + 1 ELSE @]
  /\ UNCHANGED <<kind, row, hostVars, card, effects, agentVars, faults>>

\* The edit has ended, in success or not, and dispatchResponse runs the
\* handlers: every kind looks the id up in its own table.
Dispatched(r, v) ==
  /\ HostFree /\ v \in presses[r]
  /\ presses' = [presses EXCEPT ![r] = @ \ {v}]
  /\ \E edited \in BOOLEAN :
       card' = [card EXCEPT ![r] = IF edited /\ @ = "buttons" THEN "answered" ELSE @]
  /\ UNCHANGED <<kind, flow, editing, stale, host, agentVars, history>>

Decision(v) == IF v = "approve" THEN "approve" ELSE "deny"

\* resolveOneCLIApproval: the timer is cleared, the row goes, the promise
\* resolves.
ResolveCredential(r, v) ==
  /\ Dispatched(r, v) /\ r \in resolver
  /\ resolver' = resolver \ {r}
  /\ row' = [row EXCEPT ![r] = "none"]
  /\ verdict' = [verdict EXCEPT ![r] = Decision(v)]
  /\ UNCHANGED <<handling, notes, response, applied>>

\* The row of a credential whose timer has fired, or whose host has died.
DropStale(r, v) ==
  /\ Dispatched(r, v) /\ r \notin resolver
  /\ kind[r] = "credential" /\ row[r] # "none"
  /\ row' = [row EXCEPT ![r] = "none"]
  /\ UNCHANGED <<resolver, handling, effects>>

\* Nobody claims the press.
Unclaimed(r, v) ==
  /\ Dispatched(r, v) /\ r \notin resolver /\ row[r] = "none"
  /\ UNCHANGED <<row, resolver, handling, effects>>

\* Mutant of RejectAction: the row goes first.
RejectClosing(r, v) ==
  /\ Dispatched(r, v) /\ kind[r] = "action" /\ row[r] = "pending" /\ Decision(v) = "deny"
  /\ row' = [row EXCEPT ![r] = "none"]
  /\ handling' = [handling EXCEPT ![r] = "closing"]
  /\ UNCHANGED <<notes, resolver, verdict, response, applied>>

\* handleRegisteredApproval, rejected: the agent is told before the row goes.
RejectAction(r, v) ==
  /\ Dispatched(r, v) /\ kind[r] = "action" /\ row[r] = "pending" /\ Decision(v) = "deny"
  /\ notes' = [notes EXCEPT ![r] = @ \union {"rejected"}]
  /\ handling' = [handling EXCEPT ![r] = "closing"]
  /\ UNCHANGED <<row, resolver, verdict, response, applied>>

\* handleRegisteredApproval, approved: the handler changes the configuration.
ApplyAction(r, v) ==
  /\ Dispatched(r, v) /\ kind[r] = "action" /\ row[r] = "pending" /\ Decision(v) = "approve"
  /\ applied' = [applied EXCEPT ![r] = @ + 1]
  /\ handling' = [handling EXCEPT ![r] = "applying"]
  /\ UNCHANGED <<row, resolver, verdict, notes, response>>

\* The container is gone, and the calls in it.
Killed ==
  /\ container' = "stopped"
  /\ waiting' = [r \in Requests |-> IF waiting[r] = "polling" THEN "gave up" ELSE waiting[r]]

\* applyInstallPackages and applyAddMcpServer after the change: the image is
\* built, the container killed and the agent told, also when that fails.
FinishAction(r, outcome) ==
  /\ handling[r] = "applying"
  /\ handling' = [handling EXCEPT ![r] = "closing"]
  /\ notes' = [notes EXCEPT ![r] = @ \union {outcome}]
  /\ UNCHANGED <<kind, flow, row, resolver, editing, stale, host, card, presses, verdict, response, applied, history>>
  /\ IF outcome = "applied" THEN Killed ELSE UNCHANGED agentVars

\* handleInteractiveResponse: the answer goes into the session's inbound.db.
AnswerQuestion(r, v) ==
  /\ Dispatched(r, v) /\ kind[r] = "question" /\ row[r] = "pending"
  /\ response' = [response EXCEPT ![r] = IF @ = "none" THEN "due" ELSE @]
  /\ handling' = [handling EXCEPT ![r] = "closing"]
  /\ UNCHANGED <<row, resolver, verdict, notes, applied>>

\* deletePendingApproval, deletePendingQuestion; then the container is woken.
CloseRow(r) ==
  /\ handling[r] = "closing"
  /\ handling' = [handling EXCEPT ![r] = "no"]
  /\ row' = [row EXCEPT ![r] = "none"]
  /\ UNCHANGED <<kind, flow, resolver, editing, stale, host, card, presses, effects, agentVars, history>>

\* ask_user_question finds the answer and acknowledges it.
ReadAnswer(r) ==
  /\ waiting[r] = "polling" /\ response[r] = "due"
  /\ waiting' = [waiting EXCEPT ![r] = "answered"]
  /\ response' = [response EXCEPT ![r] = "read"]
  /\ UNCHANGED <<container, kind, row, hostVars, card, presses, verdict, notes, applied, history>>

\* ask_user_question has waited for its timeout.
GiveUp(r) ==
  /\ waiting[r] = "polling"
  /\ waiting' = [waiting EXCEPT ![r] = "gave up"]
  /\ UNCHANGED <<container, kind, row, hostVars, card, presses, effects, history>>

\* The container crashes, or the sweep kills it: when it has been idle for
\* the ceiling it always does.
ContainerStops ==
  /\ container = "running"
  /\ Killed
  /\ UNCHANGED <<kind, row, hostVars, card, presses, effects, history>>

\* The sweep counts due rows, answers to questions among them, and wakes.
SweepWakes ==
  /\ HostFree /\ container = "stopped"
  /\ \E r \in Requests : response[r] = "due"
  /\ container' = "running"
  /\ UNCHANGED <<kind, row, hostVars, card, presses, effects, waiting, history>>

-----------------------------------------------------------------------------
(* Expiry and restart.                                                     *)

\* Mutant of TimerFires: the resolver stays registered.
TimerForgets(r) ==
  /\ HostFree /\ r \in resolver
  /\ verdict' = [verdict EXCEPT ![r] = "deny"]
  /\ row' = [row EXCEPT ![r] = "expired"]
  /\ editing' = editing \union {r}
  /\ UNCHANGED <<resolver, kind, flow, stale, handling, host, card, presses, notes, response, applied, agentVars, history>>

\* The timer of a credential: the gateway is denied, the card is edited.
TimerFires(r) ==
  /\ HostFree /\ r \in resolver
  /\ resolver' = resolver \ {r}
  /\ verdict' = [verdict EXCEPT ![r] = "deny"]
  /\ row' = [row EXCEPT ![r] = "expired"]
  /\ editing' = editing \union {r}
  /\ UNCHANGED <<kind, flow, stale, handling, host, card, presses, notes, response, applied, agentVars, history>>

\* editCardExpired has ended, in success or not, and the row is deleted.
ExpiryEnds(r, edited) ==
  /\ HostFree /\ r \in editing \union stale
  /\ editing' = editing \ {r}
  /\ stale' = stale \ {r}
  /\ row' = [row EXCEPT ![r] = "none"]
  /\ card' = [card EXCEPT ![r] = IF edited THEN "expired" ELSE @]
  /\ UNCHANGED <<kind, flow, resolver, handling, host, presses, effects, agentVars, history>>

\* The process dies: the gateway's connections, the timers and every
\* asynchronous call are gone; outbound.db still has an unsent question.
HostCrash ==
  /\ host = "up" /\ faults < MaxFaults
  /\ host' = "down"
  /\ faults' = faults + 1
  /\ flow' = [r \in Requests |->
       IF kind[r] = "question" /\ flow[r] = "carding" THEN "out"
       ELSE IF flow[r] \in {"picking", "carding"} THEN "failed" ELSE flow[r]]
  /\ verdict' = [r \in Requests |-> IF verdict[r] = "open" THEN "lost" ELSE verdict[r]]
  /\ resolver' = {} /\ editing' = {} /\ stale' = {}
  /\ handling' = [r \in Requests |-> "no"]
  /\ presses' = [r \in Requests |-> {}]
  /\ UNCHANGED <<kind, row, card, notes, response, agentVars, applied, approved, pressed>>

\* Mutant of HostStart: nothing is swept.
StartUnswept ==
  /\ host = "down"
  /\ host' = "up"
  /\ UNCHANGED <<stale, kind, flow, row, resolver, editing, handling, card, presses, effects, agentVars, history>>

\* startOneCLIApprovalHandler: the rows of the previous process are swept,
\* one awaited edit after the other.
HostStart ==
  /\ host = "down"
  /\ host' = "up"
  /\ stale' = {r \in Of("credential") : row[r] # "none"}
  /\ UNCHANGED <<kind, flow, row, resolver, editing, handling, card, presses, effects, agentVars, history>>

-----------------------------------------------------------------------------

Init ==
  /\ kind = [r \in Requests |-> "none"]
  /\ flow = [r \in Requests |-> "idle"]
  /\ row = [r \in Requests |-> "none"]
  /\ resolver = {} /\ editing = {} /\ stale = {}
  /\ handling = [r \in Requests |-> "no"]
  /\ host = "up"
  /\ card = [r \in Requests |-> "none"]
  /\ presses = [r \in Requests |-> {}]
  /\ verdict = [r \in Requests |-> "none"]
  /\ notes = [r \in Requests |-> {}]
  /\ response = [r \in Requests |-> "none"]
  /\ waiting = [r \in Requests |-> "no"]
  /\ container = "running"
  /\ applied = [r \in Requests |-> 0]
  /\ approved = [r \in Requests |-> 0]
  /\ pressed = [r \in Requests |-> 0]
  /\ faults = 0

Asking(r) ==
  \/ AskQuestion(r) \/ DeliverQuestion(r)
  \/ \E admitted \in BOOLEAN : RequestAction(r, admitted) \/ RequestCredential(r, admitted)
  \/ NobodyReached(r) \/ ApproverPicked(r)
  \/ CardLands(r) \/ CardSent(r)
  \/ \E again \in BOOLEAN : CardFails(r, again)

Answering(r) ==
  \/ \E choice \in {"approve", "reject"} : Press(r, choice)
  \/ \E v \in {"approve", "reject", "index"} :
       \/ ResolveCredential(r, v) \/ DropStale(r, v) \/ Unclaimed(r, v)
       \/ RejectAction(r, v) \/ ApplyAction(r, v) \/ AnswerQuestion(r, v)
  \/ \E outcome \in {"applied", "failed"} : FinishAction(r, outcome)
  \/ CloseRow(r) \/ ReadAnswer(r) \/ GiveUp(r)

Expiring(r) == TimerFires(r) \/ \E edited \in BOOLEAN : ExpiryEnds(r, edited)

Next ==
  \/ \E r \in Requests : Asking(r) \/ Answering(r) \/ Expiring(r)
  \/ ContainerStops \/ SweepWakes \/ HostCrash \/ HostStart

Spec == Init /\ [][Next]_vars

\* Timers fire (the sweep and the expiry), calls end, a stretch of code runs
\* on, the service manager restarts the host, an idle container is killed.
\* Nothing is assumed of humans and agents.
Fairness ==
  /\ WF_vars(HostStart) /\ SF_vars(SweepWakes) /\ WF_vars(ContainerStops)
  /\ \A r \in Requests :
       /\ SF_vars(TimerFires(r))
       /\ SF_vars(\E edited \in BOOLEAN : ExpiryEnds(r, edited))
       /\ SF_vars(NobodyReached(r) \/ ApproverPicked(r))
       /\ SF_vars(CardSent(r) \/ \E again \in BOOLEAN : CardFails(r, again))
       /\ WF_vars(CloseRow(r))
       /\ WF_vars(\E outcome \in {"applied", "failed"} : FinishAction(r, outcome))

FairSpec == Spec /\ Fairness

-----------------------------------------------------------------------------
(* Properties.                                                             *)

\* A credential is released, and a configuration changed, only on a human's
\* Approve, and changed at most once for each: not by a timer, a restart, or a
\* press whose index was never resolved.  (Two Approves of one card count twice:
\* the row is there until the handler is done, and the code may apply both.)
NothingWithoutConsent ==
  \A r \in Requests :
    /\ verdict[r] = "approve" => approved[r] > 0
    /\ applied[r] <= approved[r]

\* A row that was written goes only once its asker has heard: deciding and
\* deleting are writes to different databases, and a crash may fall between.
NoSilentClose ==
  \A r \in Requests : row[r] = "none" =>
    /\ (flow[r] = "asked" /\ kind[r] = "action") => notes[r] \intersect {"rejected", "applied", "failed"} # {}
    /\ (flow[r] = "asked" /\ kind[r] = "question") => response[r] # "none"
    /\ (flow[r] = "asked" /\ kind[r] = "credential") => verdict[r] # "open"

\* A card that says "Expired" is not one whose Approve was honoured, however
\* the timer, the press and the restart interleave.
ExpiredWasDenied ==
  \A r \in Requests : card[r] = "expired" => verdict[r] \in {"deny", "lost"}

\* What the gateway was told stays.
VerdictIsFinal ==
  [][\A r \in Requests : verdict[r] \in {"approve", "deny", "lost"} => verdict'[r] = verdict[r]]_vars

\* The gateway is answered in the end, or its connection is lost with the
\* host; and no credential row outlives that for ever.
CredentialsSettle ==
  \A r \in Requests :
    /\ verdict[r] = "open" ~> verdict[r] # "open"
    /\ (kind[r] = "credential" /\ row[r] # "none") ~> (row[r] = "none")
=============================================================================
