--------------------------------- MODULE Router ---------------------------------
(***************************************************************************)
(* The way of an inbound message to the agents wired to its chat           *)
(* (router.ts), with the gates of the permissions module and the two flows *)
(* in which an owner decides by card: may an unknown sender talk to an     *)
(* agent, may an unwired chat be wired.  One chat of a threaded platform.  *)
(*                                                                         *)
(* routeInbound visits the wirings one after the other and awaits between  *)
(* them (a container is started); several messages are on their way at the *)
(* same time.  The requests of approval are not awaited: they resolve a    *)
(* direct message channel, insert a row and send a card on their own.      *)
(***************************************************************************)
EXTENDS Naturals, Sequences, FiniteSets

CONSTANTS
  Messages, Senders, Agents, Threads,
  Admins,       \* the senders with a role, who may talk to every agent
  FirstAgent,   \* the agent a new chat is wired to
  Incoming,     \* the messages that can arrive
  InitialWiring, \* the possible wirings at the start, sequences of Wiring
  Policies,     \* the possible policies of the chat for unknown senders
  NoRow,        \* absence of a row of a request
  MaxCrashes    \* bound on host crashes

Wiring == [agent : Agents, mode : {"always", "mention", "sticky"},
           scope : {"all", "known"}, ignored : {"drop", "accumulate"}]

\* An "admin" text is a command for admins, a "filtered" one is for nobody.
Message == [sender : Senders, mention : BOOLEAN, thread : Threads,
            text : {"plain", "admin", "filtered"}]

ASSUME RouterAssumption ==
  /\ Admins \subseteq Senders /\ FirstAgent \in Agents
  /\ Incoming \subseteq Message
  /\ \A ws \in InitialWiring : ws \in Seq(Wiring)
  /\ Policies \subseteq {"strict", "request_approval", "public"}
  /\ NoRow \notin [msg : Messages, agent : Agents]
  /\ MaxCrashes \in Nat

VARIABLES
  policy,     \* unknown_sender_policy of the chat
  wired,      \* messaging_group_agents of the chat, in their order
  denied,     \* denied_at of the chat
  members,    \* agent_group_members
  arrived,    \* the messages that have arrived, with what they are
  sessions,   \* the active sessions
  inbox,      \* the rows of a message in the sessions of an agent
  routes,     \* calls of routeInbound under way: message and wirings ahead
  requests,   \* calls of requestSenderApproval and requestChannelApproval
  senderRow,  \* pending_sender_approvals
  channelRow, \* pending_channel_approvals
  cards,      \* cards with live buttons on the screen of the approver
  decided,    \* history: requests that were decided
  granted,    \* history: messages and agents for which a sender was approved
  collided,   \* history: messages that met a row of their own in an inbox
  crashes     \* history: host crashes

chat == <<policy, wired, denied, members>>
flows == <<requests, senderRow, channelRow, cards, decided, granted, collided>>
vars == <<chat, arrived, sessions, inbox, routes, flows, crashes>>

Request == [kind : {"sender", "channel"}, msg : Messages, agent : Agents]

CanAccess(s, a) == s \in Admins \/ <<s, a>> \in members

-----------------------------------------------------------------------------
(* Arrival.                                                                *)

\* routeInbound up to the fan-out.  An unwired chat matters only when the
\* agent is addressed in it, and is then brought before the owner.
Arrive(m, x) ==
  /\ m \notin DOMAIN arrived
  /\ arrived' = [n \in DOMAIN arrived \union {m} |-> IF n = m THEN x ELSE arrived[n]]
  /\ routes' = routes \union
       (IF wired = <<>> THEN {} ELSE {[msg |-> m, ahead |-> wired]})
  /\ requests' = requests \union
       (IF wired = <<>> /\ x.mention /\ ~denied /\ channelRow = NoRow
        THEN {[kind |-> "channel", msg |-> m, agent |-> FirstAgent]} ELSE {})
  /\ UNCHANGED <<chat, sessions, inbox, senderRow, channelRow, cards, decided, granted, collided, crashes>>

-----------------------------------------------------------------------------
(* Fan-out.                                                                *)

\* evaluateEngage.
Engages(w, m) ==
  \/ w.mode = "always"
  \/ arrived[m].mention
  \/ w.mode = "sticky" /\ <<w.agent, arrived[m].thread>> \in sessions

\* Mutant of AccessGate: the request is made and the message let through.
OpenGate(w, m) == policy # "strict" \/ CanAccess(arrived[m].sender, w.agent)

\* setAccessGate's hook.
AccessGate(w, m) == policy = "public" \/ CanAccess(arrived[m].sender, w.agent)

\* setSenderScopeGate's hook.
ScopeGate(w, m) == w.scope = "all" \/ CanAccess(arrived[m].sender, w.agent)

Admitted(w, m) == Engages(w, m) /\ AccessGate(w, m) /\ ScopeGate(w, m)

\* handleUnknownSender, a side effect of the access gate: an approval is
\* requested unless one is pending.
Refused(w, m) ==
  IF /\ Engages(w, m) /\ ~AccessGate(w, m)
     /\ policy = "request_approval" /\ senderRow[arrived[m].sender] = NoRow
  THEN {[kind |-> "sender", msg |-> m, agent |-> w.agent]} ELSE {}

\* gateCommand.
Command(m) ==
  IF arrived[m].text = "filtered" THEN "filter"
  ELSE IF arrived[m].text = "admin" /\ arrived[m].sender \notin Admins THEN "deny"
  ELSE "pass"

\* The row `${id}:${agent}` exists, or the denial is written through a
\* handle that is read-only: deliverToAgent throws.
Throws(w, m) == Command(m) = "deny" \/ (Command(m) = "pass" /\ inbox[w.agent][m] # "none")

\* resolveSession: on a threaded platform a session for each thread.
Session(w, m) == <<w.agent, arrived[m].thread>>

\* One wiring: the session is found or created, the row inserted.
FanOutTo(r) ==
  /\ LET w == Head(r.ahead) IN
       /\ (Admitted(w, r.msg) \/ w.ignored = "accumulate") /\ ~Throws(w, r.msg)
       /\ sessions' = sessions \union {Session(w, r.msg)}
       /\ inbox' = IF Command(r.msg) = "filter" THEN inbox
                   ELSE [inbox EXCEPT ![w.agent][r.msg] = IF Admitted(w, r.msg) THEN "trigger" ELSE "context"]
       /\ requests' = requests \union Refused(w, r.msg)
       /\ routes' = (routes \ {r}) \union {q \in {[r EXCEPT !.ahead = Tail(@)]} : q.ahead # <<>>}
  /\ UNCHANGED <<chat, arrived, senderRow, channelRow, cards, decided, granted, collided, crashes>>

\* The error leaves routeInbound: the wirings ahead are not visited.
FanOutThrows(r) ==
  /\ LET w == Head(r.ahead) IN
       /\ (Admitted(w, r.msg) \/ w.ignored = "accumulate") /\ Throws(w, r.msg)
       /\ sessions' = sessions \union {Session(w, r.msg)}
       /\ requests' = requests \union Refused(w, r.msg)
       /\ routes' = routes \ {r}
       /\ collided' = IF Command(r.msg) = "pass" THEN collided \union {r.msg} ELSE collided
  /\ UNCHANGED <<chat, arrived, inbox, senderRow, channelRow, cards, decided, granted, crashes>>

\* A wiring that neither engages nor accumulates.
FanOutSkips(r) ==
  /\ LET w == Head(r.ahead) IN
       /\ ~Admitted(w, r.msg) /\ w.ignored = "drop"
       /\ requests' = requests \union Refused(w, r.msg)
       /\ routes' = (routes \ {r}) \union {q \in {[r EXCEPT !.ahead = Tail(@)]} : q.ahead # <<>>}
  /\ UNCHANGED <<chat, arrived, sessions, inbox, senderRow, channelRow, cards, decided, granted, collided, crashes>>

-----------------------------------------------------------------------------
(* Requests and answers.                                                   *)

\* A press finds a pending row: that of its own card, but any row of the chat
\* for a card that carries the chat's id.
HasRow(c) ==
  \/ c.kind = "sender" /\ senderRow[arrived[c.msg].sender] = [msg |-> c.msg, agent |-> c.agent]
  \/ c.kind = "channel" /\ channelRow # NoRow

\* The request a press of the chat's card decides.
ChatRequest == [kind |-> "channel", msg |-> channelRow.msg, agent |-> channelRow.agent]

\* Mutant of RowFree: the tables have no unique key.
AnyRow(q) == TRUE

\* UNIQUE(messaging_group_id, sender_identity), or the primary key.
RowFree(q) ==
  IF q.kind = "sender" THEN senderRow[arrived[q.msg].sender] = NoRow ELSE channelRow = NoRow

\* An approver and a channel to reach them were found: the row is inserted,
\* then the card is sent, and shown or not.
AskSender(q, shown) ==
  /\ q.kind = "sender" /\ RowFree(q)
  /\ requests' = requests \ {q}
  /\ senderRow' = [senderRow EXCEPT ![arrived[q.msg].sender] = [msg |-> q.msg, agent |-> q.agent]]
  /\ cards' = IF shown THEN cards \union {q} ELSE cards
  /\ UNCHANGED <<chat, arrived, sessions, inbox, routes, channelRow, decided, granted, collided, crashes>>

\* The same for a chat.
AskChannel(q, shown) ==
  /\ q.kind = "channel" /\ RowFree(q)
  /\ requests' = requests \ {q}
  /\ channelRow' = [msg |-> q.msg, agent |-> q.agent]
  /\ cards' = IF shown THEN cards \union {q} ELSE cards
  /\ UNCHANGED <<chat, arrived, sessions, inbox, routes, senderRow, decided, granted, collided, crashes>>

\* Nobody can be reached, or another request was faster and the insert
\* throws.
AskFails(q) ==
  /\ requests' = requests \ {q}
  /\ UNCHANGED <<chat, arrived, sessions, inbox, routes, senderRow, channelRow, cards, decided, granted, collided, crashes>>

\* A press that finds no row, or of somebody who may not decide.  Whatever is
\* decided, the buttons go when the press is edited into the card.
AnswerIgnored(c, edited) ==
  /\ cards' = IF edited THEN cards \ {c} ELSE cards
  /\ UNCHANGED <<chat, arrived, sessions, inbox, routes, requests, senderRow, channelRow, decided, granted, collided, crashes>>

\* Mutant of AllowSender: the message is routed before the member is added.
AllowSenderLate(c, edited) ==
  /\ c.kind = "sender" /\ HasRow(c)
  /\ cards' = IF edited THEN cards \ {c} ELSE cards
  /\ decided' = decided \union {c}
  /\ granted' = granted \union {<<c.msg, c.agent>>}
  /\ senderRow' = [senderRow EXCEPT ![arrived[c.msg].sender] = NoRow]
  /\ routes' = routes \union {[msg |-> c.msg, ahead |-> wired]}
  /\ UNCHANGED <<members, policy, wired, denied, arrived, sessions, inbox, requests, channelRow, collided, crashes>>

\* handleSenderApprovalResponse, approved: the sender becomes a member, the
\* row goes, the message is routed again.
AllowSender(c, edited) ==
  /\ c.kind = "sender" /\ HasRow(c)
  /\ cards' = IF edited THEN cards \ {c} ELSE cards
  /\ decided' = decided \union {c}
  /\ granted' = granted \union {<<c.msg, c.agent>>}
  /\ members' = members \union {<<arrived[c.msg].sender, c.agent>>}
  /\ senderRow' = [senderRow EXCEPT ![arrived[c.msg].sender] = NoRow]
  /\ routes' = routes \union {[msg |-> c.msg, ahead |-> wired]}
  /\ UNCHANGED <<policy, wired, denied, arrived, sessions, inbox, requests, channelRow, collided, crashes>>

\* handleSenderApprovalResponse, denied: nothing is remembered.
DenySender(c, edited) ==
  /\ c.kind = "sender" /\ HasRow(c)
  /\ cards' = IF edited THEN cards \ {c} ELSE cards
  /\ decided' = decided \union {c}
  /\ senderRow' = [senderRow EXCEPT ![arrived[c.msg].sender] = NoRow]
  /\ UNCHANGED <<chat, arrived, sessions, inbox, routes, requests, channelRow, granted, collided, crashes>>

\* handleChannelApprovalResponse, approved: the chat is wired, once.
WireChat(c, edited) ==
  /\ c.kind = "channel" /\ HasRow(c)
  /\ cards' = IF edited THEN cards \ {c} ELSE cards
  /\ \A i \in DOMAIN wired : wired[i].agent # channelRow.agent
  /\ decided' = decided \union {ChatRequest}
  /\ wired' = Append(wired, [agent |-> channelRow.agent, mode |-> "sticky", scope |-> "known", ignored |-> "accumulate"])
  /\ members' = members \union {<<arrived[channelRow.msg].sender, channelRow.agent>>}
  /\ channelRow' = NoRow
  /\ routes' = routes \union {[msg |-> channelRow.msg, ahead |-> wired']}
  /\ UNCHANGED <<policy, denied, arrived, sessions, inbox, requests, senderRow, granted, collided, crashes>>

\* handleChannelApprovalResponse, denied.
DenyChat(c, edited) ==
  /\ c.kind = "channel" /\ HasRow(c)
  /\ cards' = IF edited THEN cards \ {c} ELSE cards
  /\ decided' = decided \union {ChatRequest}
  /\ denied' = TRUE
  /\ channelRow' = NoRow
  /\ UNCHANGED <<policy, wired, members, arrived, sessions, inbox, routes, requests, senderRow, granted, collided, crashes>>

\* Calls of routeInbound and requests live in memory only.
HostCrash ==
  /\ crashes < MaxCrashes
  /\ crashes' = crashes + 1
  /\ routes' = {} /\ requests' = {}
  /\ UNCHANGED <<chat, arrived, sessions, inbox, senderRow, channelRow, cards, decided, granted, collided>>

-----------------------------------------------------------------------------

Init ==
  /\ policy \in Policies
  /\ wired \in InitialWiring
  /\ denied = FALSE
  /\ members = {}
  /\ arrived = <<>>
  /\ sessions = {}
  /\ inbox = [a \in Agents |-> [m \in Messages |-> "none"]]
  /\ routes = {} /\ requests = {}
  /\ senderRow = [s \in Senders |-> NoRow]
  /\ channelRow = NoRow
  /\ cards = {} /\ decided = {} /\ granted = {} /\ collided = {}
  /\ crashes = 0

FanOut(r) == FanOutTo(r) \/ FanOutThrows(r) \/ FanOutSkips(r)

Answer(c, edited) ==
  \/ AnswerIgnored(c, edited)
  \/ AllowSender(c, edited) \/ DenySender(c, edited)
  \/ WireChat(c, edited) \/ DenyChat(c, edited)

Next ==
  \/ \E m \in Messages, x \in Incoming : Arrive(m, x)
  \/ \E r \in routes : FanOut(r)
  \/ \E q \in requests : AskFails(q) \/ \E shown \in BOOLEAN : AskSender(q, shown) \/ AskChannel(q, shown)
  \/ \E c \in cards, edited \in BOOLEAN : Answer(c, edited)
  \/ HostCrash

Spec == Init /\ [][Next]_vars

-----------------------------------------------------------------------------
(* Properties.                                                             *)

TypeOK ==
  /\ policy \in Policies
  /\ wired \in Seq(Wiring)
  /\ denied \in BOOLEAN
  /\ members \in SUBSET (Senders \X Agents)
  /\ DOMAIN arrived \subseteq Messages /\ \A m \in DOMAIN arrived : arrived[m] \in Message
  /\ sessions \in SUBSET (Agents \X Threads)
  /\ inbox \in [Agents -> [Messages -> {"none", "context", "trigger"}]]
  /\ routes \subseteq [msg : Messages, ahead : Seq(Wiring)]
  /\ requests \in SUBSET Request /\ cards \in SUBSET Request /\ decided \in SUBSET Request
  /\ senderRow \in [Senders -> {NoRow} \union [msg : Messages, agent : Agents]]
  /\ channelRow = NoRow \/ channelRow \in [msg : Messages, agent : Agents]
  /\ granted \in SUBSET (Messages \X Agents) /\ collided \in SUBSET Messages
  /\ crashes \in 0..MaxCrashes

\* An agent is woken for a message only if its sender may talk to it, or the
\* chat and the wiring are open to everybody: also when the message is routed
\* again, and when memberships change while it is on its way.
TriggerNeedsAccess ==
  \A a \in Agents, m \in DOMAIN arrived : inbox[a][m] = "trigger" =>
    \/ CanAccess(arrived[m].sender, a)
    \/ policy = "public" /\ \E i \in DOMAIN wired : wired[i].agent = a /\ wired[i].scope = "all"

\* A card that nobody has decided can be decided: its row is there.  The check
\* for a pending row comes long before the insert, and requests overtake each
\* other.
OpenCardHasRow == \A c \in cards \ decided : HasRow(c)

\* The agent a sender was allowed for is woken for the message once its routing
\* has ended, unless the host crashed, the text is a command, or the message met a
\* row of its own: the copy kept as context of the approved agent, or what another
\* agent got of it, ends the replay with an error.
ApprovedNotLost ==
  \A g \in granted :
    (crashes = 0 /\ arrived[g[1]].text = "plain" /\ \A r \in routes : r.msg # g[1])
      => inbox[g[2]][g[1]] = "trigger" \/ g[1] \in collided
=============================================================================
