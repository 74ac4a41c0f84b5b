------------------------------- MODULE Agents -------------------------------
(***************************************************************************)
(* Agents that create other agents and write to them                       *)
(* (modules/agent-to-agent/): the table of destinations, which is routing  *)
(* map and access list in one, its projection into each session, and the   *)
(* names a runner resolves there (destinations.ts, mcp-tools/core.ts).     *)
(*                                                                         *)
(* The host is one thread, but it is not alone: runners read a projection  *)
(* and setup scripts write the central table while create_agent is at its  *)
(* statements one by one, and any of these may throw or be the last before *)
(* a crash.  How a row is drained and how a container is tracked is left   *)
(* to Delivery and Containers.                                             *)
(***************************************************************************)
EXTENDS Naturals, Sequences

CONSTANTS
  Chats,        \* chats to wire to the first agent group, a session for each
  Names,        \* local names that are given to agents and chats
  MaxGroups,    \* bound: agent groups besides the first
  MaxSessions,  \* bound: sessions of all groups
  MaxMessages,  \* bound: messages that chats and agents write
  MaxAttempts,  \* MAX_DELIVERY_ATTEMPTS
  MaxFaults     \* bound: errors, crashes of the host, ends of a runner

ASSUME BoundsAssumption ==
  MaxGroups \in Nat /\ MaxSessions \in Nat /\ MaxMessages \in Nat /\ MaxAttempts \in Nat \ {0} /\ MaxFaults \in Nat
ASSUME NamesAssumption == "parent" \notin Names

VARIABLES
  groups,   \* agent_groups, numbered; the first is 1
  dest,     \* agent_destinations: what a name of a group stands for
  sessions, \* the sessions, in the order of their creation
  proj,     \* the projection of dest in the inbound.db of a session
  inbox,    \* its rows that wait: who they are from
  runner,   \* its runner: down, idle, or whom the open query answers
  out,      \* rows of all messages_out that are not settled
  host,     \* up, and where handleCreateAgent stands
  told,     \* history: agents whose creation a session was told of
  torn,     \* history: groups whose creation was broken off
  left,     \* what is left of MaxMessages
  faults    \* what is left of MaxFaults

centralVars == <<groups, dest, sessions>>
sessionVars == <<proj, inbox, runner>>
vars == <<centralVars, sessionVars, out, host, told, torn, left, faults>>

First == 1
Groups == 1..(MaxGroups + 1)
SessionIds == 1..MaxSessions
AllNames == Names \union {"parent"}

Chat(c) == <<"chat", c>>
Agent(g) == <<"agent", g>>
Nothing == <<"none">>
Targets == {Chat(c) : c \in Chats} \union {Agent(g) : g \in Groups}
NoNames == [n \in AllNames |-> Nothing]

Down == <<"down">>
Idle == <<"idle">>
HostIdle == [phase |-> "idle"]
HostDown == [phase |-> "down"]

GroupOf(s) == sessions[s].group
Known == 1..Len(sessions)
Fault == faults > 0 /\ faults' = faults - 1

-----------------------------------------------------------------------------
(* Sessions *)

\* findSessionForAgent, for a chat; findSessionByAgentGroup, for an agent: the
\* newest session of the group, one of a chat as well as one of its own.
Fitting(g, to) == {s \in Known : GroupOf(s) = g /\ (to[1] = "chat" => sessions[s].chat = to)}
SessionOf(s, g, to) == s \in Fitting(g, to) /\ \A t \in Fitting(g, to) : t <= s

PutIn(s, from) == inbox' = [inbox EXCEPT ![s] = Append(@, from)]

\* resolveSession and writeSessionMessage: the row goes to the session there is,
\* or to a new one.
WriteTo(g, to, from) ==
  \/ \E s \in Known : SessionOf(s, g, to) /\ PutIn(s, from) /\ UNCHANGED sessions
  \/ /\ Fitting(g, to) = {} /\ Len(sessions) + 1 \in SessionIds
     /\ sessions' = Append(sessions, [group |-> g, chat |-> IF to[1] = "chat" THEN to ELSE Nothing])
     /\ PutIn(Len(sessions) + 1, from)

\* A message of a user in a wired chat: routeInbound, in session mode "shared".
UserWrites(c) ==
  /\ host = HostIdle /\ left > 0
  /\ \E n \in Names : dest[First][n] = Chat(c)
  /\ WriteTo(First, Chat(c), Chat(c))
  /\ left' = left - 1
  /\ UNCHANGED <<groups, dest, proj, runner, out, host, told, torn, faults>>

\* Mutant of WireChat: a name that is taken is given again.
WireOver(c, n) ==
  /\ \A m \in Names : dest[First][m] # Chat(c)
  /\ dest' = [dest EXCEPT ![First][n] = Chat(c)]
  /\ UNCHANGED <<groups, sessions, sessionVars, out, host, told, torn, left, faults>>

\* createMessagingGroupAgent gives the group a free name for one more chat: from
\* a setup script, a process of its own, at any point.  No projection is written.
WireChat(c, n) ==
  /\ dest[First][n] = Nothing
  /\ \A m \in Names : dest[First][m] # Chat(c)
  /\ dest' = [dest EXCEPT ![First][n] = Chat(c)]
  /\ UNCHANGED <<groups, sessions, sessionVars, out, host, told, torn, left, faults>>

\* A runner is spawned for a session with rows: the projection is refreshed first.
Spawn(s) ==
  /\ host = HostIdle /\ runner[s] = Down /\ inbox[s] # <<>>
  /\ proj' = [proj EXCEPT ![s] = dest[GroupOf(s)]]
  /\ runner' = [runner EXCEPT ![s] = Idle]
  /\ UNCHANGED <<centralVars, inbox, out, host, told, torn, left, faults>>

-----------------------------------------------------------------------------
(* The runner and its tools *)

Up(s) == runner[s] # Down
Open(s) == runner[s] \notin {Down, Idle}

\* A batch opens a query that answers the sender of its first row; while it is
\* open, rows of anybody are pushed into it.
Take(s) ==
  /\ Up(s) /\ inbox[s] # <<>>
  /\ runner' = [runner EXCEPT ![s] = IF @ = Idle THEN Head(inbox[s]) ELSE @]
  /\ inbox' = [inbox EXCEPT ![s] = <<>>]
  /\ UNCHANGED <<centralVars, proj, out, host, told, torn, left, faults>>

\* Rows of messages_out are numbered by what is left of the bound.
Emit(s, to) ==
  /\ Open(s) /\ left > 0
  /\ out' = out \union {[id |-> left, session |-> s, to |-> to, tries |-> 0]}
  /\ left' = left - 1
  /\ UNCHANGED <<centralVars, sessionVars, host, told, torn, faults>>

\* dispatchResultText: plain text goes back to the sender.
Reply(s) == Emit(s, runner[s])

\* send_message, or a <message> block: a name of the projection; one that is
\* not there is an error, or dropped.
Resolve(s, n) == proj[s][n]
SendTo(s, n) == Resolve(s, n) # Nothing /\ Emit(s, Resolve(s, n))

\* create_agent.
AskForAgent(s, n) == Emit(s, <<"create", n>>)

QueryEnds(s) ==
  /\ Open(s)
  /\ runner' = [runner EXCEPT ![s] = Idle]
  /\ UNCHANGED <<centralVars, proj, inbox, out, host, told, torn, left, faults>>

RunnerEnds(s) ==
  /\ Up(s) /\ Fault
  /\ runner' = [runner EXCEPT ![s] = Down]
  /\ UNCHANGED <<centralVars, proj, inbox, out, host, told, torn, left>>

-----------------------------------------------------------------------------
(* Delivery of messages *)

Settle(r) == out' = out \ {r}

\* An error in a handler: another attempt in a later drain, up to the limit.
Retry(r) ==
  out' = (out \ {r}) \union IF r.tries + 1 < MaxAttempts THEN {[r EXCEPT !.tries = @ + 1]} ELSE {}

\* hasDestination and its like for chats: oneself, the chat of the session, or
\* a row of the central table, whatever the projection says.
Allowed(s, to) ==
  \/ to \in {Agent(GroupOf(s)), sessions[s].chat}
  \/ \E n \in AllNames : dest[GroupOf(s)][n] = to

\* The adapter takes the message.
DeliverToChat(r) ==
  /\ host = HostIdle /\ r.to[1] = "chat" /\ Allowed(r.session, r.to)
  /\ Settle(r)
  /\ UNCHANGED <<centralVars, sessionVars, host, told, torn, left, faults>>

\* deliverMessage and routeAgentMessage throw before anything is written.
Refuse(r) ==
  /\ host = HostIdle /\ r.to[1] \in {"chat", "agent"} /\ ~Allowed(r.session, r.to)
  /\ Retry(r)
  /\ UNCHANGED <<centralVars, sessionVars, host, told, torn, left, faults>>

\* routeAgentMessage: the row is written, then the wake is awaited; when it
\* throws, the attempt counts as failed and the row is written again.
RouteAgentMessage(r) ==
  /\ host = HostIdle /\ r.to[1] = "agent" /\ Allowed(r.session, r.to) /\ r.to[2] \in groups
  /\ WriteTo(r.to[2], r.to, Agent(GroupOf(r.session)))
  /\ \/ Settle(r) /\ UNCHANGED faults
     \/ Retry(r) /\ Fault
  /\ UNCHANGED <<groups, dest, proj, runner, host, told, torn, left>>

-----------------------------------------------------------------------------
(* handleCreateAgent: one synchronous function, several statements *)

At(phase, then) == host.phase = phase /\ host' = [host EXCEPT !.phase = then]
Creator == GroupOf(host.row.session)
Name == host.row.to[2]
NameFree == dest[Creator][Name] = Nothing

\* notifyAgent: a row from the group to itself.
Note(s) == PutIn(s, Agent(GroupOf(s)))

\* The next number, standing for an id nobody has.
Fresh(g) == g \notin groups /\ g - 1 \in groups

\* getDestinationByName: a name that is taken is refused with a note.
CreateAgent(r) ==
  /\ host = HostIdle /\ r.to[1] = "create"
  /\ IF dest[GroupOf(r.session)][r.to[2]] # Nothing
     THEN Settle(r) /\ Note(r.session) /\ UNCHANGED host
     ELSE /\ \E g \in Groups : Fresh(g) /\ host' = [phase |-> "named", row |-> r, child |-> g]
          /\ UNCHANGED <<out, inbox>>
  /\ UNCHANGED <<centralVars, proj, runner, told, torn, left, faults>>

\* createAgentGroup and initGroupFilesystem, under a folder nobody has.
CreateGroup ==
  /\ At("named", "created")
  /\ groups' = groups \union {host.child}
  /\ UNCHANGED <<dest, sessions, sessionVars, out, told, torn, left, faults>>

\* The creator's name for the child ...
GrantChild ==
  /\ At("created", "granted")
  /\ NameFree
  /\ dest' = [dest EXCEPT ![Creator][Name] = Agent(host.child)]
  /\ UNCHANGED <<groups, sessions, sessionVars, out, told, torn, left, faults>>

\* Mutant of GrantParent: the row is inserted for the creator again.
GrantNobody ==
  /\ At("granted", "paired")
  /\ UNCHANGED <<centralVars, sessionVars, out, told, torn, left, faults>>

\* ... and the child's for its creator.
GrantParent ==
  /\ At("granted", "paired")
  /\ dest' = [dest EXCEPT ![host.child]["parent"] = Agent(Creator)]
  /\ UNCHANGED <<groups, sessions, sessionVars, out, told, torn, left, faults>>

\* Mutant of Project: writeDestinations is left to the next wake.
ProjectLater ==
  /\ At("paired", "projected")
  /\ UNCHANGED <<centralVars, sessionVars, out, told, torn, left, faults>>

\* writeDestinations, for the session that asked and no other.
Project ==
  /\ At("paired", "projected")
  /\ proj' = [proj EXCEPT ![host.row.session] = dest[Creator]]
  /\ UNCHANGED <<centralVars, inbox, runner, out, told, torn, left, faults>>

\* The creator is told; the row is recorded.
TellCreator ==
  /\ host.phase = "projected" /\ host' = HostIdle
  /\ Note(host.row.session)
  /\ told' = told \union {<<host.row.session, Name, host.child>>}
  /\ Settle(host.row)
  /\ UNCHANGED <<centralVars, proj, runner, torn, left, faults>>

Creating == host.phase \notin {"idle", "down"}
BrokenOff == torn' = torn \union ({host.child} \intersect groups)

\* A statement throws: one of them because setup took the name meanwhile.
CreateThrows ==
  /\ Creating
  /\ \/ host.phase = "created" /\ ~NameFree /\ UNCHANGED faults
     \/ Fault
  /\ BrokenOff
  /\ Retry(host.row)
  /\ host' = HostIdle
  /\ UNCHANGED <<centralVars, sessionVars, told, left>>

\* The count of attempts dies with the host.
HostCrash ==
  /\ host # HostDown /\ Fault
  /\ IF Creating THEN BrokenOff ELSE UNCHANGED torn
  /\ host' = HostDown
  /\ out' = {[r EXCEPT !.tries = 0] : r \in out}
  /\ UNCHANGED <<centralVars, sessionVars, told, left>>

\* cleanupOrphans.
HostStart ==
  /\ host = HostDown
  /\ host' = HostIdle
  /\ runner' = [s \in SessionIds |-> Down]
  /\ UNCHANGED <<centralVars, proj, inbox, out, told, torn, left, faults>>

-----------------------------------------------------------------------------
Init ==
  /\ groups = {First}
  /\ dest = [g \in Groups |-> NoNames]
  /\ sessions = <<>>
  /\ proj = [s \in SessionIds |-> NoNames]
  /\ inbox = [s \in SessionIds |-> <<>>]
  /\ runner = [s \in SessionIds |-> Down]
  /\ out = {} /\ host = HostIdle
  /\ told = {} /\ torn = {}
  /\ left = MaxMessages /\ faults = MaxFaults

RunnerStep(s) ==
  \/ Spawn(s) \/ Take(s) \/ Reply(s) \/ QueryEnds(s) \/ RunnerEnds(s)
  \/ \E n \in AllNames : SendTo(s, n)
  \/ \E n \in Names : AskForAgent(s, n)

DeliveryStep(r) == DeliverToChat(r) \/ Refuse(r) \/ RouteAgentMessage(r) \/ CreateAgent(r)

CreationStep == CreateGroup \/ GrantChild \/ GrantParent \/ Project \/ TellCreator \/ CreateThrows

Next ==
  \/ \E c \in Chats : UserWrites(c) \/ \E n \in Names : WireChat(c, n)
  \/ \E s \in Known : RunnerStep(s)
  \/ \E r \in out : DeliveryStep(r)
  \/ CreationStep
  \/ HostCrash \/ HostStart

Spec == Init /\ [][Next]_vars

-----------------------------------------------------------------------------
(* Properties *)

Destinations == [AllNames -> Targets \union {Nothing}]
Session == [group : Groups, chat : {Chat(c) : c \in Chats} \union {Nothing}]
Row == [id : Nat, session : SessionIds, to : Targets \union {<<"create", n>> : n \in Names},
        tries : Nat]
Creation == [phase : {"named", "created", "granted", "paired", "projected"}, row : Row, child : Groups]

TypeOK ==
  /\ groups \subseteq Groups
  /\ dest \in [Groups -> Destinations]
  /\ sessions \in Seq(Session) /\ Known \subseteq SessionIds
  /\ proj \in [SessionIds -> Destinations]
  /\ inbox \in [SessionIds -> Seq(Targets)]
  /\ runner \in [SessionIds -> Targets \union {Down, Idle}]
  /\ out \subseteq Row
  /\ \A r \in out : r.session \in Known
  /\ \/ host \in {HostIdle, HostDown}
     \/ host \in Creation /\ host.row.session \in Known /\ host.row.to[1] = "create"
  /\ told \subseteq SessionIds \X Names \X Groups /\ torn \subseteq groups
  /\ left \in Nat /\ faults \in Nat

\* db/agent-destinations.ts: a session that is told an agent was created can
\* use it: the name resolves to it there and then, messages are let through,
\* and the child has a name for its creator.
CreatedIsUsable ==
  \A t \in told :
    LET s == t[1] IN
    /\ Resolve(s, t[2]) = Agent(t[3])
    /\ Allowed(s, Agent(t[3]))
    /\ dest[t[3]]["parent"] = Agent(GroupOf(s))

\* destinations.ts: a projection that is stale is only behind. A name never
\* comes to mean something else, so what an agent says by an old projection
\* still goes where it means.
StaleIsOnlyBehind ==
  \A s \in Known, n \in AllNames : proj[s][n] \in {Nothing, dest[GroupOf(s)][n]}

Correspondents(s) == {runner[s]} \union {inbox[s][k] : k \in DOMAIN inbox[s]}

\* An agent that is written to may write back, as long as its own creation was
\* not broken off between the two grants.
AnswerIsAllowed ==
  \A s \in Known :
    \A from \in Correspondents(s) :
      from[1] = "agent" => Allowed(s, from) \/ GroupOf(s) \in torn
=============================================================================
