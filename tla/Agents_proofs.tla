----------------------------- MODULE Agents_proofs -----------------------------
(***************************************************************************)
(* What Agents guarantees for any chats, names, groups, sessions, messages *)
(* and faults.                                                             *)
(***************************************************************************)
EXTENDS Agents, TLAPS

-----------------------------------------------------------------------------
(* Types *)

\* A row is added to one inbox.
LEMMA TypeOfPutIn ==
  ASSUME TypeOK, NEW s \in SessionIds, NEW from \in Targets, PutIn(s, from)
  PROVE  inbox' \in [SessionIds -> Seq(Targets)]
<1>1. inbox[s] \in Seq(Targets)
  BY DEF TypeOK
<1>2. Append(inbox[s], from) \in Seq(Targets)
  BY <1>1
<1> QED
  BY <1>2 DEF PutIn, TypeOK

\* The row goes to a session that is known by then.
LEMMA TypeOfWriteTo ==
  ASSUME TypeOK, NEW g \in Groups, NEW to \in Targets, NEW from \in Targets, WriteTo(g, to, from)
  PROVE  /\ sessions' \in Seq(Session) /\ Known' \subseteq SessionIds /\ Known \subseteq Known'
         /\ \A s \in Known : sessions'[s] = sessions[s]
         /\ inbox' \in [SessionIds -> Seq(Targets)]
<1> DEFINE new == [group |-> g, chat |-> IF to[1] = "chat" THEN to ELSE Nothing]
<1>1. CASE \E s \in Known : SessionOf(s, g, to) /\ PutIn(s, from) /\ UNCHANGED sessions
  BY <1>1, TypeOfPutIn DEF TypeOK, Known
<1>2. CASE /\ Len(sessions) + 1 \in SessionIds /\ sessions' = Append(sessions, new)
           /\ PutIn(Len(sessions) + 1, from)
  <2>1. new \in Session
    BY DEF Session, Targets, Chat, Agent
  <2>2. sessions \in Seq(Session) /\ Known \subseteq SessionIds
    BY DEF TypeOK
  <2> HIDE DEF new
  <2>3. /\ sessions' \in Seq(Session) /\ Known' = Known \union {Len(sessions) + 1}
        /\ \A s \in Known : sessions'[s] = sessions[s]
    BY <1>2, <2>1, <2>2 DEF Known
  <2> QED
    BY <1>2, <2>2, <2>3, TypeOfPutIn
<1> QED
  BY <1>1, <1>2 DEF WriteTo

\* What is known of the sender of a row.
LEMMA TypeOfRow ==
  ASSUME TypeOK, NEW r \in out
  PROVE  /\ r \in Row /\ r.session \in Known /\ r.session \in SessionIds
         /\ GroupOf(r.session) \in Groups /\ Agent(GroupOf(r.session)) \in Targets
<1>1. r \in Row /\ r.session \in Known /\ r.session \in SessionIds
  BY DEF TypeOK
<1>2. sessions[r.session] \in Session
  BY <1>1 DEF TypeOK, Known
<1> QED
  BY <1>1, <1>2 DEF GroupOf, Session, Targets

\* A row that is tried again is the same but for the count.
LEMMA TypeOfRetry ==
  ASSUME TypeOK, NEW r \in Row, r.session \in Known, Retry(r)
  PROVE  out' \subseteq Row /\ \A q \in out' : q.session \in Known
<1>1. [r EXCEPT !.tries = @ + 1] \in Row /\ [r EXCEPT !.tries = @ + 1].session \in Known
  BY DEF Row
<1> QED
  BY <1>1 DEF Retry, TypeOK

LEMMA TypeOfTools ==
  ASSUME TypeOK, NEW s \in Known, RunnerStep(s)
  PROVE  TypeOK'
<1>a. s \in SessionIds
  BY DEF TypeOK
<1>b. ASSUME NEW to \in Targets \union {<<"create", n>> : n \in Names}, Emit(s, to)
      PROVE  TypeOK'
  <2>1. [id |-> left, session |-> s, to |-> to, tries |-> 0] \in Row
    BY <1>a, <1>b DEF TypeOK, Row
  <2>2. out' \subseteq Row /\ \A r \in out' : r.session \in Known
    BY <2>1, <1>b DEF Emit, TypeOK
  <2>3. left' \in Nat
    BY <1>b DEF Emit, TypeOK
  <2> QED
    BY <1>b, <2>2, <2>3 DEF Emit, TypeOK, centralVars, sessionVars, Known
<1>1. CASE Spawn(s)
  <2>1. sessions[s] \in Session
    BY DEF TypeOK, Known
  <2>2. dest[GroupOf(s)] \in Destinations
    BY <2>1 DEF TypeOK, GroupOf, Session
  <2> QED
    BY <1>1, <1>a, <2>2 DEF Spawn, TypeOK, centralVars, Known
<1>2. CASE Take(s)
  <2>1. inbox[s] \in Seq(Targets) /\ inbox[s] # <<>>
    BY <1>a, <1>2 DEF Take, TypeOK
  <2>2. Head(inbox[s]) \in Targets
    BY <2>1
  <2>3. runner' \in [SessionIds -> Targets \union {Down, Idle}] /\ inbox' \in [SessionIds -> Seq(Targets)]
    BY <1>a, <1>2, <2>2 DEF Take, TypeOK
  <2> QED
    BY <1>2, <2>3 DEF Take, TypeOK, centralVars, Known
<1>3. CASE Reply(s)
  BY <1>3, <1>a, <1>b DEF Reply, TypeOK, Emit, Open
<1>4. CASE QueryEnds(s)
  BY <1>4, <1>a DEF QueryEnds, TypeOK, centralVars, Known
<1>5. CASE RunnerEnds(s)
  BY <1>5, <1>a DEF RunnerEnds, TypeOK, centralVars, Known, Fault
<1>6. CASE \E n \in AllNames : SendTo(s, n)
  <2>1. PICK n \in AllNames : SendTo(s, n)
    BY <1>6
  <2>2. proj[s][n] \in Targets
    BY <1>a, <2>1 DEF SendTo, Resolve, TypeOK, Destinations
  <2> QED
    BY <2>1, <2>2, <1>b DEF SendTo, Resolve
<1>7. CASE \E n \in Names : AskForAgent(s, n)
  BY <1>7, <1>b DEF AskForAgent
<1> QED
  BY <1>1, <1>2, <1>3, <1>4, <1>5, <1>6, <1>7 DEF RunnerStep

LEMMA TypeOfDelivery ==
  ASSUME TypeOK, NEW r \in out, DeliveryStep(r)
  PROVE  TypeOK'
<1>a. /\ r \in Row /\ r.session \in Known /\ r.session \in SessionIds
      /\ GroupOf(r.session) \in Groups /\ Agent(GroupOf(r.session)) \in Targets
  BY TypeOfRow
<1>b. ASSUME Settle(r) \/ Retry(r)
      PROVE  out' \subseteq Row /\ \A q \in out' : q.session \in Known
  BY <1>a, <1>b, TypeOfRetry DEF Settle, TypeOK
<1>1. CASE DeliverToChat(r) \/ Refuse(r)
  BY <1>1, <1>b DEF DeliverToChat, Refuse, TypeOK, centralVars, sessionVars, Known
<1>2. CASE RouteAgentMessage(r)
  <2>1. r.to \in Targets /\ r.to[2] \in Groups
    BY <1>2, <1>a DEF RouteAgentMessage, Row, TypeOK
  <2>2. /\ sessions' \in Seq(Session) /\ Known' \subseteq SessionIds /\ Known \subseteq Known'
        /\ inbox' \in [SessionIds -> Seq(Targets)]
    BY <1>2, <1>a, <2>1, TypeOfWriteTo DEF RouteAgentMessage
  <2>3. out' \subseteq Row /\ \A q \in out' : q.session \in Known
    BY <1>2, <1>b DEF RouteAgentMessage
  <2>4. faults' \in Nat
    BY <1>2 DEF RouteAgentMessage, Fault, TypeOK
  <2> QED
    BY <1>2, <2>2, <2>3, <2>4 DEF RouteAgentMessage, TypeOK
<1>3. CASE CreateAgent(r)
  <2>1. CASE Settle(r) /\ Note(r.session) /\ UNCHANGED host
    <3>1. inbox' \in [SessionIds -> Seq(Targets)]
      BY <2>1, <1>a, TypeOfPutIn DEF Note
    <3> QED
      BY <1>3, <1>b, <2>1, <3>1 DEF CreateAgent, TypeOK, centralVars, Known
  <2>2. CASE /\ \E g \in Groups : Fresh(g) /\ host' = [phase |-> "named", row |-> r, child |-> g]
             /\ UNCHANGED <<out, inbox>>
    <3>1. host' \in Creation /\ host'.row = r
      BY <2>2, <1>a DEF Creation
    <3>2. r.to[1] = "create"
      BY <1>3 DEF CreateAgent
    <3> QED
      BY <1>3, <1>a, <2>2, <3>1, <3>2 DEF CreateAgent, TypeOK, centralVars, Known
  <2> QED
    BY <1>3, <2>1, <2>2 DEF CreateAgent
<1> QED
  BY <1>1, <1>2, <1>3 DEF DeliveryStep

\* What handleCreateAgent has at hand.
LEMMA TypeOfCreation ==
  ASSUME TypeOK, Creating
  PROVE  /\ host \in Creation /\ host.child \in Groups /\ host.row \in Row
         /\ host.row.session \in Known /\ host.row.session \in SessionIds
         /\ Creator \in Groups /\ Name \in Names
<1>1. host \in Creation /\ host.row.session \in Known /\ host.row.to[1] = "create"
  BY DEF TypeOK, Creating, HostIdle, HostDown
<1>2. host.child \in Groups /\ host.row \in Row
  BY <1>1 DEF Creation
<1>3. host.row.session \in SessionIds /\ Name \in Names
  BY <1>1, <1>2 DEF Row, Targets, Chat, Agent, Name
<1>4. sessions[host.row.session] \in Session
  BY <1>1 DEF TypeOK, Known
<1>5. Creator \in Groups
  BY <1>4 DEF Session, Creator, GroupOf
<1> QED
  BY <1>1, <1>2, <1>3, <1>5

LEMMA TypeOfCreationSteps ==
  ASSUME TypeOK, Creating, CreationStep
  PROVE  TypeOK'
<1>a. /\ host \in Creation /\ host.child \in Groups /\ host.row \in Row
      /\ host.row.session \in Known /\ host.row.session \in SessionIds
      /\ Creator \in Groups /\ Name \in Names /\ host.row.to[1] = "create"
  BY TypeOfCreation DEF TypeOK, Creating, HostIdle, HostDown
<1>b. ASSUME NEW p \in {"created", "granted", "paired", "projected"}, host' = [host EXCEPT !.phase = p]
      PROVE  host' \in Creation /\ host'.row = host.row
  BY <1>a, <1>b DEF Creation
<1>1. CASE CreateGroup
  BY <1>1, <1>a, <1>b DEF CreateGroup, At, TypeOK, sessionVars, Known
<1>2. CASE GrantChild
  <2>1. dest' \in [Groups -> Destinations]
    BY <1>2, <1>a DEF GrantChild, TypeOK, Destinations, AllNames, Targets
  <2> QED
    BY <1>2, <1>a, <1>b, <2>1 DEF GrantChild, At, TypeOK, sessionVars, Known
<1>3. CASE GrantParent
  <2>1. dest' \in [Groups -> Destinations]
    BY <1>3, <1>a DEF GrantParent, TypeOK, Destinations, AllNames, Targets
  <2> QED
    BY <1>3, <1>a, <1>b, <2>1 DEF GrantParent, At, TypeOK, sessionVars, Known
<1>4. CASE Project
  <2>1. proj' \in [SessionIds -> Destinations]
    BY <1>4, <1>a DEF Project, TypeOK
  <2> QED
    BY <1>4, <1>a, <1>b, <2>1 DEF Project, At, TypeOK, centralVars, Known
<1>5. CASE TellCreator
  <2>1. Agent(GroupOf(host.row.session)) \in Targets
    BY <1>a DEF Creator, Targets
  <2>2. inbox' \in [SessionIds -> Seq(Targets)]
    BY <1>5, <1>a, <2>1, TypeOfPutIn DEF TellCreator, Note
  <2>3. told' \subseteq SessionIds \X Names \X Groups
    BY <1>5, <1>a DEF TellCreator, TypeOK
  <2> QED
    BY <1>5, <2>2, <2>3 DEF TellCreator, Settle, TypeOK, centralVars, Known
<1>6. CASE CreateThrows
  <2>1. out' \subseteq Row /\ \A q \in out' : q.session \in Known
    BY <1>6, <1>a, TypeOfRetry DEF CreateThrows
  <2>2. torn' \subseteq groups /\ faults' \in Nat
    BY <1>6 DEF CreateThrows, BrokenOff, Fault, TypeOK
  <2> QED
    BY <1>6, <2>1, <2>2 DEF CreateThrows, TypeOK, centralVars, sessionVars, Known
<1> QED
  BY <1>1, <1>2, <1>3, <1>4, <1>5, <1>6 DEF CreationStep

LEMMA TypeStep ==
  ASSUME TypeOK, [Next]_vars
  PROVE  TypeOK'
<1>1. CASE \E c \in Chats : UserWrites(c)
  <2>1. PICK c \in Chats : UserWrites(c)
    BY <1>1
  <2>2. First \in Groups /\ Chat(c) \in Targets
    BY BoundsAssumption DEF First, Groups, Targets
  <2>3. /\ sessions' \in Seq(Session) /\ Known' \subseteq SessionIds /\ Known \subseteq Known'
        /\ inbox' \in [SessionIds -> Seq(Targets)]
    BY <2>1, <2>2, TypeOfWriteTo DEF UserWrites
  <2> QED
    BY <2>1, <2>3 DEF UserWrites, TypeOK
<1>2. CASE \E c \in Chats, n \in Names : WireChat(c, n)
  <2>1. PICK c \in Chats, n \in Names : WireChat(c, n)
    BY <1>2
  <2>2. First \in Groups /\ Chat(c) \in Targets
    BY BoundsAssumption DEF First, Groups, Targets
  <2>3. dest' \in [Groups -> Destinations]
    BY <2>1, <2>2 DEF WireChat, TypeOK, Destinations, AllNames
  <2> QED
    BY <2>1, <2>3 DEF WireChat, TypeOK, sessionVars, Known
<1>3. CASE \E s \in Known : RunnerStep(s)
  BY <1>3, TypeOfTools
<1>4. CASE \E r \in out : DeliveryStep(r)
  BY <1>4, TypeOfDelivery
<1>5. CASE CreationStep
  <2>1. Creating
    BY <1>5 DEF CreationStep, CreateGroup, GrantChild, GrantParent, Project, TellCreator,
                CreateThrows, At, Creating
  <2> QED
    BY <1>5, <2>1, TypeOfCreationSteps
<1>6. CASE HostCrash
  <2>1. \A r \in out : [r EXCEPT !.tries = 0] \in Row /\ [r EXCEPT !.tries = 0].session = r.session
    BY DEF TypeOK, Row
  <2>2. out' \subseteq Row /\ \A r \in out' : r.session \in Known
    BY <1>6, <2>1 DEF HostCrash, TypeOK
  <2>3. torn' \subseteq groups /\ faults' \in Nat
    BY <1>6 DEF HostCrash, BrokenOff, Fault, TypeOK
  <2> QED
    BY <1>6, <2>2, <2>3 DEF HostCrash, TypeOK, centralVars, sessionVars, Known
<1>7. CASE HostStart
  BY <1>7 DEF HostStart, TypeOK, centralVars, Known
<1>8. CASE UNCHANGED vars
  BY <1>8 DEF vars, TypeOK, centralVars, sessionVars, Known
<1> QED
  BY <1>1, <1>2, <1>3, <1>4, <1>5, <1>6, <1>7, <1>8 DEF Next

LEMMA TypeInit == Init => TypeOK
<1> SUFFICES ASSUME Init PROVE TypeOK
  OBVIOUS
<1>1. NoNames \in Destinations
  BY DEF NoNames, Destinations
<1>2. First \in Groups
  BY BoundsAssumption DEF First, Groups
<1>3. sessions \in Seq(Session) /\ Known = {}
  BY DEF Init, Known
<1> QED
  BY <1>1, <1>2, <1>3, BoundsAssumption DEF Init, TypeOK

\* Every variable keeps its type, whatever steps interleave.
THEOREM TypeCorrect == Spec => []TypeOK
<1> QED
  BY TypeInit, TypeStep, PTL DEF Spec

-----------------------------------------------------------------------------
(* The inductive invariant *)

\* Nothing has happened in a session that is still to come.
Untouched ==
  \A s \in SessionIds \ Known : proj[s] = NoNames /\ inbox[s] = <<>> /\ runner[s] = Down

\* Sessions belong to groups that exist.
GroupsExist ==
  First \in groups /\ \A s \in Known : GroupOf(s) \in groups

\* The name "parent" is free in a group until its creation gives it: GrantParent
\* takes nothing away.
ParentFree ==
  \A g \in Groups :
    g \notin groups \/ (host.phase \in {"created", "granted"} /\ host.child = g) =>
      dest[g]["parent"] = Nothing

\* What handleCreateAgent has done by each of its statements.
Done ==
  /\ host.phase = "named" => host.child \notin groups
  /\ host.phase \in {"created", "granted", "paired", "projected"} => host.child \in groups
  /\ host.phase \in {"granted", "paired", "projected"} => dest[Creator][Name] = Agent(host.child)
  /\ host.phase \in {"paired", "projected"} => dest[host.child]["parent"] = Agent(Creator)
  /\ host.phase = "projected" => Resolve(host.row.session, Name) = Agent(host.child)

\* What a session was told is so in the central table too, which never changes.
ToldIsGranted ==
  \A t \in told :
    /\ t[1] \in Known
    /\ Resolve(t[1], t[2]) = Agent(t[3])
    /\ dest[GroupOf(t[1])][t[2]] = Agent(t[3])
    /\ dest[t[3]]["parent"] = Agent(GroupOf(t[1]))

\* Grants between agents are mutual, but for a group whose creation was broken
\* off and for the one that is half way.
Mutual ==
  \A a, g \in Groups : \A n \in AllNames :
    dest[a][n] = Agent(g) =>
      \/ g \in torn
      \/ \E m \in AllNames : dest[g][m] = Agent(a)
      \/ host.phase = "granted" /\ host.child = g /\ Creator = a

AgentsInvariant ==
  /\ TypeOK /\ Untouched /\ GroupsExist /\ ParentFree /\ Done
  /\ ToldIsGranted /\ Mutual /\ StaleIsOnlyBehind /\ AnswerIsAllowed

-----------------------------------------------------------------------------
(* Steps *)

\* A step that settles rows and lets runners take up what they were sent.
Quiet ==
  /\ UNCHANGED <<centralVars, proj, host, told, torn>>
  /\ \A s \in SessionIds :
       /\ Correspondents(s)' \subseteq Correspondents(s) \union {Down, Idle}
       /\ s \notin Known => inbox'[s] = inbox[s] /\ runner'[s] = runner[s]

LEMMA Steps ==
  ASSUME TypeOK, [Next]_vars
  PROVE  \/ Quiet
         \/ \E c \in Chats : UserWrites(c)
         \/ \E c \in Chats, n \in Names : WireChat(c, n)
         \/ \E s \in Known : Spawn(s)
         \/ \E r \in out : RouteAgentMessage(r) \/ CreateAgent(r)
         \/ CreationStep \/ HostCrash \/ HostStart
<1>1. ASSUME UNCHANGED <<centralVars, proj, host, told, torn, inbox, runner>>
      PROVE  Quiet
  BY <1>1 DEF Quiet, Correspondents
<1>2. ASSUME NEW s \in Known, RunnerStep(s)
      PROVE  Spawn(s) \/ Quiet
  <2>0. s \in SessionIds
    BY DEF TypeOK
  <2>1. CASE Take(s)
    <3>1. inbox[s] \in Seq(Targets) /\ inbox[s] # <<>>
      BY <2>0, <2>1 DEF Take, TypeOK
    <3>2. 1 \in DOMAIN inbox[s] /\ Head(inbox[s]) = inbox[s][1]
      BY <3>1
    <3>3. runner'[s] \in Correspondents(s) /\ inbox'[s] = <<>>
      BY <2>0, <2>1, <3>2 DEF Take, Correspondents, TypeOK
    <3>4. \A t \in SessionIds : t # s => inbox'[t] = inbox[t] /\ runner'[t] = runner[t]
      BY <2>1 DEF Take, TypeOK
    <3>5. \A t \in SessionIds : Correspondents(t)' \subseteq Correspondents(t)
      BY <3>3, <3>4 DEF Correspondents
    <3> QED
      BY <2>1, <3>4, <3>5 DEF Take, Quiet
  <2>2. CASE QueryEnds(s) \/ RunnerEnds(s)
    BY <2>0, <2>2 DEF QueryEnds, RunnerEnds, Quiet, Correspondents, TypeOK
  <2>3. CASE Reply(s) \/ (\E n \in AllNames : SendTo(s, n)) \/ (\E n \in Names : AskForAgent(s, n))
    BY <2>3, <1>1 DEF Reply, SendTo, AskForAgent, Emit, sessionVars
  <2> QED
    BY <1>2, <2>1, <2>2, <2>3 DEF RunnerStep
<1>3. ASSUME NEW r \in out, DeliverToChat(r) \/ Refuse(r)
      PROVE  Quiet
  BY <1>3, <1>1 DEF DeliverToChat, Refuse, sessionVars
<1>4. ASSUME UNCHANGED vars
      PROVE  Quiet
  BY <1>4, <1>1 DEF vars, sessionVars
<1> QED
  BY <1>2, <1>3, <1>4 DEF Next, DeliveryStep

\* A row is put into the inbox of s: nobody else's correspondents change.
LEMMA CorrespondentsOfPutIn ==
  ASSUME TypeOK, NEW s \in SessionIds, NEW from, PutIn(s, from), UNCHANGED runner
  PROVE  /\ Correspondents(s)' \subseteq Correspondents(s) \union {from}
         /\ \A t \in SessionIds : t # s => inbox'[t] = inbox[t] /\ Correspondents(t)' = Correspondents(t)
<1>1. inbox[s] \in Seq(Targets) /\ inbox'[s] = Append(inbox[s], from)
  BY DEF TypeOK, PutIn
<1>2. \A k \in DOMAIN inbox'[s] :
        \/ k \in DOMAIN inbox[s] /\ inbox'[s][k] = inbox[s][k]
        \/ inbox'[s][k] = from
  BY <1>1
<1>3. \A t \in SessionIds : t # s => inbox'[t] = inbox[t]
  BY DEF TypeOK, PutIn
<1> QED
  BY <1>2, <1>3 DEF Correspondents

\* No step takes a grant away or gives a name to somebody else; no session moves.
LEMMA GrantsKept ==
  ASSUME AgentsInvariant, [Next]_vars
  PROVE  /\ \A g \in Groups, n \in AllNames : dest[g][n] # Nothing => dest'[g][n] = dest[g][n]
         /\ Known \subseteq Known' /\ \A s \in Known : sessions'[s] = sessions[s]
         /\ groups \subseteq groups' /\ torn \subseteq torn'
<1>t. TypeOK
  BY DEF AgentsInvariant
<1>1. CASE Quiet
  BY <1>1 DEF Quiet, centralVars, Known
<1>2. CASE \E c \in Chats : UserWrites(c)
  <2>1. PICK c \in Chats : UserWrites(c)
    BY <1>2
  <2>2. First \in Groups /\ Chat(c) \in Targets
    BY BoundsAssumption DEF First, Groups, Targets
  <2> QED
    BY <2>1, <2>2, <1>t, TypeOfWriteTo DEF UserWrites
<1>3. CASE \E c \in Chats, n \in Names : WireChat(c, n)
  BY <1>3, <1>t DEF WireChat, Known, TypeOK, Destinations
<1>4. CASE \E s \in Known : Spawn(s)
  BY <1>4 DEF Spawn, centralVars, Known
<1>5. CASE \E r \in out : RouteAgentMessage(r)
  <2>1. PICK r \in out : RouteAgentMessage(r)
    BY <1>5
  <2>2. r.to \in Targets /\ r.to[2] \in Groups /\ Agent(GroupOf(r.session)) \in Targets
    BY <2>1, <1>t, TypeOfRow DEF RouteAgentMessage, Row, TypeOK
  <2> QED
    BY <2>1, <2>2, <1>t, TypeOfWriteTo DEF RouteAgentMessage
<1>6. CASE \E r \in out : CreateAgent(r)
  BY <1>6 DEF CreateAgent, centralVars, Known
<1>7. CASE CreationStep
  <2>0. Creating
    BY <1>7 DEF CreationStep, CreateGroup, GrantChild, GrantParent, Project, TellCreator,
                CreateThrows, At, Creating
  <2>1. host.child \in Groups /\ Creator \in Groups /\ Name \in Names
    BY <1>t, <2>0, TypeOfCreation
  <2>2. CASE GrantChild
    BY <2>2, <2>1, <1>t DEF GrantChild, NameFree, TypeOK, Destinations, AllNames, Known
  <2>3. CASE GrantParent
    <3>1. dest[host.child]["parent"] = Nothing
      BY <2>3, <2>1 DEF AgentsInvariant, ParentFree, GrantParent, At
    <3> QED
      BY <2>3, <2>1, <3>1, <1>t DEF GrantParent, TypeOK, Destinations, AllNames, Known
  <2>4. CASE CreateGroup \/ Project \/ TellCreator \/ CreateThrows
    BY <2>4 DEF CreateGroup, Project, TellCreator, CreateThrows, BrokenOff, centralVars, Known
  <2> QED
    BY <1>7, <2>2, <2>3, <2>4 DEF CreationStep
<1>8. CASE HostCrash \/ HostStart
  BY <1>8 DEF HostCrash, HostStart, BrokenOff, centralVars, Known
<1> QED
  BY <1>t, <1>1, <1>2, <1>3, <1>4, <1>5, <1>6, <1>7, <1>8, Steps

\* A row for an agent: who gets it.
LEMMA RouteWrites ==
  ASSUME AgentsInvariant, NEW r \in out, RouteAgentMessage(r)
  PROVE  /\ r.to \in Targets /\ r.to = Agent(r.to[2]) /\ r.to[2] \in groups /\ r.to[2] \in Groups
         /\ GroupOf(r.session) \in Groups /\ Agent(GroupOf(r.session)) \in Targets
         /\ WriteTo(r.to[2], r.to, Agent(GroupOf(r.session)))
<1>1. TypeOK
  BY DEF AgentsInvariant
<1>2. /\ r \in Row /\ GroupOf(r.session) \in Groups /\ Agent(GroupOf(r.session)) \in Targets
  BY <1>1, TypeOfRow
<1>3. r.to[1] = "agent" /\ r.to[2] \in groups /\ r.to \in Targets
  BY <1>2 DEF RouteAgentMessage, Row
<1>4. r.to = Agent(r.to[2])
  BY <1>3 DEF Targets, Chat, Agent
<1> QED
  BY <1>1, <1>2, <1>3, <1>4 DEF RouteAgentMessage, TypeOK

\* A row is written to one session, which belongs to the group that is meant.
LEMMA WriteGoesTo ==
  ASSUME TypeOK, NEW g \in Groups, NEW to \in Targets, NEW from \in Targets, WriteTo(g, to, from)
  PROVE  \E s \in SessionIds :
           /\ s \in Known' /\ sessions'[s].group = g /\ PutIn(s, from)
           /\ Known' = Known \union {s}
<1>1. CASE \E s \in Known : SessionOf(s, g, to) /\ PutIn(s, from) /\ UNCHANGED sessions
  BY <1>1 DEF SessionOf, Fitting, GroupOf, Known, TypeOK
<1>2. CASE /\ Len(sessions) + 1 \in SessionIds
           /\ sessions' = Append(sessions, [group |-> g, chat |-> IF to[1] = "chat" THEN to ELSE Nothing])
           /\ PutIn(Len(sessions) + 1, from)
  <2> DEFINE new == [group |-> g, chat |-> IF to[1] = "chat" THEN to ELSE Nothing]
             s == Len(sessions) + 1
  <2>1. sessions \in Seq(Session) /\ new.group = g
    BY DEF TypeOK
  <2>2. sessions' = Append(sessions, new) /\ new \in Session
    BY <1>2 DEF Session, Targets, Chat, Agent
  <2> HIDE DEF new
  <2>3. Len(sessions') = s /\ sessions'[s] = new
    BY <2>1, <2>2
  <2>4. Known' = Known \union {s} /\ s \in Known'
    BY <2>1, <2>3 DEF Known
  <2> QED
    BY <1>2, <2>1, <2>3, <2>4
<1> QED
  BY <1>1, <1>2 DEF WriteTo

LEMMA UntouchedStep ==
  ASSUME AgentsInvariant, [Next]_vars
  PROVE  Untouched'
<1>t. TypeOK /\ Untouched
  BY DEF AgentsInvariant
<1>k. Known \subseteq Known'
  BY GrantsKept
<1>w. ASSUME NEW g \in Groups, NEW to \in Targets, NEW from \in Targets, WriteTo(g, to, from),
             UNCHANGED <<proj, runner>>
      PROVE  Untouched'
  <2>1. PICK s \in SessionIds : s \in Known' /\ PutIn(s, from)
    BY <1>w, <1>t, WriteGoesTo
  <2> QED
    BY <1>w, <1>t, <1>k, <2>1 DEF PutIn, Untouched, TypeOK
<1>n. ASSUME NEW s \in Known, Note(s), UNCHANGED <<proj, runner, sessions>>
      PROVE  Untouched'
  BY <1>n, <1>t, <1>k DEF Note, PutIn, Untouched, TypeOK
<1>1. CASE Quiet
  BY <1>1, <1>t, <1>k DEF Quiet, Untouched, centralVars
<1>2. CASE \E c \in Chats : UserWrites(c)
  <2>1. First \in Groups /\ \A c \in Chats : Chat(c) \in Targets
    BY BoundsAssumption DEF First, Groups, Targets
  <2> QED
    BY <1>2, <1>w, <2>1 DEF UserWrites
<1>3. CASE \E c \in Chats, n \in Names : WireChat(c, n)
  BY <1>3, <1>t DEF WireChat, Untouched, sessionVars, Known
<1>4. CASE \E s \in Known : Spawn(s)
  BY <1>4, <1>t DEF Spawn, Untouched, centralVars, Known, TypeOK
<1>5. CASE \E r \in out : RouteAgentMessage(r)
  BY <1>5, <1>w, RouteWrites DEF RouteAgentMessage
<1>6. CASE \E r \in out : CreateAgent(r)
  <2>1. PICK r \in out : CreateAgent(r)
    BY <1>6
  <2>2. r.session \in Known
    BY <1>t DEF TypeOK
  <2>3. CASE UNCHANGED inbox
    BY <1>t, <2>1, <2>3 DEF CreateAgent, Untouched, centralVars, Known
  <2> QED
    BY <2>1, <2>2, <2>3, <1>n DEF CreateAgent, centralVars
<1>7. CASE CreationStep
  <2>1. CASE CreateGroup \/ GrantChild \/ GrantParent \/ CreateThrows
    BY <2>1, <1>t DEF CreateGroup, GrantChild, GrantParent, CreateThrows, Untouched, centralVars,
                      sessionVars, Known
  <2>2. CASE Project
    <3>1. host.row.session \in Known
      BY <2>2, <1>t, TypeOfCreation DEF Project, At, Creating
    <3> QED
      BY <2>2, <3>1, <1>t DEF Project, Untouched, centralVars, Known, TypeOK
  <2>3. CASE TellCreator
    <3>1. host.row.session \in Known
      BY <2>3, <1>t, TypeOfCreation DEF TellCreator, Creating
    <3> QED
      BY <2>3, <3>1, <1>n DEF TellCreator, centralVars
  <2> QED
    BY <1>7, <2>1, <2>2, <2>3 DEF CreationStep
<1>8. CASE HostCrash \/ HostStart
  BY <1>8, <1>t DEF HostCrash, HostStart, Untouched, centralVars, sessionVars, Known
<1> QED
  BY <1>t, <1>1, <1>2, <1>3, <1>4, <1>5, <1>6, <1>7, <1>8, Steps

LEMMA GroupsExistStep ==
  ASSUME AgentsInvariant, [Next]_vars
  PROVE  GroupsExist'
<1>t. TypeOK /\ GroupsExist
  BY DEF AgentsInvariant
<1>k. groups \subseteq groups' /\ \A s \in Known : sessions'[s] = sessions[s]
  BY GrantsKept
<1>e. ASSUME UNCHANGED sessions
      PROVE  GroupsExist'
  BY <1>e, <1>t, <1>k DEF GroupsExist, GroupOf, Known
<1>w. ASSUME NEW g \in Groups, NEW to \in Targets, NEW from \in Targets, WriteTo(g, to, from),
             g \in groups
      PROVE  GroupsExist'
  <2>1. PICK s \in SessionIds : sessions'[s].group = g /\ Known' = Known \union {s}
    BY <1>w, <1>t, WriteGoesTo
  <2> QED
    BY <1>w, <1>t, <1>k, <2>1 DEF GroupsExist, GroupOf
<1>2. CASE \E c \in Chats : UserWrites(c)
  <2>1. First \in Groups /\ \A c \in Chats : Chat(c) \in Targets
    BY BoundsAssumption DEF First, Groups, Targets
  <2> QED
    BY <1>2, <1>w, <1>t, <2>1 DEF UserWrites, GroupsExist
<1>5. CASE \E r \in out : RouteAgentMessage(r)
  BY <1>5, <1>w, RouteWrites
<1> QED
  BY <1>t, <1>2, <1>5, <1>e, Steps
     DEF Quiet, WireChat, Spawn, CreateAgent, CreationStep, CreateGroup, GrantChild, GrantParent,
         Project, TellCreator, CreateThrows, HostCrash, HostStart, centralVars

LEMMA ParentFreeStep ==
  ASSUME AgentsInvariant, [Next]_vars
  PROVE  ParentFree'
<1>t. TypeOK /\ ParentFree /\ Done /\ GroupsExist
  BY DEF AgentsInvariant
<1>e. ASSUME UNCHANGED <<groups, dest>>, host'.phase \notin {"created", "granted"}
      PROVE  ParentFree'
  BY <1>e, <1>t DEF ParentFree
<1>1. CASE Quiet
  BY <1>1, <1>t DEF Quiet, ParentFree, centralVars
<1>2. CASE \E c \in Chats : UserWrites(c)
  BY <1>2, <1>t DEF UserWrites, ParentFree
<1>3. CASE \E c \in Chats, n \in Names : WireChat(c, n)
  BY <1>3, <1>t, NamesAssumption DEF WireChat, ParentFree, TypeOK, Destinations
<1>4. CASE \E s \in Known : Spawn(s)
  BY <1>4, <1>t DEF Spawn, ParentFree, centralVars
<1>5. CASE \E r \in out : RouteAgentMessage(r)
  BY <1>5, <1>t DEF RouteAgentMessage, ParentFree
<1>6. CASE \E r \in out : CreateAgent(r)
  BY <1>6, <1>e DEF CreateAgent, centralVars, HostIdle
<1>7. CASE CreationStep
  <2>0. Creating
    BY <1>7 DEF CreationStep, CreateGroup, GrantChild, GrantParent, Project, TellCreator,
                CreateThrows, At, Creating
  <2>1. /\ host \in Creation /\ host.child \in Groups /\ Creator \in Groups /\ Name \in Names
    BY <1>t, <2>0, TypeOfCreation
  <2>2. CASE CreateGroup
    <3>1. host'.child = host.child /\ groups' = groups \union {host.child} /\ dest' = dest
      BY <2>2, <2>1 DEF CreateGroup, At, Creation
    <3>2. dest[host.child]["parent"] = Nothing
      BY <2>2, <2>1, <1>t DEF CreateGroup, At, ParentFree, Done
    <3> QED
      BY <3>1, <3>2, <1>t DEF ParentFree
  <2>3. CASE GrantChild
    <3>1. host'.child = host.child /\ host.phase = "created" /\ groups' = groups
      BY <2>3, <2>1 DEF GrantChild, At, Creation
    <3>2. \A g \in Groups : dest'[g]["parent"] = dest[g]["parent"]
      BY <2>3, <2>1, <1>t, NamesAssumption DEF GrantChild, TypeOK, Destinations
    <3> QED
      BY <3>1, <3>2, <1>t DEF ParentFree
  <2>4. CASE GrantParent
    <3>1. host'.phase = "paired" /\ groups' = groups /\ host.child \in groups
      BY <2>4, <2>1, <1>t DEF GrantParent, At, Creation, Done
    <3>2. \A g \in Groups : g # host.child => dest'[g]["parent"] = dest[g]["parent"]
      BY <2>4, <2>1, <1>t DEF GrantParent, TypeOK, Destinations
    <3> QED
      BY <3>1, <3>2, <1>t DEF ParentFree
  <2>5. CASE Project \/ TellCreator \/ CreateThrows
    BY <2>5, <2>1, <1>e DEF Project, At, TellCreator, CreateThrows, centralVars, Creation, HostIdle
  <2> QED
    BY <1>7, <2>2, <2>3, <2>4, <2>5 DEF CreationStep
<1>8. CASE HostCrash \/ HostStart
  BY <1>8, <1>e DEF HostCrash, HostStart, centralVars, HostIdle, HostDown
<1> QED
  BY <1>t, <1>1, <1>2, <1>3, <1>4, <1>5, <1>6, <1>7, <1>8, Steps

LEMMA DoneStep ==
  ASSUME AgentsInvariant, [Next]_vars
  PROVE  Done'
<1>t. TypeOK /\ Done
  BY DEF AgentsInvariant
<1>k. /\ \A g \in Groups, n \in AllNames : dest[g][n] # Nothing => dest'[g][n] = dest[g][n]
      /\ \A s \in Known : sessions'[s] = sessions[s]
      /\ groups \subseteq groups'
  BY GrantsKept
<1>i. ASSUME host' \in {HostIdle, HostDown}
      PROVE  Done'
  BY <1>i DEF Done, HostIdle, HostDown
\* Where the host stays where it is, only grants are added.
<1>s. ASSUME UNCHANGED <<host, groups>>, \A s \in SessionIds : proj'[s] = proj[s] \/ host = HostIdle
      PROVE  Done'
  <2>1. CASE host \in {HostIdle, HostDown}
    BY <1>s, <1>i, <2>1
  <2>2. CASE host \notin {HostIdle, HostDown}
    <3>0. Creating
      BY <2>2, <1>t DEF TypeOK, Creating, Creation
    <3>1. /\ host.child \in Groups /\ host.row.session \in Known /\ host.row.session \in SessionIds
          /\ Creator \in Groups /\ Name \in Names
      BY <1>t, <3>0, TypeOfCreation
    <3>2. Creator' = Creator /\ Name' = Name /\ proj'[host.row.session] = proj[host.row.session]
      BY <1>s, <1>k, <2>2, <3>1 DEF Creator, Name, GroupOf
    <3>3. "parent" \in AllNames /\ Name \in AllNames /\ Agent(host.child) # Nothing /\ Agent(Creator) # Nothing
      BY <3>1 DEF AllNames, Agent, Nothing
    <3> QED
      BY <1>s, <1>t, <1>k, <3>1, <3>2, <3>3 DEF Done, Resolve
  <2> QED
    BY <2>1, <2>2
<1>1. CASE Quiet
  BY <1>1, <1>s DEF Quiet, centralVars
<1>2. CASE \E c \in Chats : UserWrites(c)
  BY <1>2, <1>s DEF UserWrites
<1>3. CASE \E c \in Chats, n \in Names : WireChat(c, n)
  BY <1>3, <1>s DEF WireChat, sessionVars
<1>4. CASE \E s \in Known : Spawn(s)
  BY <1>4, <1>s DEF Spawn, centralVars
<1>5. CASE \E r \in out : RouteAgentMessage(r)
  BY <1>5, <1>s DEF RouteAgentMessage
<1>6. CASE \E r \in out : CreateAgent(r)
  <2>1. PICK r \in out : CreateAgent(r)
    BY <1>6
  <2>2. CASE UNCHANGED host
    BY <2>1, <2>2, <1>s DEF CreateAgent, centralVars
  <2>3. CASE \E g \in Groups : Fresh(g) /\ host' = [phase |-> "named", row |-> r, child |-> g]
    BY <2>1, <2>3 DEF CreateAgent, centralVars, Fresh, Done
  <2> QED
    BY <2>1, <2>2, <2>3 DEF CreateAgent
<1>7. CASE CreationStep
  <2>0. Creating
    BY <1>7 DEF CreationStep, CreateGroup, GrantChild, GrantParent, Project, TellCreator,
                CreateThrows, At, Creating
  <2>1. /\ host \in Creation /\ host.child \in Groups /\ host.row.session \in Known
        /\ host.row.session \in SessionIds /\ Creator \in Groups /\ Name \in Names
    BY <1>t, <2>0, TypeOfCreation
  <2>2. ASSUME NEW p \in {"created", "granted", "paired", "projected"}, host' = [host EXCEPT !.phase = p],
               UNCHANGED sessions
        PROVE  host'.phase = p /\ host'.child = host.child /\ host'.row = host.row /\ Creator' = Creator /\ Name' = Name
    BY <2>1, <2>2 DEF Creation, Creator, Name, GroupOf
  <2>3. Name \in AllNames /\ "parent" \in AllNames
    BY <2>1 DEF AllNames
  <2>4. CASE CreateGroup
    BY <2>4, <2>2 DEF CreateGroup, At, Done
  <2>5. CASE GrantChild
    <3>1. dest'[Creator][Name] = Agent(host.child)
      BY <2>5, <2>1, <2>3, <1>t DEF GrantChild, TypeOK, Destinations
    <3> QED
      BY <2>5, <2>2, <3>1, <1>t DEF GrantChild, At, Done
  <2>6. CASE GrantParent
    <3>1. dest'[host.child]["parent"] = Agent(Creator)
      BY <2>6, <2>1, <2>3, <1>t DEF GrantParent, TypeOK, Destinations
    <3>2. dest[Creator][Name] = Agent(host.child) /\ Agent(host.child) # Nothing
      BY <2>6, <1>t DEF GrantParent, At, Done, Agent, Nothing
    <3> QED
      BY <2>6, <2>1, <2>2, <2>3, <3>1, <3>2, <1>t, <1>k DEF GrantParent, At, Done
  <2>7. CASE Project
    <3>1. proj'[host.row.session] = dest[Creator]
      BY <2>7, <2>1, <1>t DEF Project, TypeOK
    <3> QED
      BY <2>7, <2>2, <3>1, <1>t DEF Project, At, Done, Resolve, centralVars
  <2>8. CASE TellCreator \/ CreateThrows
    BY <2>8, <1>i DEF TellCreator, CreateThrows
  <2> QED
    BY <1>7, <2>4, <2>5, <2>6, <2>7, <2>8 DEF CreationStep
<1>8. CASE HostCrash \/ HostStart
  BY <1>8, <1>i DEF HostCrash, HostStart
<1> QED
  BY <1>t, <1>1, <1>2, <1>3, <1>4, <1>5, <1>6, <1>7, <1>8, Steps

\* A projection is written from the table as it is.
LEMMA ProjectionStep ==
  ASSUME AgentsInvariant, [Next]_vars
  PROVE  \A s \in SessionIds :
           \/ proj'[s] = proj[s]
           \/ s \in Known /\ proj'[s] = dest[GroupOf(s)] /\ dest' = dest
<1>t. TypeOK
  BY DEF AgentsInvariant
<1>1. CASE \E s \in Known : Spawn(s)
  BY <1>1, <1>t DEF Spawn, TypeOK, centralVars
<1>2. CASE CreationStep
  <2>1. CASE Project
    <3>1. host.row.session \in Known
      BY <2>1, <1>t, TypeOfCreation DEF Project, At, Creating
    <3> QED
      BY <2>1, <3>1, <1>t DEF Project, TypeOK, centralVars, Creator
  <2> QED
    BY <1>2, <2>1 DEF CreationStep, CreateGroup, GrantChild, GrantParent, TellCreator, CreateThrows, sessionVars
<1> QED
  BY <1>t, <1>1, <1>2, Steps
     DEF Quiet, UserWrites, WireChat, RouteAgentMessage, CreateAgent, HostCrash, HostStart, sessionVars

LEMMA StaleStep ==
  ASSUME AgentsInvariant, [Next]_vars, TypeOK'
  PROVE  StaleIsOnlyBehind'
<1>1. TypeOK /\ Untouched /\ StaleIsOnlyBehind
  BY DEF AgentsInvariant
<1>2. /\ \A g \in Groups, n \in AllNames : dest[g][n] # Nothing => dest'[g][n] = dest[g][n]
      /\ \A s \in Known : sessions'[s] = sessions[s]
  BY GrantsKept
<1>3. SUFFICES ASSUME NEW s \in Known', NEW n \in AllNames
               PROVE  proj'[s][n] \in {Nothing, dest'[GroupOf(s)'][n]}
  BY DEF StaleIsOnlyBehind
<1>4. s \in SessionIds
  BY <1>3 DEF TypeOK
<1>5. CASE s \in Known
  <2>1. GroupOf(s)' = GroupOf(s)
    BY <1>2, <1>5 DEF GroupOf
  <2>2. GroupOf(s) \in Groups
    <3>1. sessions[s] \in Session
      BY <1>1, <1>5 DEF TypeOK, Known
    <3> QED
      BY <3>1 DEF Session, GroupOf
  <2>3. proj[s][n] \in {Nothing, dest[GroupOf(s)][n]}
    BY <1>1, <1>5 DEF StaleIsOnlyBehind
  <2> QED
    BY <1>2, <1>4, <2>1, <2>2, <2>3, ProjectionStep
<1>6. CASE s \notin Known
  BY <1>1, <1>4, <1>6, ProjectionStep DEF Untouched, NoNames
<1> QED
  BY <1>5, <1>6

LEMMA GroupOfKnown ==
  ASSUME TypeOK, NEW s \in Known
  PROVE  GroupOf(s) \in Groups /\ s \in SessionIds
<1>1. s \in SessionIds
  BY DEF TypeOK
<1>2. sessions[s] \in Session
  BY DEF TypeOK, Known
<1> QED
  BY <1>1, <1>2 DEF Session, GroupOf

LEMMA ToldStep ==
  ASSUME AgentsInvariant, [Next]_vars
  PROVE  ToldIsGranted'
<1>t. TypeOK /\ ToldIsGranted /\ Done
  BY DEF AgentsInvariant
<1>k. /\ \A g \in Groups, n \in AllNames : dest[g][n] # Nothing => dest'[g][n] = dest[g][n]
      /\ Known \subseteq Known' /\ \A s \in Known : sessions'[s] = sessions[s]
  BY GrantsKept
\* What holds of a session, a name and a child goes on holding.
<1>1. ASSUME NEW s \in Known, NEW n \in Names, NEW g \in Groups,
             proj[s][n] = Agent(g), dest[GroupOf(s)][n] = Agent(g), dest[g]["parent"] = Agent(GroupOf(s))
      PROVE  /\ s \in Known' /\ proj'[s][n] = Agent(g) /\ dest'[sessions'[s].group][n] = Agent(g)
             /\ dest'[g]["parent"] = Agent(sessions'[s].group)
  <2>1. sessions'[s].group = GroupOf(s) /\ s \in Known'
    BY <1>k DEF GroupOf
  <2>2. GroupOf(s) \in Groups /\ s \in SessionIds
    BY <1>t, GroupOfKnown
  <2>3. n \in AllNames /\ "parent" \in AllNames /\ Agent(g) # Nothing /\ Agent(GroupOf(s)) # Nothing
    BY DEF AllNames, Agent, Nothing
  <2>4. dest'[GroupOf(s)][n] = Agent(g) /\ dest'[g]["parent"] = Agent(GroupOf(s))
    BY <1>1, <1>k, <2>2, <2>3
  <2>5. proj'[s][n] = Agent(g)
    BY <1>1, <2>2, <2>4, ProjectionStep
  <2> QED
    BY <2>1, <2>4, <2>5
<1>2. told' = told \/ (TellCreator /\ told' = told \union {<<host.row.session, Name, host.child>>})
  BY <1>t, Steps DEF Quiet, UserWrites, WireChat, Spawn, RouteAgentMessage, CreateAgent, CreationStep, CreateGroup,
     GrantChild, GrantParent, Project, TellCreator, CreateThrows, HostCrash, HostStart
<1>3. ASSUME NEW t, t[1] \in Known, t[2] \in Names, t[3] \in Groups,
             proj[t[1]][t[2]] = Agent(t[3]), dest[GroupOf(t[1])][t[2]] = Agent(t[3]),
             dest[t[3]]["parent"] = Agent(GroupOf(t[1]))
      PROVE  /\ t[1] \in Known' /\ proj'[t[1]][t[2]] = Agent(t[3])
             /\ dest'[sessions'[t[1]].group][t[2]] = Agent(t[3])
             /\ dest'[t[3]]["parent"] = Agent(sessions'[t[1]].group)
  BY <1>1, <1>3
<1>4. \A t \in told : /\ t[1] \in Known' /\ proj'[t[1]][t[2]] = Agent(t[3])
                      /\ dest'[sessions'[t[1]].group][t[2]] = Agent(t[3])
                      /\ dest'[t[3]]["parent"] = Agent(sessions'[t[1]].group)
  <2> SUFFICES ASSUME NEW t \in told
               PROVE  /\ t[1] \in Known' /\ proj'[t[1]][t[2]] = Agent(t[3])
                      /\ dest'[sessions'[t[1]].group][t[2]] = Agent(t[3])
                      /\ dest'[t[3]]["parent"] = Agent(sessions'[t[1]].group)
    OBVIOUS
  <2>1. t[1] \in Known /\ t[2] \in Names /\ t[3] \in Groups
    BY <1>t DEF TypeOK, ToldIsGranted
  <2>2. /\ proj[t[1]][t[2]] = Agent(t[3]) /\ dest[GroupOf(t[1])][t[2]] = Agent(t[3])
        /\ dest[t[3]]["parent"] = Agent(GroupOf(t[1]))
    BY <1>t DEF ToldIsGranted, Resolve
  <2> QED
    BY <1>3, <2>1, <2>2
<1>5. CASE told' = told
  BY <1>4, <1>5 DEF ToldIsGranted, Resolve, GroupOf
<1>6. CASE TellCreator /\ told' = told \union {<<host.row.session, Name, host.child>>}
  <2>1. PICK t : t = <<host.row.session, Name, host.child>>
    OBVIOUS
  <2>2. t[1] = host.row.session /\ t[2] = Name /\ t[3] = host.child
    BY <2>1
  <2>3. t[1] \in Known /\ t[2] \in Names /\ t[3] \in Groups
    BY <1>6, <1>t, <2>2, TypeOfCreation DEF TellCreator, Creating
  <2>4. /\ proj[t[1]][t[2]] = Agent(t[3]) /\ dest[GroupOf(t[1])][t[2]] = Agent(t[3])
        /\ dest[t[3]]["parent"] = Agent(GroupOf(t[1]))
    BY <1>6, <1>t, <2>2 DEF TellCreator, Done, Resolve, Creator
  <2>5. /\ t[1] \in Known' /\ proj'[t[1]][t[2]] = Agent(t[3])
        /\ dest'[sessions'[t[1]].group][t[2]] = Agent(t[3])
        /\ dest'[t[3]]["parent"] = Agent(sessions'[t[1]].group)
    BY <1>3, <2>3, <2>4
  <2>6. \A u \in told' : u \in told \/ u = t
    BY <1>6, <2>1
  <2> QED
    BY <1>4, <2>5, <2>6 DEF ToldIsGranted, Resolve, GroupOf
<1> QED
  BY <1>2, <1>5, <1>6

LEMMA MutualStep ==
  ASSUME AgentsInvariant, [Next]_vars
  PROVE  Mutual'
<1>t. TypeOK /\ Done /\ Mutual
  BY DEF AgentsInvariant
<1>k. /\ \A g \in Groups, n \in AllNames : dest[g][n] # Nothing => dest'[g][n] = dest[g][n]
      /\ torn \subseteq torn' /\ \A s \in Known : sessions'[s] = sessions[s]
  BY GrantsKept
<1>a. \A a \in Groups : Agent(a) # Nothing
  BY DEF Agent, Nothing
\* A grant that is mutual stays so.
<1>m. ASSUME NEW a \in Groups, NEW g \in Groups, g \in torn \/ \E m \in AllNames : dest[g][m] = Agent(a)
      PROVE  g \in torn' \/ \E m \in AllNames : dest'[g][m] = Agent(a)
  BY <1>m, <1>k, <1>a
\* No grant to an agent is added; a group that was half way still is, or is torn.
<1>n. ASSUME \A a, g \in Groups : \A n \in AllNames : dest'[a][n] = Agent(g) => dest[a][n] = Agent(g),
             host.phase = "granted" => (host' = host /\ Creator' = Creator) \/ host.child \in torn'
      PROVE  Mutual'
  BY <1>n, <1>m, <1>t DEF Mutual
<1>c. Creating => host.row.session \in Known
  BY <1>t, TypeOfCreation
<1>d. Creating /\ host' = host => Creator' = Creator
  BY <1>c, <1>k DEF Creator, GroupOf
<1>e. host.phase = "granted" => Creating
  BY DEF Creating
<1>1. CASE Quiet
  BY <1>1, <1>n, <1>d, <1>e DEF Quiet, centralVars
<1>2. CASE \E c \in Chats : UserWrites(c)
  BY <1>2, <1>n, <1>d, <1>e DEF UserWrites
<1>3. CASE \E c \in Chats, n \in Names : WireChat(c, n)
  <2>1. PICK c \in Chats, n \in Names : WireChat(c, n)
    BY <1>3
  <2>2. \A g \in Groups : Chat(c) # Agent(g)
    BY DEF Chat, Agent
  <2>3. \A a, g \in Groups : \A m \in AllNames : dest'[a][m] = Agent(g) => dest[a][m] = Agent(g)
    BY <2>1, <2>2, <1>t DEF WireChat, TypeOK, Destinations
  <2> QED
    BY <2>1, <2>3, <1>n, <1>d, <1>e DEF WireChat
<1>4. CASE \E s \in Known : Spawn(s)
  BY <1>4, <1>n, <1>d, <1>e DEF Spawn, centralVars
<1>5. CASE \E r \in out : RouteAgentMessage(r)
  BY <1>5, <1>n, <1>d, <1>e DEF RouteAgentMessage
<1>6. CASE \E r \in out : CreateAgent(r)
  BY <1>6, <1>n DEF CreateAgent, centralVars, HostIdle
<1>7. CASE CreationStep
  <2>0. Creating
    BY <1>7 DEF CreationStep, CreateGroup, GrantChild, GrantParent, Project, TellCreator,
                CreateThrows, At, Creating
  <2>1. /\ host \in Creation /\ host.child \in Groups /\ Creator \in Groups /\ Name \in Names
    BY <1>t, <2>0, TypeOfCreation
  <2>2. Name \in AllNames /\ "parent" \in AllNames
    BY <2>1 DEF AllNames
  <2>3. CASE GrantChild
    <3>1. host'.phase = "granted" /\ host'.child = host.child /\ Creator' = Creator /\ host.phase = "created"
      BY <2>3, <2>1 DEF GrantChild, At, Creation, Creator, GroupOf
    <3>2. \A a, g \in Groups : \A n \in AllNames :
            dest'[a][n] = Agent(g) => dest[a][n] = Agent(g) \/ (a = Creator /\ g = host.child)
      BY <2>3, <2>1, <2>2, <1>t DEF GrantChild, TypeOK, Destinations, Agent
    <3> QED
      BY <3>1, <3>2, <1>m, <1>t DEF Mutual
  <2>4. CASE GrantParent
    <3>1. host'.phase = "paired" /\ host.phase = "granted"
      BY <2>4, <2>1 DEF GrantParent, At, Creation
    <3>2. \A a, g \in Groups : \A n \in AllNames :
            dest'[a][n] = Agent(g) => dest[a][n] = Agent(g) \/ (a = host.child /\ g = Creator)
      BY <2>4, <2>1, <2>2, <1>t DEF GrantParent, TypeOK, Destinations, Agent
    <3>3. dest[Creator][Name] = Agent(host.child)
      BY <3>1, <1>t DEF Done
    <3>4. dest'[Creator][Name] = Agent(host.child)
      BY <3>3, <1>k, <1>a, <2>1, <2>2
    <3>5. dest'[host.child]["parent"] = Agent(Creator)
      BY <2>4, <2>1, <2>2, <1>t DEF GrantParent, TypeOK, Destinations
    <3> QED
      BY <3>1, <3>2, <3>4, <3>5, <2>1, <2>2, <1>m, <1>t DEF Mutual
  <2>5. CASE CreateGroup \/ Project \/ TellCreator
    BY <2>5, <1>n DEF CreateGroup, Project, TellCreator, At, centralVars
  <2>6. CASE CreateThrows
    <3>1. host.phase = "granted" => host.child \in torn'
      BY <2>6, <1>t DEF CreateThrows, BrokenOff, Done
    <3> QED
      BY <2>6, <3>1, <1>n DEF CreateThrows, centralVars
  <2> QED
    BY <1>7, <2>3, <2>4, <2>5, <2>6 DEF CreationStep
<1>8. CASE HostCrash
  <2>1. host.phase = "granted" => host.child \in torn'
    BY <1>8, <1>t, <1>e DEF HostCrash, BrokenOff, Done
  <2> QED
    BY <1>8, <2>1, <1>n DEF HostCrash, centralVars
<1>9. CASE HostStart
  BY <1>9, <1>n DEF HostStart, centralVars, HostDown
<1> QED
  BY <1>t, <1>1, <1>2, <1>3, <1>4, <1>5, <1>6, <1>7, <1>8, <1>9, Steps

\* A correspondent one may write to stays one: grants are kept.
LEMMA AllowedKept ==
  ASSUME AgentsInvariant, [Next]_vars, NEW s \in Known, NEW from,
         from[1] = "agent", Allowed(s, from) \/ GroupOf(s) \in torn
  PROVE  from \in {Agent(sessions'[s].group), sessions'[s].chat}
           \/ (\E n \in AllNames : dest'[sessions'[s].group][n] = from) \/ sessions'[s].group \in torn'
<1>t. TypeOK
  BY DEF AgentsInvariant
<1>k. /\ \A g \in Groups, n \in AllNames : dest[g][n] # Nothing => dest'[g][n] = dest[g][n]
      /\ torn \subseteq torn' /\ sessions'[s] = sessions[s]
  BY GrantsKept
<1>1. GroupOf(s) \in Groups
  BY <1>t, GroupOfKnown
<1>2. from # Nothing
  BY DEF Nothing
<1> QED
  BY <1>k, <1>1, <1>2 DEF Allowed, GroupOf

LEMMA AnswerStep ==
  ASSUME AgentsInvariant, [Next]_vars
  PROVE  AnswerIsAllowed'
<1>t. TypeOK /\ Untouched /\ Mutual /\ AnswerIsAllowed
  BY DEF AgentsInvariant
<1>d. Down[1] # "agent" /\ Idle[1] # "agent"
  BY DEF Down, Idle
\* It is enough that every newcomer may be written to.
<1>s. ASSUME Known' \subseteq SessionIds,
             \A s \in Known' : \A from \in Correspondents(s)' :
               \/ s \in Known /\ from \in Correspondents(s)
               \/ from[1] # "agent" \/ from = Agent(sessions'[s].group)
               \/ (\E n \in AllNames : dest'[sessions'[s].group][n] = from)
               \/ sessions'[s].group \in torn'
      PROVE  AnswerIsAllowed'
  <2>1. SUFFICES ASSUME NEW s \in Known', NEW from \in Correspondents(s)', from[1] = "agent"
                 PROVE  Allowed(s, from)' \/ GroupOf(s)' \in torn'
    BY DEF AnswerIsAllowed
  <2>2. CASE s \in Known /\ from \in Correspondents(s)
    <3>1. Allowed(s, from) \/ GroupOf(s) \in torn
      BY <1>t, <2>1, <2>2 DEF AnswerIsAllowed
    <3> QED
      BY <2>1, <2>2, <3>1, AllowedKept DEF Allowed, GroupOf
  <2> QED
    BY <1>s, <2>1, <2>2 DEF Allowed, GroupOf
<1>q. ASSUME Known' = Known, \A s \in Known : Correspondents(s)' \subseteq Correspondents(s) \union {Down, Idle}
      PROVE  AnswerIsAllowed'
  BY <1>q, <1>s, <1>d, <1>t DEF TypeOK
<1>w. ASSUME NEW g \in Groups, NEW to \in Targets, NEW from \in Targets, WriteTo(g, to, from),
             UNCHANGED <<runner, dest, torn>>,
             from[1] = "agent" => from = Agent(g) \/ (\E n \in AllNames : dest[g][n] = from) \/ g \in torn
      PROVE  AnswerIsAllowed'
  <2>1. PICK s \in SessionIds : s \in Known' /\ sessions'[s].group = g /\ PutIn(s, from)
                                /\ Known' = Known \union {s}
    BY <1>w, <1>t, WriteGoesTo
  <2>2. /\ Correspondents(s)' \subseteq Correspondents(s) \union {from}
        /\ \A t \in SessionIds : t # s => Correspondents(t)' = Correspondents(t)
    BY <1>w, <1>t, <2>1, CorrespondentsOfPutIn
  <2>3. s \notin Known => Correspondents(s) = {Down}
    BY <1>t DEF Untouched, Correspondents
  <2>4. Known' \subseteq SessionIds
    BY <2>1, <1>t DEF TypeOK
  <2>5. ASSUME NEW t \in Known', NEW f \in Correspondents(t)'
        PROVE  \/ t \in Known /\ f \in Correspondents(t)
               \/ f[1] # "agent" \/ f = Agent(sessions'[t].group)
               \/ (\E n \in AllNames : dest'[sessions'[t].group][n] = f)
               \/ sessions'[t].group \in torn'
    <3>1. CASE t # s
      BY <3>1, <2>1, <2>2, <2>4, <2>5
    <3>2. CASE t = s /\ f = from
      BY <3>2, <2>1, <1>w
    <3>3. CASE t = s /\ f # from
      BY <3>3, <2>2, <2>3, <2>5, <1>d
    <3> QED
      BY <3>1, <3>2, <3>3
  <2> QED
    BY <1>s, <2>4, <2>5
<1>n. ASSUME NEW s \in Known, Note(s), UNCHANGED <<runner, dest, torn, sessions>>
      PROVE  AnswerIsAllowed'
  <2>1. s \in SessionIds
    BY <1>t DEF TypeOK
  <2>2. /\ Correspondents(s)' \subseteq Correspondents(s) \union {Agent(GroupOf(s))}
        /\ \A t \in SessionIds : t # s => Correspondents(t)' = Correspondents(t)
    BY <1>n, <1>t, <2>1, CorrespondentsOfPutIn DEF Note
  <2>3. Known' = Known /\ Known \subseteq SessionIds /\ sessions' = sessions
    BY <1>n, <1>t DEF Known, TypeOK
  <2> QED
    BY <1>s, <2>1, <2>2, <2>3 DEF GroupOf
<1>r. ASSUME UNCHANGED <<sessions, inbox, runner>>
      PROVE  AnswerIsAllowed'
  BY <1>r, <1>q DEF Known, Correspondents
<1>1. CASE Quiet
  BY <1>1, <1>q, <1>t DEF Quiet, centralVars, Known, TypeOK
<1>2. CASE \E c \in Chats : UserWrites(c)
  <2>1. First \in Groups /\ \A c \in Chats : Chat(c) \in Targets /\ Chat(c)[1] # "agent"
    BY BoundsAssumption DEF First, Groups, Targets, Chat
  <2> QED
    BY <1>2, <1>w, <2>1 DEF UserWrites
<1>3. CASE \E c \in Chats, n \in Names : WireChat(c, n)
  BY <1>3, <1>r DEF WireChat, sessionVars
<1>4. CASE \E s \in Known : Spawn(s)
  <2>1. PICK s \in Known : Spawn(s)
    BY <1>4
  <2>2. Known' = Known /\ \A t \in Known : inbox'[t] = inbox[t] /\ runner'[t] \in {runner[t], Idle}
    BY <2>1, <1>t DEF Spawn, centralVars, Known, TypeOK
  <2> QED
    BY <2>2, <1>q DEF Correspondents
<1>5. CASE \E r \in out : RouteAgentMessage(r)
  <2>1. PICK r \in out : RouteAgentMessage(r)
    BY <1>5
  <2> DEFINE a == GroupOf(r.session)
             g == r.to[2]
  <2>2. /\ r.to \in Targets /\ r.to = Agent(g) /\ g \in Groups /\ a \in Groups
        /\ Agent(a) \in Targets /\ WriteTo(g, r.to, Agent(a))
    BY <2>1, RouteWrites
  <2>3. r.to \in {Agent(a), sessions[r.session].chat} \/ \E n \in AllNames : dest[a][n] = r.to
    BY <2>1 DEF RouteAgentMessage, Allowed
  <2>4. host.phase # "granted"
    BY <2>1 DEF RouteAgentMessage, HostIdle
  <2>5. r.to # sessions[r.session].chat
    <3>1. r.session \in Known /\ sessions \in Seq(Session)
      BY <1>t DEF TypeOK
    <3>2. sessions[r.session] \in Session
      BY <3>1 DEF Known
    <3> QED
      BY <2>2, <3>2 DEF Session, Chat, Agent, Nothing
  <2>6. Agent(a) = Agent(g) \/ (\E n \in AllNames : dest[g][n] = Agent(a)) \/ g \in torn
    BY <2>2, <2>3, <2>4, <2>5, <1>t DEF Mutual
  <2> QED
    BY <2>1, <2>2, <2>6, <1>w DEF RouteAgentMessage
<1>6. CASE \E r \in out : CreateAgent(r)
  <2>1. PICK r \in out : CreateAgent(r)
    BY <1>6
  <2>2. r.session \in Known
    BY <1>t DEF TypeOK
  <2>3. CASE UNCHANGED inbox
    BY <2>1, <2>3, <1>r DEF CreateAgent, centralVars
  <2> QED
    BY <2>1, <2>2, <2>3, <1>n DEF CreateAgent, centralVars
<1>7. CASE CreationStep
  <2>1. CASE CreateGroup \/ GrantChild \/ GrantParent \/ Project \/ CreateThrows
    BY <2>1, <1>r DEF CreateGroup, GrantChild, GrantParent, Project, CreateThrows, sessionVars, centralVars
  <2>2. CASE TellCreator
    <3>1. host.row.session \in Known
      BY <2>2, <1>t, TypeOfCreation DEF TellCreator, Creating
    <3> QED
      BY <2>2, <3>1, <1>n DEF TellCreator, centralVars
  <2> QED
    BY <1>7, <2>1, <2>2 DEF CreationStep
<1>8. CASE HostCrash
  BY <1>8, <1>r DEF HostCrash, sessionVars, centralVars
<1>9. CASE HostStart
  <2>1. Known' = Known /\ \A s \in Known : inbox'[s] = inbox[s] /\ runner'[s] = Down
    BY <1>9, <1>t DEF HostStart, centralVars, Known, TypeOK
  <2> QED
    BY <2>1, <1>q DEF Correspondents
<1> QED
  BY <1>t, <1>1, <1>2, <1>3, <1>4, <1>5, <1>6, <1>7, <1>8, <1>9, Steps

-----------------------------------------------------------------------------
(* Theorems *)

LEMMA InvariantInit == Init => AgentsInvariant
<1> SUFFICES ASSUME Init PROVE AgentsInvariant
  OBVIOUS
<1>1. TypeOK
  BY TypeInit
<1>2. Known = {} /\ host.phase = "idle" /\ First \in groups
  BY DEF Init, Known, HostIdle
<1>3. \A g \in Groups, n \in AllNames : dest[g][n] = Nothing
  BY DEF Init, NoNames
<1>4. "parent" \in AllNames /\ \A g \in Groups : Agent(g) # Nothing
  BY DEF AllNames, Agent, Nothing
<1>5. Untouched /\ ToldIsGranted
  BY DEF Init, Untouched, ToldIsGranted
<1> QED
  BY <1>1, <1>2, <1>3, <1>4, <1>5
     DEF AgentsInvariant, GroupsExist, ParentFree, Done, Mutual, StaleIsOnlyBehind, AnswerIsAllowed

\* The inductive invariant holds in every state.
THEOREM AgentsCorrect == Spec => []AgentsInvariant
<1>1. AgentsInvariant /\ [Next]_vars => AgentsInvariant'
  <2> SUFFICES ASSUME AgentsInvariant, [Next]_vars
               PROVE  AgentsInvariant'
    OBVIOUS
  <2>1. TypeOK'
    BY TypeStep DEF AgentsInvariant
  <2> QED
    BY <2>1, UntouchedStep, GroupsExistStep, ParentFreeStep, DoneStep, ToldStep, MutualStep,
       StaleStep, AnswerStep DEF AgentsInvariant
<1> QED
  BY InvariantInit, <1>1, PTL DEF Spec

\* A session that was told of a new agent can name it, may write to it, and gets
\* its answers let through, whatever other processes wrote or threw meanwhile.
THEOREM CreatedUsable == Spec => []CreatedIsUsable
<1>1. AgentsInvariant => CreatedIsUsable
  <2> SUFFICES ASSUME AgentsInvariant, NEW t \in told
               PROVE  /\ Resolve(t[1], t[2]) = Agent(t[3])
                      /\ Allowed(t[1], Agent(t[3]))
                      /\ dest[t[3]]["parent"] = Agent(GroupOf(t[1]))
    BY DEF CreatedIsUsable
  <2>1. t[2] \in AllNames
    BY DEF AgentsInvariant, TypeOK, AllNames
  <2> QED
    BY <2>1 DEF AgentsInvariant, ToldIsGranted, Allowed
<1> QED
  BY <1>1, AgentsCorrect, PTL

\* What an agent says by an old projection goes where it means.
THEOREM StaleBehind == Spec => []StaleIsOnlyBehind
<1> QED
  BY AgentsCorrect, PTL DEF AgentsInvariant

\* Whoever writes to an agent can be answered, but for a creation broken off.
THEOREM AnswersPass == Spec => []AnswerIsAllowed
<1> QED
  BY AgentsCorrect, PTL DEF AgentsInvariant

\* The table only grows: no process takes a grant away or rebinds a name.
THEOREM GrantsOnlyGrow ==
  Spec => [][\A g \in Groups, n \in AllNames : dest[g][n] # Nothing => dest'[g][n] = dest[g][n]]_vars
<1>1. AgentsInvariant /\ [Next]_vars =>
        [\A g \in Groups, n \in AllNames : dest[g][n] # Nothing => dest'[g][n] = dest[g][n]]_vars
  BY GrantsKept
<1> QED
  BY <1>1, AgentsCorrect, PTL DEF Spec
=============================================================================
