--------------------------- MODULE Router_proofs ---------------------------
(***************************************************************************)
(* What Router guarantees for all messages, senders, agents, wirings and   *)
(* policies, and any number of crashes; and, in the second half, what      *)
(* setup guarantees, which pairs and connects the first chats, with any    *)
(* chats, codes, limits and channels.                                      *)
(***************************************************************************)
EXTENDS Router, Setup, TLAPS, SequenceTheorems, WellFoundedInduction

-----------------------------------------------------------------------------
(* The inductive invariant *)

\* What is on its way, on a card or in a row came with a message that arrived.
AllArrived ==
  /\ \A a \in Agents, m \in Messages : inbox[a][m] # "none" => m \in DOMAIN arrived
  /\ \A q \in routes \union requests \union cards : q.msg \in DOMAIN arrived
  /\ channelRow # NoRow => channelRow.msg \in DOMAIN arrived

\* The wirings a route has ahead of it are wirings of the chat, and there are
\* some; a chat for which a sender is to be decided is wired.
AheadIsWired ==
  /\ \A r \in routes : /\ r.ahead # <<>>
                       /\ \A k \in DOMAIN r.ahead : \E i \in DOMAIN wired : wired[i] = r.ahead[k]
  /\ \A q \in requests \union cards : q.kind = "sender" => wired # <<>>

\* The row behind an open card is the row of that very card.
RowOf(c) ==
  /\ c.kind = "sender" => senderRow[arrived[c.msg].sender] = [msg |-> c.msg, agent |-> c.agent]
  /\ c.kind = "channel" => channelRow = [msg |-> c.msg, agent |-> c.agent]
OpenCardIsRow == \A c \in cards \ decided : RowOf(c)

RouterInvariant == TypeOK /\ AllArrived /\ AheadIsWired /\ TriggerNeedsAccess /\ OpenCardIsRow
-----------------------------------------------------------------------------
(* Types *)

\* The head of the wirings ahead is a wiring of the chat, the rest are too.
LEMMA AheadFacts ==
  ASSUME NEW ws \in Seq(Wiring), ws # <<>>
  PROVE  /\ Head(ws) \in Wiring /\ 1 \in DOMAIN ws /\ Head(ws) = ws[1]
         /\ Tail(ws) \in Seq(Wiring)
         /\ \A k \in DOMAIN Tail(ws) : k + 1 \in DOMAIN ws /\ Tail(ws)[k] = ws[k + 1]
OBVIOUS

\* What becomes of a route when a wiring was visited.
LEMMA OnwardFacts ==
  ASSUME TypeOK, AheadIsWired, NEW r \in routes,
         NEW q \in {x \in {[r EXCEPT !.ahead = Tail(@)]} : x.ahead # <<>>}
  PROVE  /\ q \in [msg : Messages, ahead : Seq(Wiring)] /\ q.msg = r.msg /\ q.ahead # <<>>
         /\ \A k \in DOMAIN q.ahead : \E i \in DOMAIN wired : wired[i] = q.ahead[k]
<1>1. r \in [msg : Messages, ahead : Seq(Wiring)] /\ r.ahead # <<>>
  BY DEF TypeOK, AheadIsWired
<1>2. Tail(r.ahead) \in Seq(Wiring)
  BY <1>1, AheadFacts
<1>3. q = [r EXCEPT !.ahead = Tail(@)] /\ q.ahead # <<>>
  OBVIOUS
<1>4. q \in [msg : Messages, ahead : Seq(Wiring)] /\ q.msg = r.msg /\ q.ahead = Tail(r.ahead)
  BY <1>1, <1>2, <1>3
<1>5. ASSUME NEW k \in DOMAIN q.ahead PROVE \E i \in DOMAIN wired : wired[i] = q.ahead[k]
  <2>1. k + 1 \in DOMAIN r.ahead /\ q.ahead[k] = r.ahead[k + 1]
    BY <1>1, <1>4, AheadFacts
  <2> QED
    BY <2>1 DEF AheadIsWired
<1> QED
  BY <1>3, <1>4, <1>5

\* The wiring that is visited is one of the chat.
LEMMA VisitedFacts ==
  ASSUME TypeOK, AheadIsWired, NEW r \in routes
  PROVE  /\ r.msg \in Messages /\ Head(r.ahead) \in Wiring
         /\ \E i \in DOMAIN wired : wired[i] = Head(r.ahead)
<1>1. r \in [msg : Messages, ahead : Seq(Wiring)] /\ r.ahead # <<>>
  BY DEF TypeOK, AheadIsWired
<1>2. Head(r.ahead) \in Wiring /\ 1 \in DOMAIN r.ahead /\ Head(r.ahead) = r.ahead[1]
  BY <1>1, AheadFacts
<1> QED
  BY <1>1, <1>2 DEF AheadIsWired

\* A visit writes one row at most, a trigger only if the wiring admits it.
LEMMA InboxFacts ==
  ASSUME TypeOK, AheadIsWired, NEW r \in routes, FanOut(r), NEW a \in Agents, NEW m \in Messages
  PROVE  \/ inbox'[a][m] = inbox[a][m]
         \/ /\ a = Head(r.ahead).agent /\ m = r.msg
            /\ inbox'[a][m] = "trigger" => Admitted(Head(r.ahead), r.msg)
<1> DEFINE w == Head(r.ahead)
<1>1. inbox' = inbox \/ (~Admitted(w, r.msg) /\ inbox' = [inbox EXCEPT ![w.agent][r.msg] = "context"])
        \/ (Admitted(w, r.msg) /\ inbox' = [inbox EXCEPT ![w.agent][r.msg] = "trigger"])
  BY DEF FanOut, FanOutTo, FanOutThrows, FanOutSkips
<1>2. inbox \in [Agents -> [Messages -> {"none", "context", "trigger"}]]
  BY DEF TypeOK
<1>3. w.agent \in Agents /\ r.msg \in Messages
  BY VisitedFacts DEF Wiring
<1> HIDE DEF w
<1>4. \/ inbox'[a][m] = inbox[a][m]
      \/ a = w.agent /\ m = r.msg /\ (inbox'[a][m] = "trigger" => Admitted(w, r.msg))
  BY <1>1, <1>2, <1>3
<1> QED
  BY <1>4 DEF w

\* A request for a sender names the message and agent of the wiring visited.
LEMMA RefusedFacts ==
  ASSUME NEW w \in Wiring, NEW m \in Messages, NEW q \in Refused(w, m)
  PROVE  q \in Request /\ q.msg = m /\ q.kind = "sender"
BY DEF Refused, Request, Wiring

\* Every step keeps every variable in its type.
LEMMA TypeInductive == RouterInvariant /\ [Next]_vars => TypeOK'
<1> SUFFICES ASSUME RouterInvariant, [Next]_vars PROVE TypeOK'
  OBVIOUS
<1>t. TypeOK /\ AheadIsWired /\ AllArrived
  BY DEF RouterInvariant
<1> USE RouterAssumption DEF TypeOK
<1>1. ASSUME NEW m \in Messages, NEW x \in Incoming, Arrive(m, x) PROVE TypeOK'
  <2>1. /\ DOMAIN arrived' = DOMAIN arrived \union {m}
        /\ \A n \in DOMAIN arrived' : arrived'[n] \in Message
    BY <1>t, <1>1 DEF Arrive
  <2>2. routes' \subseteq [msg : Messages, ahead : Seq(Wiring)]
    BY <1>t, <1>1 DEF Arrive
  <2>3. requests' \in SUBSET Request
    BY <1>t, <1>1 DEF Arrive, Request
  <2> QED
    BY <1>t, <1>1, <2>1, <2>2, <2>3 DEF Arrive, chat
<1>2. ASSUME NEW r \in routes, FanOut(r) PROVE TypeOK'
  <2> DEFINE w == Head(r.ahead)
  <2>1. r.msg \in Messages /\ r.msg \in DOMAIN arrived /\ w \in Wiring
    BY <1>t, VisitedFacts DEF AllArrived
  <2>2. routes' \subseteq [msg : Messages, ahead : Seq(Wiring)]
    BY <1>t, <1>2, OnwardFacts DEF FanOut, FanOutTo, FanOutThrows, FanOutSkips
  <2>3. requests' \in SUBSET Request
    BY <1>t, <1>2, <2>1, RefusedFacts DEF FanOut, FanOutTo, FanOutThrows, FanOutSkips
  <2>4. Session(w, r.msg) \in Agents \X Threads
    BY <1>t, <2>1 DEF Session, Wiring, Message
  <2>5. sessions' \in SUBSET (Agents \X Threads)
    BY <1>t, <1>2, <2>4 DEF FanOut, FanOutTo, FanOutThrows, FanOutSkips
  <2>6. w.agent \in Agents
    BY <2>1 DEF Wiring
  <2>7. inbox' \in [Agents -> [Messages -> {"none", "context", "trigger"}]]
    <3> HIDE DEF w
    <3>1. inbox' = inbox \/ \E v \in {"context", "trigger"} : inbox' = [inbox EXCEPT ![w.agent][r.msg] = v]
      BY <1>2 DEF FanOut, FanOutTo, FanOutThrows, FanOutSkips, w
    <3>2. inbox \in [Agents -> [Messages -> {"none", "context", "trigger"}]]
      BY <1>t
    <3>3. ASSUME NEW v \in {"context", "trigger"}
          PROVE  [inbox EXCEPT ![w.agent][r.msg] = v] \in [Agents -> [Messages -> {"none", "context", "trigger"}]]
      BY <2>1, <2>6, <3>2
    <3> QED
      BY <3>1, <3>2, <3>3
  <2>8. UNCHANGED <<chat, arrived, senderRow, channelRow, cards, decided, granted, crashes>>
    BY <1>2 DEF FanOut, FanOutTo, FanOutThrows, FanOutSkips
  <2>9. collided' \in SUBSET Messages
    BY <1>t, <1>2, <2>1 DEF FanOut, FanOutTo, FanOutThrows, FanOutSkips
  <2> QED
    BY <1>t, <2>2, <2>3, <2>5, <2>7, <2>8, <2>9 DEF chat
<1>3. ASSUME NEW q \in requests, AskFails(q) PROVE TypeOK'
  BY <1>t, <1>3 DEF AskFails, chat
<1>4. ASSUME NEW q \in requests, NEW shown \in BOOLEAN, AskSender(q, shown) \/ AskChannel(q, shown)
      PROVE  TypeOK'
  <2>1. q \in Request /\ [msg |-> q.msg, agent |-> q.agent] \in [msg : Messages, agent : Agents]
    BY <1>t DEF Request
  <2>2. cards' \in SUBSET Request /\ requests' \in SUBSET Request
    BY <1>t, <1>4, <2>1 DEF AskSender, AskChannel
  <2>3. senderRow' \in [Senders -> {NoRow} \union [msg : Messages, agent : Agents]]
    BY <1>t, <1>4, <2>1 DEF AskSender, AskChannel
  <2>4. channelRow' = NoRow \/ channelRow' \in [msg : Messages, agent : Agents]
    BY <1>t, <1>4, <2>1 DEF AskSender, AskChannel
  <2> QED
    BY <1>t, <1>4, <2>2, <2>3, <2>4 DEF AskSender, AskChannel, chat
<1>5. ASSUME NEW c \in cards, NEW edited \in BOOLEAN, Answer(c, edited) PROVE TypeOK'
  <2>1. c \in Request /\ c.msg \in Messages /\ c.msg \in DOMAIN arrived /\ arrived[c.msg].sender \in Senders
    BY <1>t DEF Request, AllArrived, Message
  <2>2. CASE AnswerIgnored(c, edited)
    BY <1>t, <2>2 DEF AnswerIgnored, chat
  <2>3. CASE AllowSender(c, edited)
    <3>1. members' \in SUBSET (Senders \X Agents) /\ granted' \in SUBSET (Messages \X Agents)
      BY <1>t, <2>1, <2>3 DEF AllowSender, Request
    <3>2. routes' \subseteq [msg : Messages, ahead : Seq(Wiring)]
      BY <1>t, <2>1, <2>3 DEF AllowSender
    <3>3. senderRow' \in [Senders -> {NoRow} \union [msg : Messages, agent : Agents]]
      BY <1>t, <2>3 DEF AllowSender
    <3> QED
      BY <1>t, <2>1, <2>3, <3>1, <3>2, <3>3 DEF AllowSender
  <2>4. CASE DenySender(c, edited)
    BY <1>t, <2>1, <2>4 DEF DenySender, chat
  <2>5. ASSUME HasRow(c), c.kind = "channel"
        PROVE  /\ channelRow \in [msg : Messages, agent : Agents] /\ ChatRequest \in Request
               /\ channelRow.msg \in DOMAIN arrived
    BY <1>t, <2>5 DEF HasRow, ChatRequest, Request, AllArrived
  <2>6. CASE WireChat(c, edited)
    <3>1. [agent |-> channelRow.agent, mode |-> "sticky", scope |-> "known", ignored |-> "accumulate"] \in Wiring
      BY <2>5, <2>6 DEF WireChat, Wiring
    <3>2. wired' \in Seq(Wiring)
      BY <1>t, <2>6, <3>1 DEF WireChat
    <3>3. routes' \subseteq [msg : Messages, ahead : Seq(Wiring)]
      <4>1. [msg |-> channelRow.msg, ahead |-> wired'] \in [msg : Messages, ahead : Seq(Wiring)]
        BY <2>5, <2>6, <3>2 DEF WireChat
      <4>2. routes' = routes \union {[msg |-> channelRow.msg, ahead |-> wired']}
        BY <2>6 DEF WireChat
      <4> QED
        BY <1>t, <4>1, <4>2
    <3>4. members' \in SUBSET (Senders \X Agents)
      BY <1>t, <2>5, <2>6 DEF WireChat, Message
    <3> QED
      BY <1>t, <2>5, <2>6, <3>2, <3>3, <3>4 DEF WireChat
  <2>7. CASE DenyChat(c, edited)
    BY <1>t, <2>5, <2>7 DEF DenyChat
  <2> QED
    BY <1>5, <2>2, <2>3, <2>4, <2>6, <2>7 DEF Answer
<1>6. CASE HostCrash
  BY <1>t, <1>6 DEF HostCrash, chat
<1>7. CASE UNCHANGED vars
  BY <1>t, <1>7 DEF vars, chat, flows
<1> QED
  BY <1>1, <1>2, <1>3, <1>4, <1>5, <1>6, <1>7 DEF Next
-----------------------------------------------------------------------------
(* Where things come from *)

\* What has arrived stays, and what is about a message is about one that arrived.
LEMMA ArrivedInductive == RouterInvariant /\ [Next]_vars => AllArrived'
<1> SUFFICES ASSUME RouterInvariant, [Next]_vars PROVE AllArrived'
  OBVIOUS
<1>t. TypeOK /\ AheadIsWired /\ AllArrived
  BY DEF RouterInvariant
<1>1. ASSUME NEW m \in Messages, NEW x \in Incoming, Arrive(m, x) PROVE AllArrived'
  <2>1. DOMAIN arrived' = DOMAIN arrived \union {m}
    BY <1>1 DEF Arrive
  <2>2. \A q \in routes' \union requests' : q \in routes \union requests \/ q.msg = m
    BY <1>1 DEF Arrive
  <2> QED
    BY <1>t, <1>1, <2>1, <2>2 DEF AllArrived, Arrive
<1>2. ASSUME NEW r \in routes, FanOut(r) PROVE AllArrived'
  <2> DEFINE w == Head(r.ahead)
  <2>1. r.msg \in Messages /\ r.msg \in DOMAIN arrived /\ w \in Wiring
    BY <1>t, VisitedFacts DEF AllArrived
  <2>2. /\ \A q \in routes' : q \in routes \/ q.msg = r.msg
        /\ \A q \in requests' : q \in requests \/ q.msg = r.msg
    BY <1>t, <1>2, <2>1, OnwardFacts, RefusedFacts DEF FanOut, FanOutTo, FanOutThrows, FanOutSkips
  <2>3. \A a \in Agents, m \in Messages : inbox'[a][m] = inbox[a][m] \/ m = r.msg
    BY <1>t, <1>2, InboxFacts
  <2>4. UNCHANGED <<arrived, channelRow, cards>>
    BY <1>2 DEF FanOut, FanOutTo, FanOutThrows, FanOutSkips
  <2> HIDE DEF w
  <2> QED
    BY <1>t, <2>1, <2>2, <2>3, <2>4 DEF AllArrived
<1>3. ASSUME NEW q \in requests, AskFails(q) PROVE AllArrived'
  BY <1>t, <1>3 DEF AskFails, AllArrived
<1>4. ASSUME NEW q \in requests, NEW shown \in BOOLEAN, AskSender(q, shown) \/ AskChannel(q, shown)
      PROVE  AllArrived'
  BY <1>t, <1>4 DEF AskSender, AskChannel, AllArrived
<1>5. ASSUME NEW c \in cards, NEW edited \in BOOLEAN, Answer(c, edited) PROVE AllArrived'
  <2>1. /\ UNCHANGED <<arrived, inbox, requests>> /\ cards' \subseteq cards
        /\ channelRow' = channelRow \/ channelRow' = NoRow
    BY <1>5 DEF Answer, AnswerIgnored, AllowSender, DenySender, WireChat, DenyChat, chat
  <2>2. \A r \in routes' : r \in routes \/ r.msg \in DOMAIN arrived
    BY <1>t, <1>5 DEF Answer, AnswerIgnored, AllowSender, DenySender, WireChat, DenyChat, HasRow, AllArrived
  <2> QED
    BY <1>t, <2>1, <2>2 DEF AllArrived
<1>6. CASE HostCrash
  BY <1>t, <1>6 DEF HostCrash, AllArrived
<1>7. CASE UNCHANGED vars
  BY <1>t, <1>7 DEF vars, chat, flows, AllArrived
<1> QED
  BY <1>1, <1>2, <1>3, <1>4, <1>5, <1>6, <1>7 DEF Next

\* Wirings are only added, and a route starts with those of the chat.
LEMMA AheadInductive == RouterInvariant /\ [Next]_vars => AheadIsWired'
<1> SUFFICES ASSUME RouterInvariant, [Next]_vars PROVE AheadIsWired'
  OBVIOUS
<1>t. TypeOK /\ AheadIsWired /\ AllArrived /\ wired \in Seq(Wiring)
  BY DEF RouterInvariant, TypeOK
<1>1. ASSUME NEW m \in Messages, NEW x \in Incoming, Arrive(m, x) PROVE AheadIsWired'
  <2>1. wired' = wired /\ cards' = cards
    BY <1>1 DEF Arrive, chat
  <2>2. \A r \in routes' : r \in routes \/ (r.ahead = wired /\ wired # <<>>)
    BY <1>1 DEF Arrive
  <2>3. \A q \in requests' : q \in requests \/ q.kind = "channel"
    BY <1>1 DEF Arrive
  <2> QED
    BY <1>t, <2>1, <2>2, <2>3 DEF AheadIsWired
<1>2. ASSUME NEW r \in routes, FanOut(r) PROVE AheadIsWired'
  <2>1. wired' = wired /\ cards' = cards
    BY <1>2 DEF FanOut, FanOutTo, FanOutThrows, FanOutSkips, chat
  <2>2. \A q \in routes' : q \in routes \/ (q.ahead # <<>> /\ \A k \in DOMAIN q.ahead : \E i \in DOMAIN wired : wired[i] = q.ahead[k])
    BY <1>t, <1>2, OnwardFacts DEF FanOut, FanOutTo, FanOutThrows, FanOutSkips
  <2>3. wired # <<>>
    BY <1>t, VisitedFacts
  <2> QED
    BY <1>t, <2>1, <2>2, <2>3 DEF AheadIsWired
<1>3. ASSUME NEW q \in requests, AskFails(q) PROVE AheadIsWired'
  BY <1>t, <1>3 DEF AskFails, AheadIsWired, chat
<1>4. ASSUME NEW q \in requests, NEW shown \in BOOLEAN, AskSender(q, shown) \/ AskChannel(q, shown)
      PROVE  AheadIsWired'
  BY <1>t, <1>4 DEF AskSender, AskChannel, AheadIsWired, chat
<1>5. ASSUME NEW c \in cards, NEW edited \in BOOLEAN, Answer(c, edited), ~WireChat(c, edited)
      PROVE  AheadIsWired'
  <2>1. UNCHANGED <<wired, requests>> /\ cards' \subseteq cards
    BY <1>5 DEF Answer, AnswerIgnored, AllowSender, DenySender, DenyChat, chat
  <2>2. \A r \in routes' : r \in routes \/ (r.ahead = wired /\ wired # <<>>)
    BY <1>t, <1>5 DEF Answer, AnswerIgnored, AllowSender, DenySender, DenyChat, AheadIsWired
  <2> QED
    BY <1>t, <2>1, <2>2 DEF AheadIsWired
<1>6. ASSUME NEW c \in cards, NEW edited \in BOOLEAN, WireChat(c, edited) PROVE AheadIsWired'
  <2> DEFINE w == [agent |-> channelRow.agent, mode |-> "sticky", scope |-> "known", ignored |-> "accumulate"]
  <2>1. wired' = Append(wired, w)
    BY <1>6 DEF WireChat
  <2> HIDE DEF w
  <2>2. /\ wired' # <<>>
        /\ \A i \in DOMAIN wired : i \in DOMAIN wired' /\ wired'[i] = wired[i]
    BY <1>t, <2>1
  <2>3. requests' = requests /\ cards' \subseteq cards
    BY <1>6 DEF WireChat
  <2>4. \A r \in routes' : r \in routes \/ r.ahead = wired'
    BY <1>6 DEF WireChat
  <2> QED
    BY <1>t, <2>2, <2>3, <2>4 DEF AheadIsWired
<1>7. CASE HostCrash
  BY <1>t, <1>7 DEF HostCrash, AheadIsWired, chat
<1>8. CASE UNCHANGED vars
  BY <1>t, <1>8 DEF vars, chat, flows, AheadIsWired
<1> QED
  BY <1>1, <1>2, <1>3, <1>4, <1>5, <1>6, <1>7, <1>8 DEF Next

-----------------------------------------------------------------------------
(* The gates *)

\* A wiring passes a message on only if both gates let it.
LEMMA AccessInductive == RouterInvariant /\ [Next]_vars => TriggerNeedsAccess'
<1> SUFFICES ASSUME RouterInvariant, [Next]_vars PROVE TriggerNeedsAccess'
  OBVIOUS
<1>t. TypeOK /\ AheadIsWired /\ AllArrived /\ TriggerNeedsAccess /\ wired \in Seq(Wiring)
  BY DEF RouterInvariant, TypeOK
<1>k. ASSUME UNCHANGED <<policy, inbox>>, members \subseteq members',
             \A i \in DOMAIN wired : i \in DOMAIN wired' /\ wired'[i] = wired[i],
             \A m \in Messages : m \in DOMAIN arrived => m \in DOMAIN arrived' /\ arrived'[m] = arrived[m],
             DOMAIN arrived' \subseteq Messages
      PROVE  TriggerNeedsAccess'
  <2> SUFFICES ASSUME NEW a \in Agents, NEW m \in DOMAIN arrived', inbox'[a][m] = "trigger"
               PROVE  (\/ CanAccess(arrived[m].sender, a)
                       \/ policy = "public" /\ \E i \in DOMAIN wired : wired[i].agent = a /\ wired[i].scope = "all")'
    BY DEF TriggerNeedsAccess
  <2>1. m \in DOMAIN arrived /\ arrived'[m] = arrived[m]
    BY <1>t, <1>k DEF AllArrived
  <2> QED
    BY <1>t, <1>k, <2>1 DEF TriggerNeedsAccess, CanAccess
<1>1. ASSUME NEW m \in Messages, NEW x \in Incoming, Arrive(m, x) PROVE TriggerNeedsAccess'
  <2>1. /\ DOMAIN arrived' = DOMAIN arrived \union {m}
        /\ \A n \in Messages : n \in DOMAIN arrived => arrived'[n] = arrived[n]
    BY <1>1 DEF Arrive
  <2> QED
    BY <1>t, <1>1, <1>k, <2>1 DEF Arrive, chat, TypeOK
<1>2. ASSUME NEW r \in routes, FanOut(r) PROVE TriggerNeedsAccess'
  <2> DEFINE w == Head(r.ahead)
  <2>1. /\ r.msg \in Messages /\ r.msg \in DOMAIN arrived /\ w.agent \in Agents
        /\ \E i \in DOMAIN wired : wired[i] = w
    BY <1>t, VisitedFacts DEF AllArrived, Wiring
  <2>2. UNCHANGED <<policy, members, wired, arrived>>
    BY <1>2 DEF FanOut, FanOutTo, FanOutThrows, FanOutSkips, chat
  <2>3. \A a \in Agents, m \in Messages :
          inbox'[a][m] = "trigger" => inbox[a][m] = "trigger" \/ (a = w.agent /\ m = r.msg /\ Admitted(w, r.msg))
    BY <1>t, <1>2, InboxFacts
  <2>4. Admitted(w, r.msg) => \/ CanAccess(arrived[r.msg].sender, w.agent)
                              \/ policy = "public" /\ w.scope = "all"
    BY DEF Admitted, AccessGate, ScopeGate
  <2> HIDE DEF w
  <2>5. ASSUME NEW a \in Agents, NEW m \in DOMAIN arrived, inbox'[a][m] = "trigger"
        PROVE  \/ CanAccess(arrived[m].sender, a)
               \/ policy = "public" /\ \E i \in DOMAIN wired : wired[i].agent = a /\ wired[i].scope = "all"
    <3>1. m \in Messages
      BY <1>t DEF TypeOK
    <3>2. CASE inbox[a][m] = "trigger"
      BY <1>t, <3>2 DEF TriggerNeedsAccess
    <3>3. CASE a = w.agent /\ m = r.msg /\ Admitted(w, r.msg)
      BY <2>1, <2>4, <3>3
    <3> QED
      BY <2>3, <2>5, <3>1, <3>2, <3>3
  <2> QED
    BY <2>2, <2>5 DEF TriggerNeedsAccess, CanAccess
<1>3. ASSUME NEW q \in requests,
             AskFails(q) \/ \E shown \in BOOLEAN : AskSender(q, shown) \/ AskChannel(q, shown)
      PROVE  TriggerNeedsAccess'
  BY <1>t, <1>3, <1>k DEF AskFails, AskSender, AskChannel, chat, TypeOK
<1>4. ASSUME NEW c \in cards, NEW edited \in BOOLEAN, Answer(c, edited) PROVE TriggerNeedsAccess'
  <2>1. UNCHANGED <<policy, inbox, arrived>> /\ members \subseteq members'
    BY <1>4 DEF Answer, AnswerIgnored, AllowSender, DenySender, WireChat, DenyChat, chat
  <2>2. wired' = wired \/ \E w : wired' = Append(wired, w)
    BY <1>4 DEF Answer, AnswerIgnored, AllowSender, DenySender, WireChat, DenyChat, chat
  <2>3. \A i \in DOMAIN wired : i \in DOMAIN wired' /\ wired'[i] = wired[i]
    BY <1>t, <2>2
  <2> QED
    BY <1>t, <1>k, <2>1, <2>3 DEF TypeOK
<1>5. CASE HostCrash
  BY <1>t, <1>5, <1>k DEF HostCrash, chat, TypeOK
<1>6. CASE UNCHANGED vars
  BY <1>t, <1>6, <1>k DEF vars, chat, TypeOK
<1> QED
  BY <1>1, <1>2, <1>3, <1>4, <1>5, <1>6 DEF Next
-----------------------------------------------------------------------------
(* Cards and rows *)

\* The unique keys keep the row of an open card from being replaced, and a row
\* goes only when the request of that row is decided.
LEMMA CardInductive == RouterInvariant /\ [Next]_vars => OpenCardIsRow'
<1> SUFFICES ASSUME RouterInvariant, [Next]_vars PROVE OpenCardIsRow'
  OBVIOUS
<1>t. /\ TypeOK /\ AllArrived /\ OpenCardIsRow
      /\ \A c \in cards : c \in Request /\ c.msg \in DOMAIN arrived
      /\ requests \subseteq Request
      /\ senderRow \in [Senders -> {NoRow} \union [msg : Messages, agent : Agents]]
  BY DEF RouterInvariant, TypeOK, AllArrived
<1>n. ASSUME NEW m \in Messages, NEW a \in Agents PROVE [msg |-> m, agent |-> a] # NoRow
  BY RouterAssumption
<1>k. ASSUME UNCHANGED <<senderRow, channelRow, decided>>, cards' \subseteq cards,
             \A c \in cards : arrived'[c.msg] = arrived[c.msg]
      PROVE  OpenCardIsRow'
  BY <1>t, <1>k DEF OpenCardIsRow, RowOf
<1>1. ASSUME NEW m \in Messages, NEW x \in Incoming, Arrive(m, x) PROVE OpenCardIsRow'
  <2>1. \A c \in cards : arrived'[c.msg] = arrived[c.msg]
    BY <1>t, <1>1 DEF Arrive
  <2> QED
    BY <1>1, <1>k, <2>1 DEF Arrive
<1>2. ASSUME NEW r \in routes, FanOut(r) PROVE OpenCardIsRow'
  BY <1>2, <1>k DEF FanOut, FanOutTo, FanOutThrows, FanOutSkips
<1>3. ASSUME NEW q \in requests, AskFails(q) PROVE OpenCardIsRow'
  BY <1>3, <1>k DEF AskFails
<1>4. ASSUME NEW q \in requests, NEW shown \in BOOLEAN, AskSender(q, shown) PROVE OpenCardIsRow'
  <2> SUFFICES ASSUME NEW c \in cards' \ decided' PROVE RowOf(c)'
    BY DEF OpenCardIsRow
  <2>1. /\ arrived' = arrived /\ channelRow' = channelRow /\ decided' = decided
        /\ cards' \subseteq cards \union {q} /\ q.kind = "sender"
        /\ senderRow' = [senderRow EXCEPT ![arrived[q.msg].sender] = [msg |-> q.msg, agent |-> q.agent]]
        /\ senderRow[arrived[q.msg].sender] = NoRow
    BY <1>4 DEF AskSender, chat, RowFree
  <2>2. arrived[q.msg].sender \in Senders
    BY <1>t DEF AllArrived, TypeOK, Message
  <2>3. CASE c = q
    BY <1>t, <2>1, <2>2, <2>3 DEF RowOf
  <2>4. CASE c # q
    <3>1. c \in cards /\ RowOf(c) /\ c.msg \in Messages /\ c.agent \in Agents
      BY <1>t, <2>1, <2>4 DEF OpenCardIsRow, Request
    <3>2. c.kind = "sender" => arrived[c.msg].sender # arrived[q.msg].sender
      BY <1>n, <2>1, <3>1 DEF RowOf
    <3> QED
      BY <1>t, <2>1, <2>2, <3>1, <3>2 DEF RowOf
  <2> QED
    BY <2>3, <2>4
<1>5. ASSUME NEW q \in requests, NEW shown \in BOOLEAN, AskChannel(q, shown) PROVE OpenCardIsRow'
  <2> SUFFICES ASSUME NEW c \in cards' \ decided' PROVE RowOf(c)'
    BY DEF OpenCardIsRow
  <2>1. /\ arrived' = arrived /\ senderRow' = senderRow /\ decided' = decided
        /\ cards' \subseteq cards \union {q} /\ q.kind = "channel"
        /\ channelRow' = [msg |-> q.msg, agent |-> q.agent] /\ channelRow = NoRow
    BY <1>5 DEF AskChannel, chat, RowFree
  <2>2. CASE c = q
    BY <2>1, <2>2 DEF RowOf
  <2>3. CASE c # q
    <3>1. c \in cards /\ RowOf(c) /\ c.msg \in Messages /\ c.agent \in Agents
      BY <1>t, <2>1, <2>3 DEF OpenCardIsRow, Request
    <3>2. c.kind # "channel"
      BY <1>n, <2>1, <3>1 DEF RowOf
    <3> QED
      BY <2>1, <3>1, <3>2 DEF RowOf
  <2> QED
    BY <2>2, <2>3
<1>6. ASSUME NEW c \in cards, NEW edited \in BOOLEAN, AnswerIgnored(c, edited) PROVE OpenCardIsRow'
  BY <1>6, <1>k DEF AnswerIgnored
<1>7. ASSUME NEW c \in cards, NEW edited \in BOOLEAN, AllowSender(c, edited) \/ DenySender(c, edited)
      PROVE  OpenCardIsRow'
  <2> SUFFICES ASSUME NEW d \in cards' \ decided' PROVE RowOf(d)'
    BY DEF OpenCardIsRow
  <2>1. /\ arrived' = arrived /\ channelRow' = channelRow /\ decided' = decided \union {c}
        /\ cards' \subseteq cards /\ c.kind = "sender" /\ HasRow(c)
        /\ senderRow' = [senderRow EXCEPT ![arrived[c.msg].sender] = NoRow]
    BY <1>7 DEF AllowSender, DenySender, chat
  <2>2. d \in cards /\ d \in Request /\ c \in Request /\ RowOf(d) /\ d # c
    BY <1>t, <2>1 DEF OpenCardIsRow
  <2>3. senderRow[arrived[c.msg].sender] = [msg |-> c.msg, agent |-> c.agent]
    BY <2>1 DEF HasRow
  <2>4. d.kind = "sender" => arrived[d.msg].sender # arrived[c.msg].sender
    <3> SUFFICES ASSUME d.kind = "sender", arrived[d.msg].sender = arrived[c.msg].sender PROVE FALSE
      OBVIOUS
    <3>1. [msg |-> d.msg, agent |-> d.agent] = [msg |-> c.msg, agent |-> c.agent]
      BY <2>2, <2>3 DEF RowOf
    <3>2. d.msg = c.msg /\ d.agent = c.agent
      BY <3>1
    <3> QED
      BY <2>1, <2>2, <3>2 DEF Request
  <2> QED
    BY <1>t, <2>1, <2>2, <2>4 DEF RowOf, TypeOK, Message
<1>8. ASSUME NEW c \in cards, NEW edited \in BOOLEAN, WireChat(c, edited) \/ DenyChat(c, edited)
      PROVE  OpenCardIsRow'
  <2> SUFFICES ASSUME NEW d \in cards' \ decided' PROVE RowOf(d)'
    BY DEF OpenCardIsRow
  <2>1. /\ arrived' = arrived /\ senderRow' = senderRow /\ decided' = decided \union {ChatRequest}
        /\ cards' \subseteq cards /\ c.kind = "channel" /\ HasRow(c) /\ channelRow' = NoRow
    BY <1>8 DEF WireChat, DenyChat
  <2>2. d \in cards /\ d \in Request /\ RowOf(d) /\ d # ChatRequest
    BY <1>t, <2>1 DEF OpenCardIsRow
  <2>3. d.kind # "channel"
    <3> SUFFICES ASSUME d.kind = "channel" PROVE FALSE
      OBVIOUS
    <3>1. channelRow = [msg |-> d.msg, agent |-> d.agent]
      BY <2>2 DEF RowOf
    <3>2. ChatRequest = [kind |-> "channel", msg |-> d.msg, agent |-> d.agent]
      BY <3>1 DEF ChatRequest
    <3> QED
      BY <2>2, <3>2 DEF Request
  <2> QED
    BY <2>1, <2>2, <2>3 DEF RowOf
<1>9. CASE HostCrash
  BY <1>9, <1>k DEF HostCrash
<1>10. CASE UNCHANGED vars
  BY <1>10, <1>k DEF vars, flows
<1> QED
  BY <1>1, <1>2, <1>3, <1>4, <1>5, <1>6, <1>7, <1>8, <1>9, <1>10 DEF Next, Answer

-----------------------------------------------------------------------------
(* The message for which a sender was allowed                              *)

\* A sender is brought before the owner only for an agent that the message
\* engages by one of the wirings of the chat.
EngagedSenders ==
  \A q \in requests \union cards : q.kind = "sender" =>
    \E i \in DOMAIN wired : wired[i].agent = q.agent /\ Engages(wired[i], q.msg)

\* A call of routeInbound still has a wiring ahead by which the message engages
\* the agent.
OnItsWay(m, a) ==
  \E r \in routes : r.msg = m /\ \E k \in DOMAIN r.ahead : r.ahead[k].agent = a /\ Engages(r.ahead[k], m)

\* Who was allowed is a member, and the message has woken the agent it was allowed
\* for, has met a row of its own, or is on its way to the agent.
GrantFollowed ==
  \A g \in granted :
    /\ g[1] \in DOMAIN arrived /\ <<arrived[g[1]].sender, g[2]>> \in members
    /\ \/ crashes > 0 \/ arrived[g[1]].text # "plain"
       \/ inbox[g[2]][g[1]] = "trigger" \/ g[1] \in collided
       \/ OnItsWay(g[1], g[2])

\* What a step of the router leaves behind: what has arrived, the sessions, the
\* wirings and the members are only added to, and a row of a message stays as it is.
LEMMA NothingForgotten ==
  ASSUME RouterInvariant, [Next]_vars
  PROVE  /\ sessions \subseteq sessions' /\ members \subseteq members' /\ (crashes > 0 => crashes' > 0)
         /\ collided \subseteq collided'
         /\ \A m \in DOMAIN arrived : m \in DOMAIN arrived' /\ arrived'[m] = arrived[m]
         /\ \A i \in DOMAIN wired : i \in DOMAIN wired' /\ wired'[i] = wired[i]
         /\ \A a \in Agents, m \in Messages : inbox[a][m] # "none" => inbox'[a][m] = inbox[a][m]
<1>t. TypeOK /\ AheadIsWired /\ wired \in Seq(Wiring) /\ crashes \in Nat
  BY RouterAssumption DEF RouterInvariant, TypeOK
<1>1. ASSUME NEW m \in Messages, NEW x \in Incoming, Arrive(m, x)
      PROVE  /\ UNCHANGED <<sessions, members, crashes, wired, inbox, collided>>
             /\ \A n \in DOMAIN arrived : n \in DOMAIN arrived' /\ arrived'[n] = arrived[n]
  BY <1>1 DEF Arrive, chat
<1>2. ASSUME NEW r \in routes, FanOut(r)
      PROVE  /\ UNCHANGED <<members, crashes, wired, arrived>> /\ sessions \subseteq sessions'
             /\ collided \subseteq collided'
             /\ \A a \in Agents, m \in Messages : inbox[a][m] # "none" => inbox'[a][m] = inbox[a][m]
  <2> DEFINE w == Head(r.ahead)
  <2>1. w.agent \in Agents /\ r.msg \in Messages
    BY <1>t, VisitedFacts DEF Wiring
  <2>2. \/ inbox' = inbox
        \/ /\ inbox[w.agent][r.msg] = "none"
           /\ \E v \in {"context", "trigger"} : inbox' = [inbox EXCEPT ![w.agent][r.msg] = v]
    BY <1>2 DEF FanOut, FanOutTo, FanOutThrows, FanOutSkips, Throws, Command
  <2>3. inbox \in [Agents -> [Messages -> {"none", "context", "trigger"}]]
    BY <1>t DEF TypeOK
  <2>4. /\ UNCHANGED <<members, crashes, wired, arrived>> /\ sessions \subseteq sessions'
        /\ collided \subseteq collided'
    BY <1>2 DEF FanOut, FanOutTo, FanOutThrows, FanOutSkips, chat
  <2> HIDE DEF w
  <2>5. \A a \in Agents, m \in Messages : inbox[a][m] # "none" => inbox'[a][m] = inbox[a][m]
    BY <2>1, <2>2, <2>3
  <2> QED
    BY <2>4, <2>5
<1>3. ASSUME NEW q \in requests,
             AskFails(q) \/ \E shown \in BOOLEAN : AskSender(q, shown) \/ AskChannel(q, shown)
      PROVE  UNCHANGED <<sessions, members, crashes, wired, inbox, arrived, collided>>
  BY <1>3 DEF AskFails, AskSender, AskChannel, chat
<1>4. ASSUME NEW c \in cards, NEW edited \in BOOLEAN, Answer(c, edited)
      PROVE  /\ UNCHANGED <<sessions, crashes, inbox, arrived, collided>> /\ members \subseteq members'
             /\ \A i \in DOMAIN wired : i \in DOMAIN wired' /\ wired'[i] = wired[i]
  <2>1. UNCHANGED <<sessions, crashes, inbox, arrived, collided>> /\ members \subseteq members'
    BY <1>4 DEF Answer, AnswerIgnored, AllowSender, DenySender, WireChat, DenyChat, chat
  <2>2. wired' = wired \/ \E w : wired' = Append(wired, w)
    BY <1>4 DEF Answer, AnswerIgnored, AllowSender, DenySender, WireChat, DenyChat, chat
  <2> QED
    BY <1>t, <2>1, <2>2
<1>5. CASE HostCrash
  BY <1>t, <1>5 DEF HostCrash, chat
<1>6. CASE UNCHANGED vars
  BY <1>t, <1>6 DEF vars, chat, flows
<1> QED
  BY <1>t, <1>1, <1>2, <1>3, <1>4, <1>5, <1>6 DEF Next

\* A message that engages an agent by a wiring goes on doing so.
LEMMA EngagesStays ==
  ASSUME RouterInvariant, [Next]_vars, NEW w, NEW m \in DOMAIN arrived, Engages(w, m)
  PROVE  Engages(w, m)'
BY NothingForgotten DEF Engages

\* A request for a sender is made where a wiring engages its agent.
LEMMA EngagedInductive == RouterInvariant /\ EngagedSenders /\ [Next]_vars => EngagedSenders'
<1> SUFFICES ASSUME RouterInvariant, EngagedSenders, [Next]_vars,
                    NEW q \in requests' \union cards', q.kind = "sender"
             PROVE  (\E i \in DOMAIN wired : wired[i].agent = q.agent /\ Engages(wired[i], q.msg))'
  BY DEF EngagedSenders
<1>t. TypeOK /\ AheadIsWired /\ AllArrived
  BY DEF RouterInvariant
<1>k. ASSUME NEW i \in DOMAIN wired, wired[i].agent = q.agent, Engages(wired[i], q.msg), q.msg \in DOMAIN arrived
      PROVE  (\E j \in DOMAIN wired : wired[j].agent = q.agent /\ Engages(wired[j], q.msg))'
  <2>1. i \in DOMAIN wired' /\ wired'[i] = wired[i]
    BY <1>k, NothingForgotten
  <2>2. Engages(wired[i], q.msg)'
    BY <1>k, <2>1, NothingForgotten DEF Engages
  <2> QED
    BY <1>k, <2>1, <2>2
<1>1. CASE q \in requests \union cards
  BY <1>1, <1>k, <1>t DEF EngagedSenders, AllArrived
<1>2. ASSUME q \notin requests \union cards, NEW r \in routes, FanOut(r)
      PROVE  (\E i \in DOMAIN wired : wired[i].agent = q.agent /\ Engages(wired[i], q.msg))'
  <2> DEFINE w == Head(r.ahead)
  <2>1. q \in Refused(w, r.msg)
    BY <1>2 DEF FanOut, FanOutTo, FanOutThrows, FanOutSkips
  <2>2. q.msg = r.msg /\ q.agent = w.agent /\ Engages(w, r.msg)
    BY <2>1 DEF Refused
  <2>3. PICK i \in DOMAIN wired : wired[i] = w
    BY <1>t, VisitedFacts
  <2>4. r.msg \in DOMAIN arrived
    BY <1>t DEF AllArrived
  <2> QED
    BY <1>k, <2>2, <2>3, <2>4
<1>3. ASSUME NEW m \in Messages, NEW x \in Incoming, Arrive(m, x) PROVE q \in requests \union cards
  BY <1>3 DEF Arrive
<1>4. ASSUME NEW p \in requests,
             AskFails(p) \/ \E shown \in BOOLEAN : AskSender(p, shown) \/ AskChannel(p, shown)
      PROVE  q \in requests \union cards
  BY <1>4 DEF AskFails, AskSender, AskChannel
<1>5. ASSUME NEW c \in cards, NEW edited \in BOOLEAN, Answer(c, edited) PROVE q \in requests \union cards
  BY <1>5 DEF Answer, AnswerIgnored, AllowSender, DenySender, WireChat, DenyChat
<1>6. CASE HostCrash
  BY <1>1, <1>6 DEF HostCrash
<1>7. CASE UNCHANGED vars
  BY <1>1, <1>7 DEF vars, flows
<1> QED
  BY <1>1, <1>2, <1>3, <1>4, <1>5, <1>6, <1>7 DEF Next

\* A visit of the wiring by which a plain message engages an agent that its sender
\* may talk to wakes the agent, or meets a row of the message.
LEMMA VisitKeeps ==
  ASSUME TypeOK, AheadIsWired, NEW r \in routes, FanOut(r), Engages(Head(r.ahead), r.msg),
         arrived[r.msg].text = "plain", <<arrived[r.msg].sender, Head(r.ahead).agent>> \in members
  PROVE  inbox'[Head(r.ahead).agent][r.msg] = "trigger" \/ r.msg \in collided'
<1> DEFINE w == Head(r.ahead)
<1>1. w.agent \in Agents /\ r.msg \in Messages
  BY VisitedFacts DEF Wiring
<1>2. Admitted(w, r.msg)
  BY DEF Admitted, AccessGate, ScopeGate, CanAccess
<1>3. Command(r.msg) = "pass"
  BY DEF Command
<1>4. CASE Throws(w, r.msg)
  <2>1. collided' = collided \union {r.msg}
    BY <1>2, <1>3, <1>4 DEF FanOut, FanOutTo, FanOutThrows, FanOutSkips
  <2> QED
    BY <2>1
<1>5. CASE ~Throws(w, r.msg)
  <2>1. inbox' = [inbox EXCEPT ![w.agent][r.msg] = "trigger"]
    BY <1>2, <1>3, <1>5 DEF FanOut, FanOutTo, FanOutThrows, FanOutSkips
  <2>2. inbox \in [Agents -> [Messages -> {"none", "context", "trigger"}]]
    BY DEF TypeOK
  <2> HIDE DEF w
  <2>3. inbox'[w.agent][r.msg] = "trigger"
    BY <1>1, <2>1, <2>2
  <2> QED
    BY <2>3 DEF w
<1> QED
  BY <1>4, <1>5

\* A route that a visit does not end goes on with the wirings behind; one that an
\* error ends has met a row of the message.
LEMMA VisitGoesOn ==
  ASSUME TypeOK, AheadIsWired, NEW r \in routes, FanOut(r), arrived[r.msg].text = "plain",
         NEW k \in DOMAIN r.ahead, k # 1
  PROVE  \/ r.msg \in collided'
         \/ \E q \in routes' : q.msg = r.msg /\ \E j \in DOMAIN q.ahead : q.ahead[j] = r.ahead[k]
<1> DEFINE q == [r EXCEPT !.ahead = Tail(@)]
<1>1. r.msg \in Messages /\ r \in [msg : Messages, ahead : Seq(Wiring)] /\ r.ahead # <<>>
  BY VisitedFacts DEF AheadIsWired, TypeOK
<1>2. CASE FanOutThrows(r)
  <2>1. collided' = collided \union {r.msg}
    BY <1>2 DEF FanOutThrows, Command
  <2> QED
    BY <2>1
<1>3. CASE FanOutTo(r) \/ FanOutSkips(r)
  <2>1. q.msg = r.msg /\ q.ahead = Tail(r.ahead)
    BY <1>1
  <2>2. k - 1 \in DOMAIN Tail(r.ahead) /\ Tail(r.ahead)[k - 1] = r.ahead[k] /\ Tail(r.ahead) # <<>>
    BY <1>1
  <2>3. q \in routes'
    BY <1>3, <2>1, <2>2 DEF FanOutTo, FanOutSkips
  <2> QED
    BY <2>1, <2>2, <2>3
<1> QED
  BY <1>2, <1>3 DEF FanOut

\* From the decision on, the agent has been woken for the message, the message has
\* met a row of its own, or a route leads to the agent.
LEMMA GrantInductive == RouterInvariant /\ EngagedSenders /\ GrantFollowed /\ [Next]_vars => GrantFollowed'
<1> SUFFICES ASSUME RouterInvariant, EngagedSenders, GrantFollowed, [Next]_vars, NEW g \in granted'
             PROVE  /\ g[1] \in DOMAIN arrived' /\ <<arrived'[g[1]].sender, g[2]>> \in members'
                    /\ \/ crashes' > 0 \/ arrived'[g[1]].text # "plain"
                       \/ inbox'[g[2]][g[1]] = "trigger" \/ g[1] \in collided'
                       \/ OnItsWay(g[1], g[2])'
  BY DEF GrantFollowed
<1>t. TypeOK /\ AheadIsWired /\ AllArrived /\ crashes \in Nat
  BY RouterAssumption DEF RouterInvariant, TypeOK
<1>f. /\ sessions \subseteq sessions' /\ members \subseteq members' /\ (crashes > 0 => crashes' > 0)
      /\ \A m \in DOMAIN arrived : m \in DOMAIN arrived' /\ arrived'[m] = arrived[m]
      /\ collided \subseteq collided'
      /\ \A a \in Agents, m \in Messages : inbox[a][m] # "none" => inbox'[a][m] = inbox[a][m]
  BY NothingForgotten
<1>1. CASE g \notin granted
  <2>1. PICK c \in cards, edited \in BOOLEAN : AllowSender(c, edited)
    BY <1>1 DEF Next, Arrive, FanOut, FanOutTo, FanOutThrows, FanOutSkips, AskFails, AskSender, AskChannel,
                Answer, AnswerIgnored, DenySender, WireChat, DenyChat, HostCrash, vars, flows
  <2>2. g = <<c.msg, c.agent>> /\ c.kind = "sender" /\ arrived' = arrived
    BY <1>1, <2>1 DEF AllowSender
  <2>3. c.msg \in DOMAIN arrived /\ <<arrived[c.msg].sender, c.agent>> \in members'
    BY <1>t, <2>1 DEF AllowSender, AllArrived
  <2>4. PICK i \in DOMAIN wired : wired[i].agent = c.agent /\ Engages(wired[i], c.msg)
    BY <2>2 DEF EngagedSenders
  <2>5. [msg |-> c.msg, ahead |-> wired] \in routes' /\ UNCHANGED <<arrived, sessions>>
    BY <2>1 DEF AllowSender
  <2>6. OnItsWay(g[1], g[2])'
    BY <2>2, <2>4, <2>5 DEF OnItsWay, Engages
  <2> QED
    BY <2>2, <2>3, <2>6
<1>2. CASE g \in granted
  <2>1. /\ g[1] \in DOMAIN arrived /\ <<arrived[g[1]].sender, g[2]>> \in members
        /\ g[1] \in Messages /\ g[2] \in Agents /\ arrived'[g[1]] = arrived[g[1]] /\ g[1] \in DOMAIN arrived'
    <3>1. g[1] \in DOMAIN arrived /\ <<arrived[g[1]].sender, g[2]>> \in members
      BY <1>2 DEF GrantFollowed
    <3>2. DOMAIN arrived \subseteq Messages /\ g[2] \in Agents
      BY <1>t, <1>2 DEF TypeOK
    <3> QED
      BY <1>f, <3>1, <3>2
  <2>2. crashes > 0 \/ arrived[g[1]].text # "plain" \/ inbox[g[2]][g[1]] = "trigger" \/ g[1] \in collided
        \/ OnItsWay(g[1], g[2])
    BY Zenon, <1>2 DEF GrantFollowed
  <2>3. ASSUME arrived[g[1]].text = "plain", NEW r \in routes, r.msg = g[1],
               NEW k \in DOMAIN r.ahead, r.ahead[k].agent = g[2], Engages(r.ahead[k], g[1])
        PROVE  crashes' > 0 \/ inbox'[g[2]][g[1]] = "trigger" \/ g[1] \in collided' \/ OnItsWay(g[1], g[2])'
    <3>1. ASSUME NEW q \in routes', q.msg = g[1], NEW j \in DOMAIN q.ahead, q.ahead[j] = r.ahead[k]
          PROVE  OnItsWay(g[1], g[2])'
      BY <1>f, <2>1, <2>3, <3>1 DEF OnItsWay, Engages
    <3>2. CASE r \in routes'
      BY <2>3, <3>1, <3>2
    <3>3. CASE FanOut(r)
      <4>1. CASE k = 1
        <5>1. Head(r.ahead) = r.ahead[k]
          BY <1>t, <4>1, AheadFacts DEF TypeOK, AheadIsWired
        <5> QED
          BY <1>t, <2>1, <2>3, <3>3, <5>1, VisitKeeps
      <4>2. CASE k # 1
        BY <1>t, <2>3, <3>1, <3>3, <4>2, VisitGoesOn
      <4> QED
        BY <4>1, <4>2
    <3>4. ASSUME r \notin routes' PROVE FanOut(r) \/ HostCrash
      <4>1. \/ \E m \in Messages, x \in Incoming : Arrive(m, x)
            \/ \E q \in requests : AskFails(q) \/ \E shown \in BOOLEAN : AskSender(q, shown) \/ AskChannel(q, shown)
            \/ \E c \in cards, edited \in BOOLEAN : Answer(c, edited)
            \/ UNCHANGED vars
            => routes \subseteq routes'
        BY DEF Arrive, AskFails, AskSender, AskChannel,
               Answer, AnswerIgnored, AllowSender, DenySender, WireChat, DenyChat, vars
      <4>2. ASSUME NEW q \in routes, FanOut(q) PROVE r = q
        BY <3>4, <4>2 DEF FanOut, FanOutTo, FanOutThrows, FanOutSkips
      <4> QED
        BY <3>4, <4>1, <4>2 DEF Next
    <3>5. CASE HostCrash
      BY <1>t, <3>5 DEF HostCrash
    <3> QED
      BY <3>2, <3>3, <3>4, <3>5
  <2> QED
    <3>1. <<arrived'[g[1]].sender, g[2]>> \in members'
      BY <1>f, <2>1
    <3>2. CASE crashes > 0
      BY <1>f, <1>t, <2>1, <3>1, <3>2
    <3>3. CASE arrived[g[1]].text # "plain"
      BY <2>1, <3>1, <3>3
    <3>4. CASE inbox[g[2]][g[1]] = "trigger" \/ g[1] \in collided
      BY <1>f, <2>1, <3>1, <3>4
    <3>5. CASE arrived[g[1]].text = "plain" /\ OnItsWay(g[1], g[2])
      <4>1. crashes' > 0 \/ inbox'[g[2]][g[1]] = "trigger" \/ g[1] \in collided' \/ OnItsWay(g[1], g[2])'
        BY <2>3, <3>5 DEF OnItsWay
      <4> QED
        BY <2>1, <3>1, <4>1
    <3> QED
      BY <2>2, <3>2, <3>3, <3>4, <3>5
<1> QED
  BY <1>1, <1>2

-----------------------------------------------------------------------------
(* The results *)

\* The inductive invariant holds in every reachable state.
THEOREM RouterCorrect == Spec => []RouterInvariant
<1>1. Init => RouterInvariant
  <2> SUFFICES ASSUME Init PROVE RouterInvariant
    OBVIOUS
  <2>1. denied \in BOOLEAN
    BY Zenon DEF Init
  <2>2. TypeOK
    BY <2>1, RouterAssumption DEF Init, TypeOK
  <2>3. AllArrived /\ AheadIsWired /\ TriggerNeedsAccess /\ OpenCardIsRow
    BY DEF Init, AllArrived, AheadIsWired, TriggerNeedsAccess, OpenCardIsRow
  <2> QED
    BY <2>2, <2>3 DEF RouterInvariant
<1>2. RouterInvariant /\ [Next]_vars => RouterInvariant'
  BY TypeInductive, ArrivedInductive, AheadInductive, AccessInductive, CardInductive DEF RouterInvariant
<1> QED
  BY <1>1, <1>2, PTL DEF Spec

\* Every variable stays in its type, for all messages, wirings and policies.
THEOREM TypeCorrect == Spec => []TypeOK
<1>1. RouterInvariant => TypeOK
  BY DEF RouterInvariant
<1> QED
  BY <1>1, RouterCorrect, PTL

\* No agent is woken for a sender who may not talk to it, whatever wirings the
\* chat has and however often a message is routed.
THEOREM GatesHold == Spec => []TriggerNeedsAccess
<1>1. RouterInvariant => TriggerNeedsAccess
  BY DEF RouterInvariant
<1> QED
  BY <1>1, RouterCorrect, PTL

\* Whoever presses a button of a card that is still to be decided finds its row.
THEOREM CardsCanBeDecided == Spec => []OpenCardHasRow
<1>1. RouterInvariant => OpenCardHasRow
  <2> SUFFICES ASSUME RouterInvariant, NEW c \in cards \ decided PROVE HasRow(c)
    BY DEF OpenCardHasRow
  <2>1. c \in Request /\ RowOf(c)
    BY DEF RouterInvariant, TypeOK, OpenCardIsRow
  <2>2. [msg |-> c.msg, agent |-> c.agent] # NoRow
    BY <2>1, RouterAssumption DEF Request
  <2> QED
    BY <2>1, <2>2 DEF RowOf, HasRow, Request
<1> QED
  BY <1>1, RouterCorrect, PTL

\* The message a sender was allowed for wakes the agent it was allowed for: whatever
\* wirings refuse it on the way, when its routing has ended the agent's row is a
\* trigger, unless the host crashed, the text is a command or the replay met a row
\* of the message that an inbox held already.
THEOREM ApprovedArrives == Spec => []ApprovedNotLost
<1>1. Init => EngagedSenders /\ GrantFollowed
  BY DEF Init, EngagedSenders, GrantFollowed
<1>2. RouterInvariant /\ EngagedSenders /\ GrantFollowed /\ [Next]_vars => (EngagedSenders /\ GrantFollowed)'
  BY EngagedInductive, GrantInductive
<1>3. GrantFollowed => ApprovedNotLost
  <2> SUFFICES ASSUME GrantFollowed, NEW g \in granted,
                      crashes = 0, arrived[g[1]].text = "plain", \A r \in routes : r.msg # g[1]
               PROVE  inbox[g[2]][g[1]] = "trigger" \/ g[1] \in collided
    BY DEF ApprovedNotLost
  <2>1. ~OnItsWay(g[1], g[2])
    BY DEF OnItsWay
  <2> QED
    <3>1. \/ crashes > 0 \/ arrived[g[1]].text # "plain"
          \/ inbox[g[2]][g[1]] = "trigger" \/ g[1] \in collided
          \/ OnItsWay(g[1], g[2])
      BY Zenon DEF GrantFollowed
    <3>2. ~(crashes > 0)
      OBVIOUS
    <3> QED
      BY <2>1, <3>1, <3>2
<1> QED
  BY <1>1, <1>2, <1>3, RouterCorrect, PTL DEF Spec

\* No step changes a row of a message in an inbox, or takes a member or a session away, or a
\* wiring out of its place.
THEOREM OnlyAdded ==
  Spec => [][/\ sessions \subseteq sessions' /\ members \subseteq members'
             /\ \A i \in DOMAIN wired : i \in DOMAIN wired' /\ wired'[i] = wired[i]
             /\ \A a \in Agents, m \in Messages : inbox[a][m] # "none" => inbox'[a][m] = inbox[a][m]]_vars
<1>1. RouterInvariant /\ [Next]_vars =>
        [/\ sessions \subseteq sessions' /\ members \subseteq members'
         /\ \A i \in DOMAIN wired : i \in DOMAIN wired' /\ wired'[i] = wired[i]
         /\ \A a \in Agents, m \in Messages : inbox[a][m] # "none" => inbox'[a][m] = inbox[a][m]]_vars
  BY NothingForgotten
<1> QED
  BY <1>1, RouterCorrect, PTL DEF Spec

-----------------------------------------------------------------------------
(* Setup, from whose pairing the first chats come: the file that its two   *)
(* processes share                                                         *)

Record == [code : Codes, status : {"pending", "invalidated", "consumed"}, chat : Chats \union {NoChat}]

LEMMA MinIsLeast ==
  ASSUME NEW I \in SUBSET Nat, I # {}
  PROVE  Min(I) \in I /\ \A j \in I : Min(I) <= j
<1>1. PICK x \in I : \A y \in I : <<y, x>> \notin OpToRel(<, Nat)
  BY WFMin, NatLessThanWellFounded
<1>2. \A y \in I : ~(y < x)
  BY <1>1 DEF OpToRel
<1>3. \A y \in I : x <= y
  BY <1>2
<1> QED
  BY <1>3 DEF Min

\* Both lookups find a record with the code, or none.
LEMMA LookupFacts ==
  ASSUME NEW f \in Seq(Record), NEW code
  PROVE  /\ Lookup(f, code) = 0 \/ (Lookup(f, code) \in 1..Len(f) /\ f[Lookup(f, code)].code = code)
         /\ LookupPending(f, code) = 0
              \/ (LookupPending(f, code) \in 1..Len(f) /\ f[LookupPending(f, code)].code = code)
<1>1. {k \in 1..Len(f) : f[k].code = code} \in SUBSET Nat
  OBVIOUS
<1>2. {k \in 1..Len(f) : f[k].code = code /\ f[k].status = "pending"} \in SUBSET Nat
  OBVIOUS
<1> QED
  BY <1>1, <1>2, MinIsLeast DEF Lookup, LookupPending, SelectInSeq

\* Every record of f is one of g, which may have been invalidated since.
DrawnFrom(f, g) ==
  \A k \in DOMAIN f : \E l \in DOMAIN g :
    /\ f[k].code = g[l].code
    /\ f[k].status = "consumed" => g[l].status = "consumed" /\ g[l].chat = f[k].chat

LEMMA StoredFacts ==
  ASSUME file \in Seq(Record)
  PROVE  Stored \in Seq(Record) /\ DrawnFrom(Stored, file)
<1> DEFINE from == IF Len(file) > MaxRecords THEN Len(file) - MaxRecords + 1 ELSE 1
<1>1. from \in Nat \ {0} /\ Len(file) \in Nat
  BY LimitsAssumption
<1>2. Stored = SubSeq(file, from, Len(file))
  BY DEF Stored
<1> HIDE DEF from
<1>3. \A i \in from..Len(file) : file[i] \in Record /\ i \in DOMAIN file
  BY <1>1
<1>4. /\ Stored \in Seq(Record)
      /\ Len(Stored) = IF from <= Len(file) THEN Len(file) - from + 1 ELSE 0
      /\ \A k \in 1..(Len(file) - from + 1) : Stored[k] = file[from + k - 1]
  BY <1>1, <1>2, <1>3, SubSeqProperties
<1>5. ASSUME NEW k \in DOMAIN Stored PROVE \E l \in DOMAIN file : Stored[k] = file[l]
  <2>1. k \in 1..(Len(file) - from + 1)
    BY <1>1, <1>4
  <2>2. from + k - 1 \in DOMAIN file
    BY <1>1, <1>3, <2>1
  <2> QED
    BY <1>4, <2>1, <2>2
<1> QED
  BY <1>4, <1>5 DEF DrawnFrom

LEMMA InvalidatedFacts ==
  ASSUME NEW f \in Seq(Record)
  PROVE  Invalidated(f) \in Seq(Record) /\ DrawnFrom(Invalidated(f), f)
<1> DEFINE g == Invalidated(f)
<1>1. \A r \in Record : /\ [r EXCEPT !.status = "invalidated"] \in Record
                        /\ [r EXCEPT !.status = "invalidated"].code = r.code
                        /\ [r EXCEPT !.status = "invalidated"].status = "invalidated"
  BY DEF Record
<1>2. DOMAIN f = 1..Len(f) /\ Len(f) \in Nat /\ \A k \in DOMAIN f : f[k] \in Record
  OBVIOUS
<1>3. /\ g \in [1..Len(f) -> Record]
      /\ \A k \in DOMAIN f : g[k] = IF f[k].status = "pending" THEN [f[k] EXCEPT !.status = "invalidated"]
                                    ELSE f[k]
  BY <1>1, <1>2 DEF Invalidated
<1>4. g \in Seq(Record) /\ DOMAIN g = DOMAIN f
  BY <1>2, <1>3, SeqDef
<1> HIDE DEF g
<1>5. DrawnFrom(g, f)
  BY <1>1, <1>2, <1>3, <1>4 DEF DrawnFrom
<1> QED
  BY <1>4, <1>5 DEF g

-----------------------------------------------------------------------------
(* The chat that is paired sent the code *)

PairRecord ==
  [phase : {"off", "issuing", "writing", "waiting", "ok", "failed"}, code : Codes \union {NoCode},
   chat : Chats \union {NoChat}, regen : Nat, snap : Seq(Record)]
HostRecord ==
  [up : BOOLEAN, named : BOOLEAN, phase : {"idle", "read", "consumed"}, chat : Chats \union {NoChat},
   code : Codes \union {NoCode}, snap : Seq(Record)]

LEMMA HostIdleType ==
  ASSUME NEW up \in BOOLEAN, NEW named \in BOOLEAN
  PROVE  /\ HostIdle(up, named) \in HostRecord /\ HostIdle(up, named).phase = "idle"
         /\ HostIdle(up, named).snap = <<>>
<1>1. <<>> \in Seq(Record)
  OBVIOUS
<1> QED
  BY <1>1 DEF HostIdle, HostRecord

PairTypes == file \in Seq(Record) /\ pair \in PairRecord /\ host \in HostRecord

Known(f) == \A k \in DOMAIN f : f[k].code \in issued

\* A code that was not on show before is, and whoever consumed it sent it since.
Shown == pair.phase = "waiting" /\ ~reused
EchoedIn(f) ==
  \A k \in DOMAIN f : f[k].code = pair.code /\ f[k].status = "consumed" => f[k].chat \in echoed
\* So has a chat whose message is about to consume it.
ConsumerEchoes ==
  host.phase = "read" /\ host.code = pair.code
    /\ (\E k \in DOMAIN host.snap : host.snap[k].code = pair.code) => host.chat \in echoed

PairInvariant ==
  /\ PairTypes /\ PairedChatEchoed
  /\ Known(file) /\ Known(pair.snap) /\ Known(host.snap)
  /\ Shown => EchoedIn(file) /\ EchoedIn(host.snap) /\ ConsumerEchoes

LEMMA DrawnKeeps ==
  ASSUME NEW f, NEW g, DrawnFrom(f, g)
  PROVE  (Known(g) => Known(f)) /\ (EchoedIn(g) => EchoedIn(f))
<1>1. ASSUME Known(g) PROVE Known(f)
  BY <1>1 DEF DrawnFrom, Known
<1>2. ASSUME EchoedIn(g) PROVE EchoedIn(f)
  BY <1>2 DEF DrawnFrom, EchoedIn
<1> QED
  BY <1>1, <1>2

\* What neither writes the file nor takes a message, and pairs no chat.
CalmPairing ==
  /\ UNCHANGED <<file, echoed, issued, reused>>
  /\ pair' = pair \/ /\ pair' \in PairRecord /\ pair'.phase \notin {"waiting", "ok"}
                     /\ pair'.snap \in {<<>>, pair.snap, Stored}
  /\ host' = host \/ (host' \in HostRecord /\ host'.phase # "read" /\ host'.snap = <<>>)

LEMMA CalmKeepsPairing ==
  ASSUME PairInvariant, CalmPairing
  PROVE  PairInvariant'
<1>1. Stored \in Seq(Record) /\ Known(Stored)
  BY StoredFacts, DrawnKeeps DEF PairInvariant, PairTypes
<1>2. PairTypes'
  BY DEF CalmPairing, PairInvariant, PairTypes
<1>3. Known(file)' /\ Known(pair.snap)' /\ Known(host.snap)'
  BY <1>1 DEF CalmPairing, PairInvariant, Known
<1>4. PairedChatEchoed'
  BY DEF CalmPairing, PairInvariant, PairedChatEchoed
<1>5. ASSUME Shown' PROVE EchoedIn(file)' /\ EchoedIn(host.snap)' /\ ConsumerEchoes'
  <2>1. Shown /\ pair' = pair /\ UNCHANGED <<file, echoed, reused>>
    BY <1>5 DEF CalmPairing, Shown
  <2>2. EchoedIn(file) /\ EchoedIn(host.snap) /\ ConsumerEchoes
    BY <2>1 DEF PairInvariant
  <2>3. host' = host \/ (host'.phase # "read" /\ host'.snap = <<>>)
    BY DEF CalmPairing
  <2> QED
    BY <2>1, <2>2, <2>3 DEF EchoedIn, ConsumerEchoes
<1> QED
  BY <1>2, <1>3, <1>4, <1>5 DEF PairInvariant

\* A code that is new is on no record: nobody has consumed it.
LEMMA IssueKeepsPairing ==
  ASSUME PairInvariant, IssueWrite
  PROVE  PairInvariant'
<1> DEFINE old == Invalidated(pair.snap)
<1>1. pair.snap \in Seq(Record) /\ Known(pair.snap) /\ Known(host.snap) /\ pair \in PairRecord
  BY DEF PairInvariant, PairTypes, PairRecord
<1>2. PICK code \in Codes :
        /\ file' = Append(old, [code |-> code, status |-> "pending", chat |-> NoChat])
        /\ pair' = [pair EXCEPT !.phase = "waiting", !.code = code, !.snap = <<>>]
        /\ reused' = (code \in issued) /\ issued' = issued \union {code}
  BY DEF IssueWrite, FreeCodes
<1>3. host' = host
  BY DEF IssueWrite
<1> DEFINE new == [code |-> code, status |-> "pending", chat |-> NoChat]
<1>4. old \in Seq(Record) /\ Known(old)
  BY <1>1, InvalidatedFacts, DrawnKeeps
<1>5. new \in Record
  BY DEF Record
<1> HIDE DEF old
<1>6. /\ file' \in Seq(Record)
      /\ \A k \in DOMAIN file' : file'[k] = new \/ \E l \in DOMAIN old : file'[k] = old[l]
  <2>1. /\ file' \in Seq(Record) /\ Len(file') = Len(old) + 1 /\ file'[Len(old) + 1] = new
        /\ \A i \in 1..Len(old) : file'[i] = old[i]
    BY <1>2, <1>4, <1>5, AppendProperties
  <2>2. DOMAIN file' = 1..(Len(old) + 1) /\ DOMAIN old = 1..Len(old) /\ Len(old) \in Nat
    BY <1>4, <2>1
  <2> QED
    BY <2>1, <2>2
<1>7. /\ pair' \in PairRecord /\ pair'.phase = "waiting" /\ pair'.code = code /\ pair'.snap = <<>>
  <2>1. <<>> \in Seq(Record)
    OBVIOUS
  <2> QED
    BY <1>1, <1>2, <2>1 DEF PairRecord
<1>8. PairTypes'
  BY <1>3, <1>6, <1>7 DEF PairInvariant, PairTypes
<1>9. Known(file)' /\ Known(pair.snap)' /\ Known(host.snap)'
  BY <1>1, <1>2, <1>3, <1>4, <1>6, <1>7 DEF Known
<1>10. PairedChatEchoed'
  BY <1>7 DEF PairedChatEchoed
<1>11. ASSUME Shown' PROVE EchoedIn(file)' /\ EchoedIn(host.snap)' /\ ConsumerEchoes'
  <2>1. code \notin issued
    BY <1>2, <1>11 DEF Shown
  <2>2. EchoedIn(file)'
    BY <1>4, <1>6, <1>7, <2>1 DEF EchoedIn, Known
  <2>3. \A k \in DOMAIN host.snap : host.snap[k].code # code
    BY <1>1, <2>1 DEF Known
  <2> QED
    BY <1>3, <1>7, <2>2, <2>3 DEF EchoedIn, ConsumerEchoes
<1> QED
  BY <1>8, <1>9, <1>10, <1>11 DEF PairInvariant

\* The chat taken over is that of a record with the code.
LEMMA CheckKeepsPairing ==
  ASSUME PairInvariant, CheckPairing
  PROVE  PairInvariant'
<1> DEFINE k == Lookup(Stored, pair.code)
<1>1. pair \in PairRecord /\ file \in Seq(Record) /\ pair.phase = "waiting"
  BY DEF PairInvariant, PairTypes, CheckPairing
<1>2. Stored \in Seq(Record) /\ DrawnFrom(Stored, file)
  BY <1>1, StoredFacts
<1>3. UNCHANGED <<file, host, echoed, issued, reused>>
  BY DEF CheckPairing
<1>4. CASE k # 0 /\ Stored[k].status = "consumed" /\ pair' = [pair EXCEPT !.phase = "ok", !.chat = Stored[k].chat]
  <2>1. k \in DOMAIN Stored /\ Stored[k].code = pair.code
    BY <1>2, <1>4, LookupFacts
  <2>2. Stored[k].chat \in Chats \union {NoChat}
    <3>1. Stored[k] \in Record
      BY <1>2, <2>1
    <3> QED
      BY <3>1 DEF Record
  <2>3. pair' \in PairRecord /\ pair'.phase = "ok" /\ pair'.chat = Stored[k].chat /\ pair'.snap = pair.snap
    BY <1>1, <1>4, <2>2 DEF PairRecord
  <2>4. ~reused => Stored[k].chat \in echoed
    <3>1. ~reused => EchoedIn(Stored)
      BY <1>1, <1>2, DrawnKeeps DEF PairInvariant, Shown
    <3> QED
      BY <1>4, <2>1, <3>1 DEF EchoedIn
  <2>5. PairedChatEchoed'
    BY <1>3, <2>3, <2>4 DEF PairedChatEchoed
  <2>6. PairTypes' /\ Known(file)' /\ Known(pair.snap)' /\ Known(host.snap)' /\ ~Shown'
    BY <1>3, <2>3 DEF PairInvariant, PairTypes, Known, Shown
  <2> QED
    BY <2>5, <2>6 DEF PairInvariant
<1>5. CASE \/ pair' = [pair EXCEPT !.phase = "failed"]
           \/ pair' = [pair EXCEPT !.phase = "issuing", !.regen = pair.regen + 1]
  <2>1. pair.regen + 1 \in Nat
    BY <1>1 DEF PairRecord
  <2>2. pair' \in PairRecord /\ pair'.phase \notin {"waiting", "ok"} /\ pair'.snap = pair.snap
    BY <1>1, <1>5, <2>1 DEF PairRecord
  <2> QED
    BY <1>3, <2>2, CalmKeepsPairing DEF CalmPairing
<1> QED
  BY <1>4, <1>5 DEF CheckPairing

\* A chat that sends the code on show is one of those who did.
LEMMA ReceiveKeepsPairing ==
  ASSUME PairInvariant, NEW writer \in Chats, NEW code \in Codes \union {NoCode},
         Receive(writer, code)
  PROVE  PairInvariant'
<1>1. /\ host \in HostRecord /\ file \in Seq(Record)
      /\ \/ host' = [host EXCEPT !.phase = "read", !.chat = writer, !.code = code, !.snap = Stored]
         \/ host' = host
      /\ echoed' = IF pair.phase = "waiting" /\ pair.code = code THEN echoed \union {writer} ELSE echoed
      /\ UNCHANGED <<file, pair, issued, reused>>
  BY DEF PairInvariant, PairTypes, Receive
<1>2. Stored \in Seq(Record) /\ DrawnFrom(Stored, file)
  BY <1>1, StoredFacts
<1>3. /\ host' \in HostRecord
      /\ \/ host'.chat = writer /\ host'.code = code /\ host'.snap = Stored
         \/ host' = host
  BY <1>1, <1>2 DEF HostRecord
<1>4. PairTypes'
  BY <1>1, <1>3 DEF PairInvariant, PairTypes
<1>5. Known(Stored)
  BY <1>2, DrawnKeeps DEF PairInvariant
<1>6. Known(file)' /\ Known(pair.snap)' /\ Known(host.snap)' /\ PairedChatEchoed'
  BY <1>1, <1>3, <1>5 DEF PairInvariant, Known, PairedChatEchoed
<1>7. ASSUME Shown' PROVE EchoedIn(file)' /\ EchoedIn(host.snap)' /\ ConsumerEchoes'
  <2>1. Shown
    BY <1>1, <1>7 DEF Shown
  <2>2. EchoedIn(file) /\ EchoedIn(Stored) /\ EchoedIn(host.snap) /\ ConsumerEchoes
    BY <1>2, <2>1, DrawnKeeps DEF PairInvariant
  <2>3. echoed \subseteq echoed' /\ (pair.code = code => writer \in echoed')
    BY <1>1, <2>1 DEF Shown
  <2> QED
    BY <1>1, <1>3, <2>2, <2>3 DEF EchoedIn, ConsumerEchoes
<1> QED
  BY <1>4, <1>6, <1>7 DEF PairInvariant

\* What is consumed is consumed by the chat of the message.
LEMMA ConsumeKeepsPairing ==
  ASSUME PairInvariant, Consume
  PROVE  PairInvariant'
<1> DEFINE k == LookupPending(host.snap, host.code)
<1>1. /\ host \in HostRecord /\ host.snap \in Seq(Record) /\ host.phase = "read"
      /\ UNCHANGED <<pair, echoed, issued, reused>>
  BY DEF PairInvariant, PairTypes, HostRecord, Consume
<1>2. /\ host' \in HostRecord /\ host'.phase # "read" /\ host'.snap = <<>>
  <2>1. LET h == HostIdle(TRUE, host.named)
        IN  h \in HostRecord /\ h.phase # "read" /\ h.snap = <<>>
    <3>1. host.named \in BOOLEAN
      BY <1>1 DEF HostRecord
    <3> QED
      BY <3>1, HostIdleType
  <2>2. <<>> \in Seq(Record)
    OBVIOUS
  <2>3. LET h == [host EXCEPT !.phase = "consumed", !.snap = <<>>]
        IN  h \in HostRecord /\ h.phase # "read" /\ h.snap = <<>>
    BY <1>1, <2>2 DEF HostRecord
  <2> QED
    BY <2>1, <2>3 DEF Consume
<1>3. /\ file' \in Seq(Record) /\ Known(file')
      /\ Shown => EchoedIn(file')
  <2>1. CASE k = 0
    <3>1. file' = Invalidated(host.snap)
      BY <2>1 DEF Consume
    <3> QED
      BY <1>1, <3>1, InvalidatedFacts, DrawnKeeps DEF PairInvariant
  <2>2. CASE k # 0
    <3> DEFINE r == [host.snap[k] EXCEPT !.status = "consumed", !.chat = host.chat]
    <3>1. file' = [host.snap EXCEPT ![k] = r]
      BY <2>2 DEF Consume
    <3>2. k \in 1..Len(host.snap) /\ host.snap[k].code = host.code
      BY <1>1, <2>2, LookupFacts
    <3>3. r \in Record /\ r.code = host.code /\ r.chat = host.chat
      <4>1. host.snap[k] \in Record /\ host.chat \in Chats \union {NoChat}
        BY <1>1, <3>2 DEF HostRecord
      <4> QED
        BY <3>2, <4>1 DEF Record
    <3> HIDE DEF r
    <3>4. /\ file' \in Seq(Record) /\ Len(file') = Len(host.snap)
          /\ \A i \in 1..Len(host.snap) : file'[i] = IF i = k THEN r ELSE host.snap[i]
      BY <1>1, <3>1, <3>2, <3>3, ExceptSeq
    <3>5. DOMAIN file' = 1..Len(host.snap) /\ DOMAIN host.snap = 1..Len(host.snap)
      BY <1>1, <3>4
    <3>6. Known(file')
      BY <3>2, <3>3, <3>4, <3>5 DEF PairInvariant, Known
    <3>7. ASSUME Shown PROVE EchoedIn(file')
      <4>1. EchoedIn(host.snap) /\ (host.code = pair.code => host.chat \in echoed)
        BY <1>1, <3>2, <3>5, <3>7 DEF PairInvariant, ConsumerEchoes
      <4> QED
        BY <3>3, <3>4, <3>5, <4>1 DEF EchoedIn
    <3> QED
      BY <3>4, <3>6, <3>7
  <2> QED
    BY <2>1, <2>2
<1>4. PairTypes' /\ PairedChatEchoed'
  BY <1>1, <1>2, <1>3 DEF PairInvariant, PairTypes, PairedChatEchoed
<1>5. Known(file)' /\ Known(pair.snap)' /\ Known(host.snap)'
  BY <1>1, <1>2, <1>3 DEF PairInvariant, Known
<1>6. ASSUME Shown' PROVE EchoedIn(file)' /\ EchoedIn(host.snap)' /\ ConsumerEchoes'
  <2>1. Shown
    BY <1>1, <1>6 DEF Shown
  <2> QED
    BY <1>1, <1>2, <1>3, <2>1 DEF EchoedIn, ConsumerEchoes
<1> QED
  BY <1>4, <1>5, <1>6 DEF PairInvariant

-----------------------------------------------------------------------------
(* What setup says it completed is in place *)

StepNames ==
  {"environment", "container", "onecli", "auth", "mounts", "service", "cli-agent", "timezone",
   "channel", "verify"}
FlowNames ==
  {"token", "identify", "install", "dm", "tool", "link", "restart", "mode", "register", "bot",
   "package", "sideload", "handoff", "pair", "connect"}
Driver ==
  [state : {"running", "failed", "completed", "incomplete", "stopped"}, at : 1..10,
   sub : {"start", "ping", "asked", "persist"}, skip : SUBSET StepNames, completed : SUBSET StepNames,
   todo : Seq(FlowNames), channel : {"none", "telegram"} \union OtherChannels,
   chat : Chats \union {NoChat}, prompt : {"none", "diagnose", "retry"}, reexec : BOOLEAN,
   zone : {"open", "named", "set", "failed"}]

\* What a step that completes has put in place.
EffectOf(step) ==
  {r \in Resources : \/ step = "container" /\ r = "image"
                     \/ step = "onecli" /\ r \in {"gateway", "url"}
                     \/ step = "auth" /\ r = "secret"
                     \/ step = "mounts" /\ r = "rules"
                     \/ step = "service" /\ r = "unit"
                     \/ step = "cli-agent" /\ r \in {"agent", "cli"}}

Connected(c) == c \in connected /\ c \in registered

AboutToConnect == driver.at = 9 /\ driver.channel = "telegram" /\ Len(driver.todo) = 1

\* What is left of the flow of Telegram are its last parts; no other flow pairs.
FlowIsGood ==
  /\ driver.channel = "telegram" =>
       /\ Len(driver.todo) <= 4
       /\ \A k \in 1..Len(driver.todo) : driver.todo[k] = TelegramFlow[4 - Len(driver.todo) + k]
  /\ driver.channel # "telegram" => \A k \in 1..Len(driver.todo) : driver.todo[k] # "pair"

\* The steps that may be skipped, and those that lie behind, have done what they
\* are for; so has the first half of the step of the CLI agent.
BehindInPlace ==
  /\ \A step \in driver.skip \union driver.completed :
       step \notin {"channel", "verify"} /\ EffectOf(step) \subseteq inPlace
  /\ \A k \in 1..(driver.at - 1) : EffectOf(Steps[k]) \subseteq inPlace
  /\ driver.sub = "ping" => EffectOf("cli-agent") \subseteq inPlace

SetupInvariant ==
  /\ driver \in Driver
  /\ BehindInPlace
  /\ FlowIsGood
  /\ driver.state = "completed" => driver.at = 10
  /\ driver.chat # NoChat => Connected(driver.chat) \/ AboutToConnect

LEMMA StepFacts ==
  ASSUME NEW k \in 1..10
  PROVE  /\ Steps[k] \in StepNames
         /\ Steps[k] = "channel" <=> k = 9
         /\ Steps[k] = "verify" <=> k = 10
<1>1. \/ k = 1 \/ k = 2 \/ k = 3 \/ k = 4 \/ k = 5 \/ k = 6 \/ k = 7 \/ k = 8 \/ k = 9 \/ k = 10
  OBVIOUS
<1>2. /\ Steps[1] = "environment" /\ Steps[2] = "container" /\ Steps[3] = "onecli"
      /\ Steps[4] = "auth" /\ Steps[5] = "mounts" /\ Steps[6] = "service"
      /\ Steps[7] = "cli-agent" /\ Steps[8] = "timezone" /\ Steps[9] = "channel"
      /\ Steps[10] = "verify"
  BY DEF Steps
<1>3. Steps[k] = "channel" <=> k = 9
  BY <1>1, <1>2
<1>4. Steps[k] = "verify" <=> k = 10
  BY <1>1, <1>2
<1>5. Steps[k] \in StepNames
  BY <1>1, <1>2 DEF StepNames
<1> QED
  BY <1>3, <1>4, <1>5

\* All that setup puts in place lies behind the last step.
LEMMA LastStepFacts ==
  ASSUME SetupInvariant, driver.at = 10
  PROVE  Resources \subseteq inPlace
<1>1. \A k \in 1..9 : EffectOf(Steps[k]) \subseteq inPlace
  BY DEF SetupInvariant, BehindInPlace
<1>2. /\ EffectOf("container") \subseteq inPlace /\ EffectOf("onecli") \subseteq inPlace
      /\ EffectOf("auth") \subseteq inPlace /\ EffectOf("mounts") \subseteq inPlace
      /\ EffectOf("service") \subseteq inPlace /\ EffectOf("cli-agent") \subseteq inPlace
  <2>1. /\ Steps[2] = "container" /\ Steps[3] = "onecli" /\ Steps[4] = "auth"
        /\ Steps[5] = "mounts" /\ Steps[6] = "service" /\ Steps[7] = "cli-agent"
    BY DEF Steps
  <2> QED
    BY <1>1, <2>1
<1> QED
  BY <1>2 DEF EffectOf, Resources

\* Nothing that was put in place is taken away, nor any chat.
Grows == inPlace \subseteq inPlace' /\ registered \subseteq registered' /\ connected \subseteq connected'

\* The driver stays at its step, at which it may log a step whose effect is there.
StaysAtStep ==
  /\ Grows /\ driver' \in Driver
  /\ driver'.at = driver.at /\ driver'.skip = driver.skip /\ driver'.todo = driver.todo
  /\ driver'.channel = driver.channel /\ driver'.chat = driver.chat
  /\ driver'.state = "completed" => driver.state = "completed" \/ driver.at = 10
  /\ \A step \in driver'.completed \ driver.completed :
       step \notin {"channel", "verify"} /\ EffectOf(step) \subseteq inPlace'
  /\ driver'.sub = "ping" => driver.sub = "ping" \/ EffectOf("cli-agent") \subseteq inPlace'

LEMMA StayKeepsSetup ==
  ASSUME SetupInvariant, StaysAtStep
  PROVE  SetupInvariant'
<1>1. BehindInPlace'
  <2>1. \A step \in driver'.skip \union driver'.completed :
          step \notin {"channel", "verify"} /\ EffectOf(step) \subseteq inPlace'
    BY DEF SetupInvariant, BehindInPlace, StaysAtStep, Grows
  <2>2. \A k \in 1..(driver'.at - 1) : EffectOf(Steps[k]) \subseteq inPlace'
    BY DEF SetupInvariant, BehindInPlace, StaysAtStep, Grows
  <2>3. driver'.sub = "ping" => EffectOf("cli-agent") \subseteq inPlace'
    BY DEF SetupInvariant, BehindInPlace, StaysAtStep, Grows
  <2> QED
    BY <2>1, <2>2, <2>3 DEF BehindInPlace, EffectOf, Resources, Steps
<1>2. FlowIsGood'
  BY DEF SetupInvariant, FlowIsGood, StaysAtStep, TelegramFlow
<1>3. driver'.chat # NoChat => Connected(driver.chat)' \/ AboutToConnect'
  BY DEF SetupInvariant, StaysAtStep, Grows, Connected, AboutToConnect
<1> QED
  BY <1>1, <1>2, <1>3 DEF SetupInvariant, StaysAtStep, Connected

\* The driver goes on to the next step.
GoesToNext ==
  /\ Grows /\ driver' \in Driver
  /\ EffectOf(Steps[driver.at]) \subseteq inPlace' /\ driver.at # 10
  /\ driver.at = 9 => driver.todo = <<>> /\ driver'.completed = driver.completed
  /\ driver'.at = driver.at + 1 /\ driver'.sub = "start" /\ driver'.skip = driver.skip
  /\ driver'.completed \subseteq driver.completed \union {Steps[driver.at]}
  /\ driver'.todo = driver.todo /\ driver'.channel = driver.channel /\ driver'.chat = driver.chat
  /\ driver'.state = driver.state

LEMMA NextStepKeepsSetup ==
  ASSUME SetupInvariant, GoesToNext
  PROVE  SetupInvariant'
<1>1. driver.at \in 1..9
  BY DEF SetupInvariant, Driver, GoesToNext
<1>2. BehindInPlace'
  <2>1. \A step \in driver'.skip \union driver'.completed :
          step \notin {"channel", "verify"} /\ EffectOf(step) \subseteq inPlace'
    BY <1>1, StepFacts DEF SetupInvariant, BehindInPlace, GoesToNext, Grows
  <2>2. ASSUME NEW k \in 1..(driver'.at - 1) PROVE EffectOf(Steps[k]) \subseteq inPlace'
    <3>1. k = driver.at \/ k \in 1..(driver.at - 1)
      BY <1>1 DEF GoesToNext
    <3> QED
      BY <3>1 DEF SetupInvariant, BehindInPlace, GoesToNext, Grows
  <2>3. driver'.sub # "ping"
    BY DEF GoesToNext
  <2> QED
    BY <2>1, <2>2, <2>3 DEF BehindInPlace, EffectOf, Resources, Steps
<1>3. FlowIsGood'
  BY DEF SetupInvariant, FlowIsGood, GoesToNext, TelegramFlow
<1>4. driver'.chat # NoChat => Connected(driver.chat)'
  <2>1. ~AboutToConnect
    <3>1. Len(<<>>) = 0
      OBVIOUS
    <3> QED
      BY <3>1 DEF GoesToNext, AboutToConnect
  <2>2. driver.chat # NoChat => Connected(driver.chat)
    BY <2>1 DEF SetupInvariant
  <2> QED
    BY <2>2 DEF GoesToNext, Grows, Connected
<1>5. driver'.state = "completed" => driver'.at = 10
  BY <1>1 DEF SetupInvariant, GoesToNext
<1> QED
  BY <1>2, <1>3, <1>4, <1>5 DEF SetupInvariant, GoesToNext, Connected

\* The driver runs again from the top.
RunsAgain ==
  /\ Grows
  /\ \E skip \in SUBSET (driver.skip \union driver.completed), reexec \in BOOLEAN :
       driver' = Fresh(skip, reexec, driver.zone)

LEMMA RunKeepsSetup ==
  ASSUME SetupInvariant, RunsAgain
  PROVE  SetupInvariant'
<1>1. PICK skip \in SUBSET (driver.skip \union driver.completed), reexec \in BOOLEAN :
        driver' = Fresh(skip, reexec, driver.zone)
  BY DEF RunsAgain
<1>2. /\ driver'.state = "running" /\ driver'.at = 1 /\ driver'.sub = "start" /\ driver'.skip = skip
      /\ driver'.completed = {} /\ driver'.todo = <<>> /\ driver'.channel = "none"
      /\ driver'.chat = NoChat
  BY <1>1 DEF Fresh
<1>3. driver' \in Driver
  <2>1. /\ skip \in SUBSET StepNames /\ <<>> \in Seq(FlowNames) /\ {} \in SUBSET StepNames
        /\ driver.zone \in {"open", "named", "set", "failed"}
    BY DEF SetupInvariant, Driver
  <2> QED
    BY <1>1, <2>1 DEF Fresh, Driver
<1>4. BehindInPlace'
  <2>1. \A step \in driver'.skip \union driver'.completed :
          step \notin {"channel", "verify"} /\ EffectOf(step) \subseteq inPlace'
    BY <1>2 DEF SetupInvariant, BehindInPlace, RunsAgain, Grows
  <2>2. 1..(driver'.at - 1) = {} /\ driver'.sub # "ping"
    BY <1>2
  <2> QED
    BY <2>1, <2>2 DEF BehindInPlace, EffectOf, Resources, Steps
<1>5. FlowIsGood'
  <2>1. Len(<<>>) = 0
    OBVIOUS
  <2> QED
    BY <1>2, <2>1 DEF FlowIsGood
<1> QED
  BY <1>2, <1>3, <1>4, <1>5 DEF SetupInvariant

\* The flow of the channel goes on, or ends. The chat is kept, or connected, or
\* paired for the next part to connect.
FlowGoesOn ==
  /\ Grows /\ driver' \in Driver
  /\ driver.at = 9 /\ driver.todo # <<>> /\ driver.state = "running"
  /\ driver'.state = "running" /\ driver'.skip = driver.skip /\ driver'.completed = driver.completed
  /\ driver'.sub = driver.sub
  /\ \/ driver'.at = 9 /\ driver'.todo = Tail(driver.todo) /\ driver'.channel = driver.channel
     \/ driver'.at = 10 /\ driver'.todo = <<>> /\ driver'.channel = "none"
  /\ \/ driver'.chat = driver.chat /\ ~AboutToConnect
     \/ driver'.chat \in connected' /\ driver'.chat \in registered'
     \/ driver'.chat = NoChat
     \/ driver.channel = "telegram" /\ Len(driver.todo) = 2 /\ driver'.at = 9

LEMMA FlowKeepsSetup ==
  ASSUME SetupInvariant, FlowGoesOn
  PROVE  SetupInvariant'
<1>1. driver.todo \in Seq(FlowNames) /\ driver.todo # <<>>
  BY DEF SetupInvariant, Driver, FlowGoesOn
<1> DEFINE n == Len(driver.todo)
           rest == Tail(driver.todo)
<1>2. /\ n \in Nat \ {0} /\ Len(rest) = n - 1
      /\ \A k \in 1..(n - 1) : rest[k] = driver.todo[k + 1] /\ k + 1 \in 1..n
  BY <1>1, HeadTailProperties
<1>3. BehindInPlace'
  <2>1. \A step \in driver'.skip \union driver'.completed :
          step \notin {"channel", "verify"} /\ EffectOf(step) \subseteq inPlace'
    BY DEF SetupInvariant, BehindInPlace, FlowGoesOn, Grows
  <2>2. ASSUME NEW k \in 1..(driver'.at - 1) PROVE EffectOf(Steps[k]) \subseteq inPlace'
    <3>1. k \in 1..(driver.at - 1) \/ k = 9
      BY DEF FlowGoesOn
    <3>2. EffectOf(Steps[9]) = {}
      BY StepFacts DEF EffectOf
    <3> QED
      BY <3>1, <3>2 DEF SetupInvariant, BehindInPlace, FlowGoesOn, Grows
  <2>3. driver'.sub = "ping" => EffectOf("cli-agent") \subseteq inPlace'
    BY DEF SetupInvariant, BehindInPlace, FlowGoesOn, Grows
  <2> QED
    BY <2>1, <2>2, <2>3 DEF BehindInPlace, EffectOf, Resources, Steps
<1>4. FlowIsGood'
  <2>1. CASE driver'.todo = Tail(driver.todo) /\ driver'.channel = driver.channel
    <3> HIDE DEF n, rest
    <3>1. driver.channel = "telegram" => n <= 4 /\ \A k \in 1..n : driver.todo[k] = TelegramFlow[4 - n + k]
      BY DEF SetupInvariant, FlowIsGood, n
    <3>2. driver.channel # "telegram" => \A k \in 1..n : driver.todo[k] # "pair"
      BY DEF SetupInvariant, FlowIsGood, n
    <3>3. ASSUME NEW k \in 1..(n - 1) PROVE 4 - n + (k + 1) = 4 - (n - 1) + k
      BY <1>2, <3>3
    <3>4. driver.channel = "telegram" =>
            n - 1 <= 4 /\ \A k \in 1..(n - 1) : rest[k] = TelegramFlow[4 - (n - 1) + k]
      <4>1. driver.channel = "telegram" => n - 1 <= 4
        BY <1>2, <3>1
      <4>2. ASSUME driver.channel = "telegram", NEW k \in 1..(n - 1)
            PROVE  rest[k] = TelegramFlow[4 - (n - 1) + k]
        <5>1. rest[k] = driver.todo[k + 1] /\ k + 1 \in 1..n
          BY <1>2
        <5>2. driver.todo[k + 1] = TelegramFlow[4 - n + (k + 1)]
          BY <3>1, <4>2, <5>1
        <5>3. 4 - n + (k + 1) = 4 - (n - 1) + k
          BY <3>3
        <5> QED
          BY <5>1, <5>2, <5>3
      <4> QED
        BY <4>1, <4>2
    <3>5. driver.channel # "telegram" => \A k \in 1..(n - 1) : rest[k] # "pair"
      BY <1>2, <3>2
    <3>6. driver'.todo = rest /\ Len(rest) = n - 1 /\ driver'.channel = driver.channel
      BY <1>2, <2>1 DEF rest
    <3> QED
      BY <3>4, <3>5, <3>6 DEF FlowIsGood, TelegramFlow
  <2>2. CASE driver'.todo = <<>> /\ driver'.channel = "none"
    <3>1. Len(<<>>) = 0
      OBVIOUS
    <3> QED
      BY <2>2, <3>1 DEF FlowIsGood
  <2> QED
    BY <2>1, <2>2 DEF FlowGoesOn
<1>5. driver'.chat # NoChat => Connected(driver.chat)' \/ AboutToConnect'
  <2>1. CASE driver'.chat = driver.chat /\ ~AboutToConnect
    BY <2>1 DEF SetupInvariant, Grows, FlowGoesOn, Connected
  <2>2. CASE driver'.chat \in connected' /\ driver'.chat \in registered'
    BY <2>2 DEF Connected
  <2>3. CASE driver'.chat = NoChat
    BY <2>3
  <2>4. CASE driver.channel = "telegram" /\ Len(driver.todo) = 2 /\ driver'.at = 9
    <3>1. driver'.todo = rest /\ driver'.channel = "telegram" /\ Len(rest) = 1
      BY <1>2, <2>4 DEF FlowGoesOn
    <3> HIDE DEF rest
    <3> QED
      BY <2>4, <3>1 DEF AboutToConnect
  <2> QED
    BY <2>1, <2>2, <2>3, <2>4 DEF FlowGoesOn
<1> QED
  BY <1>3, <1>4, <1>5 DEF SetupInvariant, FlowGoesOn, Connected

DriverMoves == StaysAtStep \/ GoesToNext \/ RunsAgain \/ FlowGoesOn

LEMMA AtFacts ==
  ASSUME SetupInvariant, NEW step, At(step)
  PROVE  /\ driver \in Driver /\ driver.at \in 1..10 /\ driver.state = "running"
         /\ Steps[driver.at] = step /\ step \in StepNames
         /\ step = "channel" <=> driver.at = 9
         /\ step = "verify" <=> driver.at = 10
<1>1. driver \in Driver /\ driver.at \in 1..10
  BY DEF SetupInvariant, Driver
<1> QED
  BY <1>1, StepFacts DEF At

\* A step is done; that of the zone has settled it.
LEMMA StepSettled ==
  ASSUME SetupInvariant, NEW step, At(step), step \notin {"channel", "verify"},
         NEW d, d = driver \/ d = [driver EXCEPT !.zone = "set"],
         driver' = Completed(d, step) \/ driver' = Passed(d),
         EffectOf(step) \subseteq inPlace', Grows
  PROVE  GoesToNext
<1>1. /\ driver \in Driver /\ driver.at \in 1..10 /\ Steps[driver.at] = step /\ step \in StepNames
      /\ driver.at # 9 /\ driver.at # 10
  BY AtFacts
<1>2. driver.at + 1 \in 1..10
  BY <1>1
<1>3. driver.completed \union {step} \in SUBSET StepNames
  BY <1>1 DEF Driver
<1>4. /\ d \in Driver /\ d.at = driver.at /\ d.completed = driver.completed
      /\ d.skip = driver.skip /\ d.todo = driver.todo /\ d.channel = driver.channel
      /\ d.chat = driver.chat /\ d.state = driver.state
  BY <1>1 DEF Driver
<1>5. \/ driver' = [d EXCEPT !.at = driver.at + 1, !.sub = "start",
                             !.completed = driver.completed \union {step}]
      \/ driver' = [d EXCEPT !.at = driver.at + 1, !.sub = "start"]
  BY <1>4 DEF Completed, Passed
<1>6. driver' \in Driver
  <2>1. CASE driver' = [d EXCEPT !.at = driver.at + 1, !.sub = "start",
                                 !.completed = driver.completed \union {step}]
    BY <1>2, <1>3, <1>4, <2>1 DEF Driver
  <2>2. CASE driver' = [d EXCEPT !.at = driver.at + 1, !.sub = "start"]
    BY <1>2, <1>4, <2>2 DEF Driver
  <2> QED
    BY <1>5, <2>1, <2>2
<1>7. /\ driver'.at = driver.at + 1 /\ driver'.sub = "start" /\ driver'.skip = driver.skip
      /\ driver'.completed \subseteq driver.completed \union {step}
      /\ driver'.todo = driver.todo /\ driver'.channel = driver.channel /\ driver'.chat = driver.chat
      /\ driver'.state = driver.state
  BY <1>5, <1>4 DEF Driver
<1> QED
  BY <1>1, <1>6, <1>7 DEF GoesToNext

LEMMA StepDone ==
  ASSUME SetupInvariant, NEW step, At(step), step \notin {"channel", "verify"},
         Completes(step) \/ Passes, EffectOf(step) \subseteq inPlace', Grows
  PROVE  GoesToNext
BY StepSettled DEF Completes, Passes

LEMMA FailureStays ==
  ASSUME SetupInvariant, Grows, NEW zone \in {"open", "named", "set", "failed"},
         driver' = [driver EXCEPT !.state = "failed", !.prompt = "diagnose", !.zone = zone]
  PROVE  StaysAtStep
<1>1. driver \in Driver
  BY DEF SetupInvariant
<1>2. driver' \in Driver
  BY <1>1 DEF Driver
<1>3. /\ driver'.at = driver.at /\ driver'.skip = driver.skip /\ driver'.todo = driver.todo
      /\ driver'.channel = driver.channel /\ driver'.chat = driver.chat /\ driver'.state = "failed"
      /\ driver'.completed = driver.completed /\ driver'.sub = driver.sub
  BY <1>1 DEF Driver
<1> QED
  BY <1>2, <1>3 DEF StaysAtStep

LEMMA FailsStays ==
  ASSUME SetupInvariant, Grows, Fails
  PROVE  StaysAtStep
<1>1. driver \in Driver
  BY DEF SetupInvariant
<1>2. /\ driver.zone \in {"open", "named", "set", "failed"}
      /\ driver' = [driver EXCEPT !.state = "failed", !.prompt = "diagnose", !.zone = driver.zone]
  BY <1>1 DEF Driver, Fails
<1> QED
  BY <1>2, FailureStays

\* What the head of the flow tells.
LEMMA DoingFacts ==
  ASSUME SetupInvariant, NEW step, Doing(step)
  PROVE  /\ driver.at = 9 /\ driver.state = "running" /\ driver.todo # <<>> /\ driver \in Driver
         /\ step # "connect" => ~AboutToConnect
         /\ step = "pair" => driver.channel = "telegram" /\ Len(driver.todo) = 2
<1>1. At("channel") /\ driver.todo # <<>> /\ Head(driver.todo) = step
  BY DEF Doing
<1>2. driver.at = 9 /\ driver.state = "running" /\ driver \in Driver
  BY <1>1, AtFacts
<1>3. driver.todo \in Seq(FlowNames)
  BY <1>2 DEF Driver
<1> DEFINE n == Len(driver.todo)
<1>4. n \in Nat \ {0} /\ driver.todo[1] = step
  BY <1>1, <1>3, HeadTailProperties
<1>5. /\ TelegramFlow[1] = "token" /\ TelegramFlow[2] = "install"
      /\ TelegramFlow[3] = "pair" /\ TelegramFlow[4] = "connect"
  BY DEF TelegramFlow
<1>6. /\ driver.channel = "telegram" => n <= 4 /\ \A k \in 1..n : driver.todo[k] = TelegramFlow[4 - n + k]
      /\ driver.channel # "telegram" => \A k \in 1..n : driver.todo[k] # "pair"
  BY DEF SetupInvariant, FlowIsGood
<1> HIDE DEF n
<1>7. driver.channel = "telegram" =>
        \/ n = 1 /\ step = TelegramFlow[4]
        \/ n = 2 /\ step = TelegramFlow[3]
        \/ n = 3 /\ step = TelegramFlow[2]
        \/ n = 4 /\ step = TelegramFlow[1]
  <2> SUFFICES ASSUME driver.channel = "telegram"
               PROVE  \/ n = 1 /\ step = TelegramFlow[4]
                      \/ n = 2 /\ step = TelegramFlow[3]
                      \/ n = 3 /\ step = TelegramFlow[2]
                      \/ n = 4 /\ step = TelegramFlow[1]
    OBVIOUS
  <2>1. 1 \in 1..n /\ (n = 1 \/ n = 2 \/ n = 3 \/ n = 4)
    BY <1>4, <1>6
  <2>2. step = TelegramFlow[4 - n + 1]
    BY <1>4, <1>6, <2>1
  <2> QED
    BY <2>1, <2>2
<1>8. step # "pair" \/ driver.channel = "telegram"
  BY <1>4, <1>6
<1>9. step # "connect" => ~AboutToConnect
  BY <1>5, <1>7 DEF AboutToConnect, n
<1>10. step = "pair" => driver.channel = "telegram" /\ n = 2
  BY <1>5, <1>7, <1>8
<1> QED
  BY <1>1, <1>2, <1>9, <1>10 DEF n

LEMMA ChildDone ==
  ASSUME SetupInvariant, Grows, NEW step, Doing(step), ~AboutToConnect, NEW d,
         d = driver \/ d = [driver EXCEPT !.prompt = "diagnose"],
         driver' = GoesOn(d)
  PROVE  FlowGoesOn
<1>1. driver \in Driver /\ driver.at = 9 /\ driver.state = "running" /\ driver.todo # <<>>
  BY DoingFacts
<1>2. d \in Driver /\ d.at = 9 /\ d.state = "running" /\ d.todo = driver.todo /\ d.skip = driver.skip
      /\ d.completed = driver.completed /\ d.sub = driver.sub /\ d.channel = driver.channel
      /\ d.chat = driver.chat
  BY <1>1 DEF Driver
<1>3. Tail(d.todo) \in Seq(FlowNames) /\ <<>> \in Seq(FlowNames)
  BY <1>1, <1>2, HeadTailProperties DEF Driver
<1>4. \/ driver' = [d EXCEPT !.todo = Tail(d.todo)]
      \/ driver' = [d EXCEPT !.at = d.at + 1, !.todo = <<>>, !.channel = "none"]
  BY DEF GoesOn, Ended
<1>5. CASE driver' = [d EXCEPT !.todo = Tail(d.todo)]
  <2>1. driver' \in Driver
    BY <1>2, <1>3, <1>5 DEF Driver
  <2>2. /\ driver'.state = d.state /\ driver'.skip = d.skip /\ driver'.completed = d.completed
        /\ driver'.sub = d.sub /\ driver'.at = d.at /\ driver'.todo = Tail(d.todo)
        /\ driver'.channel = d.channel /\ driver'.chat = d.chat
    BY <1>2, <1>5 DEF Driver
  <2> QED
    BY <1>1, <1>2, <2>1, <2>2 DEF FlowGoesOn
<1>6. CASE driver' = [d EXCEPT !.at = d.at + 1, !.todo = <<>>, !.channel = "none"]
  <2>1. driver' = [d EXCEPT !.at = 10, !.todo = <<>>, !.channel = "none"] /\ 10 \in 1..10
    BY <1>2, <1>6
  <2>2. driver' \in Driver
    BY <1>2, <1>3, <2>1 DEF Driver
  <2>3. /\ driver'.state = d.state /\ driver'.skip = d.skip /\ driver'.completed = d.completed
        /\ driver'.sub = d.sub /\ driver'.at = 10 /\ driver'.todo = <<>>
        /\ driver'.channel = "none" /\ driver'.chat = d.chat
    BY <1>2, <2>1 DEF Driver
  <2> QED
    BY <1>1, <1>2, <2>2, <2>3 DEF FlowGoesOn
<1> QED
  BY <1>4, <1>5, <1>6

LEMMA GivesUpMoves ==
  ASSUME SetupInvariant, Grows, NEW step, Doing(step), GivesUp
  PROVE  DriverMoves
<1>1. CASE driver.channel \notin Unawaited
  BY <1>1, FailsStays DEF GivesUp, DriverMoves
<1>2. CASE driver.channel \in Unawaited
  <2>1. ~AboutToConnect
    BY <1>2 DEF Unawaited, AboutToConnect
  <2>2. driver' = GoesOn([driver EXCEPT !.prompt = "diagnose"])
    BY <1>2 DEF GivesUp
  <2> QED
    BY <2>1, <2>2, ChildDone DEF DriverMoves
<1> QED
  BY <1>1, <1>2

\* The actions, group by group.
LEMMA StepRunsMoves ==
  ASSUME SetupInvariant, NEW step, NEW effects, NEW leftovers, StepRuns(step, effects, leftovers),
         step \notin {"channel", "verify"}, EffectOf(step) \subseteq effects
  PROVE  DriverMoves
<1>1. Grows /\ At(step)
  BY DEF StepRuns, Grows
<1>2. CASE Completes(step) /\ inPlace' = inPlace \union effects
  BY <1>1, <1>2, StepDone DEF DriverMoves
<1>3. CASE Fails
  BY <1>1, <1>3, FailsStays DEF DriverMoves
<1> QED
  BY <1>2, <1>3 DEF StepRuns

LEMMA CliAgentMoves ==
  ASSUME SetupInvariant, CreateCliAgent
  PROVE  DriverMoves
<1>1. Grows /\ At("cli-agent")
  BY DEF CreateCliAgent, Grows
<1>2. CASE /\ driver' = [driver EXCEPT !.sub = "ping", !.completed = driver.completed \union {"cli-agent"}]
           /\ inPlace' = inPlace \union {"agent", "cli"}
  <2>1. driver \in Driver
    BY DEF SetupInvariant
  <2>2. driver.completed \union {"cli-agent"} \in SUBSET StepNames
    BY <2>1 DEF Driver, StepNames
  <2>3. driver' \in Driver
    BY <1>2, <2>1, <2>2 DEF Driver
  <2>4. /\ driver'.at = driver.at /\ driver'.skip = driver.skip /\ driver'.todo = driver.todo
        /\ driver'.channel = driver.channel /\ driver'.chat = driver.chat
        /\ driver'.state = driver.state /\ driver'.completed = driver.completed \union {"cli-agent"}
    BY <1>2, <2>1 DEF Driver
  <2>5. EffectOf("cli-agent") \subseteq inPlace'
    BY <1>2 DEF EffectOf
  <2> QED
    BY <1>1, <2>3, <2>4, <2>5 DEF StaysAtStep, DriverMoves
<1>3. CASE Fails
  BY <1>1, <1>3, FailsStays DEF DriverMoves
<1> QED
  BY <1>2, <1>3 DEF CreateCliAgent

LEMMA StepsMove ==
  ASSUME SetupInvariant, SkipStep \/ ChildStep \/ Reexec
  PROVE  DriverMoves
<1>1. /\ EffectOf("environment") \subseteq {} /\ EffectOf("container") \subseteq {"image"}
      /\ EffectOf("onecli") \subseteq {"gateway", "url"} /\ EffectOf("mounts") \subseteq {"rules"}
      /\ EffectOf("service") \subseteq {"unit"}
  BY DEF EffectOf
<1>2. CASE SkipStep
  <2> DEFINE step == Steps[driver.at]
  <2>1. step \in driver.skip /\ driver.state = "running" /\ Passes /\ Grows
    BY <1>2 DEF SkipStep, pairingVars, Grows
  <2>2. step \notin {"channel", "verify"} /\ EffectOf(step) \subseteq inPlace'
    BY <2>1 DEF SetupInvariant, BehindInPlace, Grows
  <2>3. driver \in Driver /\ driver.at \in 1..10
    BY DEF SetupInvariant, Driver
  <2>4. driver.at # 9 /\ driver.at # 10
    BY <2>2, <2>3, StepFacts
  <2>5. driver' = [driver EXCEPT !.at = driver.at + 1, !.sub = "start"] /\ driver.at + 1 \in 1..10
    BY <2>1, <2>3, <2>4 DEF Passes, Passed
  <2>6. driver' \in Driver
    BY <2>3, <2>5 DEF Driver
  <2>7. /\ driver'.at = driver.at + 1 /\ driver'.sub = "start" /\ driver'.skip = driver.skip
        /\ driver'.completed = driver.completed
        /\ driver'.todo = driver.todo /\ driver'.channel = driver.channel
        /\ driver'.chat = driver.chat /\ driver'.state = driver.state
    BY <2>3, <2>5 DEF Driver
  <2> QED
    BY <2>1, <2>2, <2>4, <2>6, <2>7 DEF GoesToNext, DriverMoves
<1>3. CASE CheckEnvironment \/ BuildContainer \/ InstallOnecli \/ WriteAccessRules \/ SetUpService
  BY <1>1, <1>3, StepRunsMoves
  DEF CheckEnvironment, BuildContainer, WindowedStep, InstallOnecli, WriteAccessRules, SetUpService
<1>4. CASE FirstChat
  <2>1. At("cli-agent") /\ Passes /\ Grows /\ driver.sub = "ping"
    BY <1>4 DEF FirstChat, pairingVars, Grows
  <2>2. EffectOf("cli-agent") \subseteq inPlace'
    BY <2>1 DEF SetupInvariant, BehindInPlace, Grows
  <2> QED
    BY <2>1, <2>2, StepDone DEF DriverMoves
<1>5. CASE Reexec
  BY <1>5 DEF Reexec, RunsAgain, DriverMoves, Grows
<1> QED
  BY <1>2, <1>3, <1>4, <1>5, CliAgentMoves DEF ChildStep

\* A step of which only the part changes, or which a zone was logged for.
LEMMA PartMoves ==
  ASSUME SetupInvariant, Grows, NEW sub \in {"start", "asked", "persist"}, NEW done \in SUBSET {"timezone"},
         NEW zone \in {"open", "named", "set", "failed"},
         driver' = [driver EXCEPT !.sub = sub, !.completed = driver.completed \union done, !.zone = zone]
  PROVE  StaysAtStep
<1>1. driver \in Driver
  BY DEF SetupInvariant
<1>2. driver.completed \union done \in SUBSET StepNames
  BY <1>1 DEF Driver, StepNames
<1>3. driver' \in Driver
  BY <1>1, <1>2 DEF Driver
<1>4. /\ driver'.at = driver.at /\ driver'.skip = driver.skip /\ driver'.todo = driver.todo
      /\ driver'.channel = driver.channel /\ driver'.chat = driver.chat /\ driver'.state = driver.state
      /\ driver'.sub = sub /\ driver'.completed = driver.completed \union done
  BY <1>1 DEF Driver
<1>5. EffectOf("timezone") = {}
  BY DEF EffectOf
<1> QED
  BY <1>3, <1>4, <1>5 DEF StaysAtStep

LEMMA AuthAndZoneMove ==
  ASSUME SetupInvariant, Authentication \/ Timezone
  PROVE  DriverMoves
<1>1. EffectOf("auth") \subseteq {"secret"} /\ EffectOf("timezone") = {}
  BY DEF EffectOf
<1>2. CASE Authenticate \/ PasteAuth \/ SignIn
  <2>1. /\ Grows /\ At("auth") /\ (Completes("auth") \/ Passes)
        /\ "secret" \in inPlace'
    BY <1>2 DEF Authenticate, PasteAuth, SignIn, pairingVars, Grows
  <2> QED
    BY <1>1, <2>1, StepDone DEF DriverMoves
<1>3. CASE AuthFails
  <2>1. Grows /\ Fails
    BY <1>3 DEF AuthFails, Grows
  <2> QED
    BY <2>1, FailsStays DEF DriverMoves
<1>4. CASE KeepZone \/ PersistZone
  <2> DEFINE d == [driver EXCEPT !.zone = "set"]
  <2>1. Grows /\ At("timezone") /\ (driver' = Completed(d, "timezone") \/ driver' = Passed(d))
    BY <1>4 DEF KeepZone, PersistZone, pairingVars, Grows
  <2> QED
    BY <1>1, <2>1, StepSettled DEF DriverMoves
<1>5. CASE TimezoneFails
  <2>1. Grows
    BY <1>5 DEF TimezoneFails, Grows
  <2>2. PICK zone \in {"failed", driver.zone} :
          driver' = [driver EXCEPT !.state = "failed", !.prompt = "diagnose", !.zone = zone]
    BY <1>5 DEF TimezoneFails
  <2>3. zone \in {"open", "named", "set", "failed"}
    BY DEF SetupInvariant, Driver
  <2> QED
    BY <2>1, <2>2, <2>3, FailureStays DEF DriverMoves
<1>6. CASE DetectZone
  <2>1. PICK detected \in BOOLEAN :
          driver' = [driver EXCEPT !.sub = "asked",
                       !.completed = driver.completed \union IF detected THEN {"timezone"} ELSE {}]
    BY <1>6 DEF DetectZone
  <2>2. Grows
    BY <1>6 DEF DetectZone, pairingVars, Grows
  <2>3. (IF detected THEN {"timezone"} ELSE {}) \in SUBSET {"timezone"}
    OBVIOUS
  <2> DEFINE done == IF detected THEN {"timezone"} ELSE {}
  <2> HIDE DEF done
  <2>4. /\ driver.zone \in {"open", "named", "set", "failed"}
        /\ driver' = [driver EXCEPT !.sub = "asked", !.completed = driver.completed \union done,
                                    !.zone = driver.zone]
    BY <2>1 DEF SetupInvariant, Driver, done
  <2> QED
    BY <2>2, <2>3, <2>4, PartMoves DEF DriverMoves, done
<1>7. CASE NameZone
  <2>1. /\ Grows /\ driver \in Driver
        /\ driver' = [driver EXCEPT !.sub = "persist", !.zone = "named"]
    BY <1>7 DEF NameZone, pairingVars, Grows, SetupInvariant
  <2>2. driver' = [driver EXCEPT !.sub = "persist", !.completed = driver.completed \union {},
                                 !.zone = "named"]
    BY <2>1 DEF Driver
  <2>3. {} \in SUBSET {"timezone"} /\ "persist" \in {"start", "asked", "persist"}
    OBVIOUS
  <2> QED
    BY <2>1, <2>2, <2>3, PartMoves DEF DriverMoves
<1> QED
  BY <1>2, <1>3, <1>4, <1>5, <1>6, <1>7 DEF Authentication, Timezone

\* The flows on offer are made of the parts the driver knows, and pair for Telegram
\* only.
LEMMA FlowFacts ==
  ASSUME NEW c \in {"telegram"} \union OtherChannels
  PROVE  /\ Flows[c] \in Seq(FlowNames)
         /\ c = "telegram" => Flows[c] = TelegramFlow /\ Len(Flows[c]) = 4
         /\ c # "telegram" => \A k \in 1..Len(Flows[c]) : Flows[c][k] # "pair"
<1>1. c \in {"telegram", "discord", "slack", "signal", "imessage", "whatsapp", "teams"}
  BY ChannelsAssumption
<1>2. CASE c = "telegram"
  <2>1. Flows[c] = <<"token", "install", "pair", "connect">> /\ Flows[c] = TelegramFlow
    BY <1>2 DEF Flows, TelegramFlow
  <2>2. <<"token", "install", "pair", "connect">> \in Seq(FlowNames)
    BY DEF FlowNames
  <2> QED
    BY <1>2, <2>1, <2>2
<1>3. CASE c = "discord"
  <2>1. Flows[c] = <<"token", "identify", "install", "dm", "connect">>
    BY <1>3 DEF Flows, DiscordFlow
  <2>2. <<"token", "identify", "install", "dm", "connect">> \in Seq(FlowNames)
    BY DEF FlowNames
  <2> QED
    BY <1>3, <2>1, <2>2
<1>4. CASE c = "slack"
  <2>1. Flows[c] = <<"token", "install">>
    BY <1>4 DEF Flows, SlackFlow
  <2>2. <<"token", "install">> \in Seq(FlowNames)
    BY DEF FlowNames
  <2> QED
    BY <1>4, <2>1, <2>2
<1>5. CASE c = "signal"
  <2>1. Flows[c] = <<"tool", "install", "link", "restart", "connect">>
    BY <1>5 DEF Flows, SignalFlow
  <2>2. <<"tool", "install", "link", "restart", "connect">> \in Seq(FlowNames)
    BY DEF FlowNames
  <2> QED
    BY <1>5, <2>1, <2>2
<1>6. CASE c = "imessage"
  <2>1. Flows[c] = <<"mode", "install", "connect">>
    BY <1>6 DEF Flows, IMessageFlow
  <2>2. <<"mode", "install", "connect">> \in Seq(FlowNames)
    BY DEF FlowNames
  <2> QED
    BY <1>6, <2>1, <2>2
<1>7. CASE c = "whatsapp"
  <2>1. Flows[c] = <<"install", "link", "restart", "connect">>
    BY <1>7 DEF Flows, WhatsAppFlow
  <2>2. <<"install", "link", "restart", "connect">> \in Seq(FlowNames)
    BY DEF FlowNames
  <2> QED
    BY <1>7, <2>1, <2>2
<1>8. CASE c = "teams"
  <2>1. Flows[c] = <<"register", "bot", "package", "sideload", "install", "handoff">>
    BY <1>8 DEF Flows, TeamsFlow
  <2>2. <<"register", "bot", "package", "sideload", "install", "handoff">> \in Seq(FlowNames)
    BY DEF FlowNames
  <2> QED
    BY <1>8, <2>1, <2>2
<1> QED
  BY <1>1, <1>2, <1>3, <1>4, <1>5, <1>6, <1>7, <1>8

LEMMA ChooseKeepsSetup ==
  ASSUME SetupInvariant, ChooseChannel
  PROVE  SetupInvariant'
<1>1. At("channel") /\ driver.todo = <<>> /\ Grows
  BY DEF ChooseChannel, pairingVars, Grows
<1>2. driver \in Driver /\ driver.at = 9 /\ driver.state = "running"
  BY <1>1, AtFacts
<1>3. PICK c \in {"telegram"} \union OtherChannels :
        driver' = [driver EXCEPT !.channel = c, !.todo = Flows[c]]
  BY DEF ChooseChannel
<1>4. /\ Flows[c] \in Seq(FlowNames)
      /\ c = "telegram" => Flows[c] = TelegramFlow /\ Len(Flows[c]) = 4
      /\ c # "telegram" => \A k \in 1..Len(Flows[c]) : Flows[c][k] # "pair"
  BY FlowFacts
<1>5. driver' \in Driver
  BY <1>2, <1>3, <1>4 DEF Driver
<1>6. /\ driver'.at = 9 /\ driver'.skip = driver.skip /\ driver'.completed = driver.completed
      /\ driver'.sub = driver.sub /\ driver'.state = "running" /\ driver'.chat = driver.chat
      /\ driver'.channel = c /\ driver'.todo = Flows[c]
  BY <1>2, <1>3 DEF Driver
<1>7. BehindInPlace'
  <2>1. /\ \A step \in driver'.skip \union driver'.completed :
             step \notin {"channel", "verify"} /\ EffectOf(step) \subseteq inPlace'
        /\ \A k \in 1..(driver'.at - 1) : EffectOf(Steps[k]) \subseteq inPlace'
        /\ driver'.sub = "ping" => EffectOf("cli-agent") \subseteq inPlace'
    BY <1>1, <1>2, <1>6 DEF SetupInvariant, BehindInPlace, Grows
  <2> QED
    BY <2>1 DEF BehindInPlace, EffectOf, Resources, Steps
<1>8. FlowIsGood'
  <2>1. driver'.channel = "telegram" =>
          /\ Len(driver'.todo) <= 4
          /\ \A k \in 1..Len(driver'.todo) : driver'.todo[k] = TelegramFlow[4 - Len(driver'.todo) + k]
    <3>1. SUFFICES ASSUME driver'.channel = "telegram"
                   PROVE  /\ Len(driver'.todo) <= 4
                          /\ \A k \in 1..Len(driver'.todo) :
                               driver'.todo[k] = TelegramFlow[4 - Len(driver'.todo) + k]
      OBVIOUS
    <3>2. Len(driver'.todo) = 4 /\ driver'.todo = TelegramFlow
      BY <1>4, <1>6, <3>1
    <3>3. ASSUME NEW k \in 1..Len(driver'.todo)
          PROVE  driver'.todo[k] = TelegramFlow[4 - Len(driver'.todo) + k]
      <4>1. 4 - Len(driver'.todo) + k = k
        BY <3>2
      <4> QED
        BY <3>2, <4>1
    <3> QED
      BY <3>2, <3>3
  <2>2. driver'.channel # "telegram" => \A k \in 1..Len(driver'.todo) : driver'.todo[k] # "pair"
    BY <1>4, <1>6
  <2> QED
    BY <2>1, <2>2 DEF FlowIsGood, TelegramFlow
<1>9. driver'.chat # NoChat => Connected(driver.chat)'
  <2>1. Len(<<>>) = 0
    OBVIOUS
  <2>2. ~AboutToConnect
    BY <1>1, <2>1 DEF AboutToConnect
  <2> QED
    BY <1>1, <1>6, <2>2 DEF SetupInvariant, Connected, Grows
<1> QED
  BY <1>5, <1>6, <1>7, <1>8, <1>9 DEF SetupInvariant, Connected

LEMMA NoChannelMoves ==
  ASSUME SetupInvariant, NoChannel
  PROVE  DriverMoves
<1>1. At("channel") /\ driver.todo = <<>> /\ Grows /\ Passes
  BY DEF NoChannel, pairingVars, Grows
<1>2. driver \in Driver /\ driver.at = 9
  BY <1>1, AtFacts
<1>3. driver' = [driver EXCEPT !.at = 10, !.sub = "start"] /\ 10 \in 1..10
  BY <1>1, <1>2 DEF Passes, Passed
<1>4. driver' \in Driver
  BY <1>2, <1>3 DEF Driver
<1>5. /\ driver'.at = driver.at + 1 /\ driver'.sub = "start" /\ driver'.skip = driver.skip
      /\ driver'.completed = driver.completed
      /\ driver'.todo = driver.todo /\ driver'.channel = driver.channel /\ driver'.chat = driver.chat
      /\ driver'.state = driver.state
  BY <1>2, <1>3 DEF Driver
<1>6. EffectOf(Steps[driver.at]) = {}
  BY <1>2, StepFacts DEF EffectOf
<1> QED
  BY <1>1, <1>2, <1>4, <1>5, <1>6 DEF GoesToNext, DriverMoves

\* The parts of a flow that are a check or a child process.
LEMMA PartsMove ==
  ASSUME SetupInvariant, Checks \/ Teams \/ Linking \/ RestartService
  PROVE  DriverMoves
<1>1. Grows
  <2>1. Checks => Grows
    BY DEF Checks, CheckToken, CheckTool, ChooseMode, Identify, OpenDm, ChannelChildFails,
       pairingVars, Grows
  <2>2. Teams => Grows
    BY DEF Teams, RegisterApp, CreateBot, Sideload, BuildPackage, PackageFails, Handoff,
       pairingVars, Grows
  <2>3. Linking => Grows
    BY DEF Linking, LinkSignal, LinkWhatsApp, Link, SignalLinkFails, WhatsAppLinkFails,
       pairingVars, Grows
  <2>4. RestartService => Grows
    BY DEF RestartService, Grows
  <2> QED
    BY <2>1, <2>2, <2>3, <2>4
<1>2. \/ PackageFails
      \/ \E step \in FlowNames \ {"connect"} : Doing(step) /\ (Goes \/ GivesUp)
  <2>1. Checks => \E step \in FlowNames \ {"connect"} : Doing(step) /\ (Goes \/ GivesUp)
    BY DEF Checks, CheckToken, CheckTool, ChooseMode, Identify, OpenDm, ChannelChildFails,
       FlowNames
  <2>2. Teams => \/ PackageFails
                 \/ \E step \in FlowNames \ {"connect"} : Doing(step) /\ (Goes \/ GivesUp)
    BY DEF Teams, RegisterApp, CreateBot, Sideload, BuildPackage, Handoff, FlowNames
  <2>3. Linking => \E step \in FlowNames \ {"connect"} : Doing(step) /\ (Goes \/ GivesUp)
    BY DEF Linking, LinkSignal, LinkWhatsApp, Link, SignalLinkFails, WhatsAppLinkFails, FlowNames
  <2>4. RestartService => \E step \in FlowNames \ {"connect"} : Doing(step) /\ (Goes \/ GivesUp)
    BY DEF RestartService, FlowNames
  <2> QED
    BY <2>1, <2>2, <2>3, <2>4
<1>3. CASE PackageFails
  <2>1. driver \in Driver /\ driver' = [driver EXCEPT !.state = "stopped"]
    BY <1>3 DEF PackageFails, SetupInvariant
  <2>2. driver' \in Driver
    BY <2>1 DEF Driver
  <2>3. /\ driver'.at = driver.at /\ driver'.skip = driver.skip /\ driver'.todo = driver.todo
        /\ driver'.channel = driver.channel /\ driver'.chat = driver.chat /\ driver'.state = "stopped"
        /\ driver'.completed = driver.completed /\ driver'.sub = driver.sub
    BY <2>1 DEF Driver
  <2> QED
    BY <1>1, <2>2, <2>3 DEF StaysAtStep, DriverMoves
<1>4. ASSUME NEW step \in FlowNames \ {"connect"}, Doing(step), Goes \/ GivesUp
      PROVE  DriverMoves
  <2>1. CASE Goes
    BY <1>1, <1>4, <2>1, DoingFacts, ChildDone DEF Goes, DriverMoves
  <2>2. CASE GivesUp
    BY <1>1, <1>4, <2>2, GivesUpMoves
  <2> QED
    BY <1>4, <2>1, <2>2
<1> QED
  BY <1>2, <1>3, <1>4

\* What the pairing step hands over is connected next, and nothing else.
LEMMA PairingMoves ==
  ASSUME SetupInvariant, PairTypes, Paired \/ PairingFailed
  PROVE  DriverMoves
<1>1. Doing("pair") /\ Grows
  BY DEF Paired, PairingFailed, Grows
<1>2. /\ driver \in Driver /\ driver.at = 9 /\ driver.state = "running" /\ driver.todo # <<>>
      /\ driver.channel = "telegram" /\ Len(driver.todo) = 2
  BY <1>1, DoingFacts
<1>3. CASE Paired
  <2>1. driver' = [driver EXCEPT !.todo = Tail(driver.todo), !.chat = pair.chat]
    BY <1>3 DEF Paired
  <2>2. pair.chat \in Chats \union {NoChat}
    BY DEF PairTypes, PairRecord
  <2>3. Tail(driver.todo) \in Seq(FlowNames)
    BY <1>2, HeadTailProperties DEF Driver
  <2>4. driver' \in Driver
    BY <1>2, <2>1, <2>2, <2>3 DEF Driver
  <2>5. /\ driver'.state = driver.state /\ driver'.skip = driver.skip
        /\ driver'.completed = driver.completed /\ driver'.sub = driver.sub /\ driver'.at = driver.at
        /\ driver'.todo = Tail(driver.todo) /\ driver'.channel = driver.channel
    BY <1>2, <2>1 DEF Driver
  <2> QED
    BY <1>1, <1>2, <2>4, <2>5 DEF FlowGoesOn, DriverMoves
<1>4. CASE PairingFailed
  BY <1>1, <1>4, FailsStays DEF PairingFailed, DriverMoves
<1> QED
  BY <1>3, <1>4

LEMMA ConnectMoves ==
  ASSUME SetupInvariant, ConnectChat \/ ConnectFails
  PROVE  DriverMoves
<1>1. Doing("connect") /\ Grows
  BY DEF ConnectChat, ConnectFails, Grows
<1>2. /\ driver \in Driver /\ driver.at = 9 /\ driver.state = "running" /\ driver.todo # <<>>
  BY <1>1, DoingFacts
<1>3. CASE ConnectChat /\ driver' = Ended([driver EXCEPT !.chat = ChatToConnect])
  <2> DEFINE c == ChatToConnect
  <2>1. c \in Chats \union {NoChat}
    BY <1>2, OperatorAssumption DEF ChatToConnect, Driver
  <2>2. c \in registered' /\ c \in connected'
    BY <1>3 DEF ConnectChat
  <2> DEFINE d == [driver EXCEPT !.chat = c]
  <2> HIDE DEF c
  <2>3. /\ d \in Driver /\ d.at = 9 /\ d.state = "running" /\ d.skip = driver.skip
        /\ d.completed = driver.completed /\ d.sub = driver.sub /\ d.chat = c
    BY <1>2, <2>1 DEF Driver
  <2>4. driver' = Ended(d)
    BY <1>3 DEF c
  <2> HIDE DEF d
  <2>5. driver' = [d EXCEPT !.at = d.at + 1, !.todo = <<>>, !.channel = "none"]
    BY <2>4 DEF Ended
  <2>6. driver' = [d EXCEPT !.at = 10, !.todo = <<>>, !.channel = "none"] /\ 10 \in 1..10
        /\ <<>> \in Seq(FlowNames)
    BY <2>3, <2>5
  <2>7. driver' \in Driver
    BY <2>3, <2>6 DEF Driver
  <2>8. /\ driver'.state = d.state /\ driver'.skip = d.skip
        /\ driver'.completed = d.completed /\ driver'.sub = d.sub /\ driver'.at = 10
        /\ driver'.todo = <<>> /\ driver'.channel = "none" /\ driver'.chat = c
    BY <2>3, <2>6 DEF Driver
  <2> QED
    BY <1>1, <1>2, <2>2, <2>3, <2>7, <2>8 DEF FlowGoesOn, DriverMoves
<1>4. CASE GivesUp
  BY <1>1, <1>4, GivesUpMoves
<1> QED
  BY <1>3, <1>4 DEF ConnectChat, ConnectFails

\* The end of a run, and the next one.
LEMMA RunsMove ==
  ASSUME SetupInvariant,
         Verified \/ NotVerified \/ SuggestFix \/ Broken \/ Retry \/ RunAgain \/ HostStarts
  PROVE  DriverMoves
<1>1. driver \in Driver
  BY DEF SetupInvariant
<1>2. CASE Verified \/ NotVerified
  <2>1. PICK end \in {"completed", "incomplete"} : driver' = [driver EXCEPT !.state = end]
    BY <1>2 DEF Verified, NotVerified
  <2>2. At("verify") /\ Grows
    BY <1>2 DEF Verified, NotVerified, pairingVars, Grows
  <2>3. driver.at = 10
    BY <2>2, AtFacts
  <2>4. driver' \in Driver
    BY <1>1, <2>1 DEF Driver
  <2>5. /\ driver'.at = driver.at /\ driver'.skip = driver.skip /\ driver'.todo = driver.todo
        /\ driver'.channel = driver.channel /\ driver'.chat = driver.chat
        /\ driver'.completed = driver.completed /\ driver'.sub = driver.sub
    BY <1>1, <2>1 DEF Driver
  <2> QED
    BY <2>2, <2>3, <2>4, <2>5 DEF StaysAtStep, DriverMoves
<1>3. CASE SuggestFix
  <2>1. driver' = [driver EXCEPT !.prompt = "retry"] /\ Grows
    BY <1>3 DEF SuggestFix, pairingVars, Grows
  <2>2. driver' \in Driver
    BY <1>1, <2>1 DEF Driver
  <2>3. /\ driver'.at = driver.at /\ driver'.skip = driver.skip /\ driver'.todo = driver.todo
        /\ driver'.channel = driver.channel /\ driver'.chat = driver.chat /\ driver'.state = driver.state
        /\ driver'.completed = driver.completed /\ driver'.sub = driver.sub
    BY <1>1, <2>1 DEF Driver
  <2> QED
    BY <2>1, <2>2, <2>3 DEF StaysAtStep, DriverMoves
<1>4. CASE Broken
  <2>1. driver' = [driver EXCEPT !.state = "stopped"] /\ Grows
    BY <1>4 DEF Broken, Grows
  <2>2. driver' \in Driver
    BY <1>1, <2>1 DEF Driver
  <2>3. /\ driver'.at = driver.at /\ driver'.skip = driver.skip /\ driver'.todo = driver.todo
        /\ driver'.channel = driver.channel /\ driver'.chat = driver.chat /\ driver'.state = "stopped"
        /\ driver'.completed = driver.completed /\ driver'.sub = driver.sub
    BY <1>1, <2>1 DEF Driver
  <2> QED
    BY <2>1, <2>2, <2>3 DEF StaysAtStep, DriverMoves
<1>5. CASE Retry \/ RunAgain
  <2>1. Grows
    BY <1>5 DEF Retry, RunAgain, pairingVars, Grows
  <2>2. driver.skip \union driver.completed \in SUBSET (driver.skip \union driver.completed)
        /\ {} \in SUBSET (driver.skip \union driver.completed)
        /\ driver.reexec \in BOOLEAN
    BY <1>1 DEF Driver
  <2>3. \/ driver' = Fresh(driver.skip \union driver.completed, driver.reexec, driver.zone)
        \/ driver' = Fresh({}, FALSE, driver.zone)
    BY <1>5 DEF Retry, RunAgain
  <2> QED
    BY <2>1, <2>2, <2>3 DEF RunsAgain, DriverMoves
<1>6. CASE HostStarts
  BY <1>1, <1>6 DEF HostStarts, driverVars, Grows, StaysAtStep, DriverMoves
<1> QED
  BY <1>2, <1>3, <1>4, <1>5, <1>6

\* The two processes of a pairing leave the driver alone.
LEMMA PairingLeavesDriver ==
  ASSUME SetupInvariant, PairStep \/ ServiceStep, UNCHANGED driverVars
  PROVE  DriverMoves
<1>1. registered \subseteq registered'
  BY DEF PairStep, IssueRead, IssueWrite, CheckPairing, ServiceStep, OperatorSends, StraySends,
     Receive, Consume, RegisterChat, RegisterFails, HostStops
<1> QED
  BY <1>1 DEF driverVars, SetupInvariant, Grows, StaysAtStep, DriverMoves

LEMMA SetupStep ==
  ASSUME PairTypes, SetupInvariant, [SetupNext]_setupVars
  PROVE  SetupInvariant'
<1>1. DriverMoves => SetupInvariant'
  BY StayKeepsSetup, NextStepKeepsSetup, RunKeepsSetup, FlowKeepsSetup DEF DriverMoves
<1>2. Channel => SetupInvariant'
  BY <1>1, ChooseKeepsSetup, NoChannelMoves, PartsMove, PairingMoves, ConnectMoves DEF Channel
<1>3. (SkipStep \/ ChildStep \/ Reexec) => DriverMoves
  BY StepsMove
<1>4. (Authentication \/ Timezone) => DriverMoves
  BY AuthAndZoneMove
<1>5. (Verified \/ NotVerified \/ SuggestFix \/ Broken \/ Retry \/ RunAgain \/ HostStarts)
        => DriverMoves
  BY RunsMove
<1>6. ((PairStep \/ ServiceStep) /\ UNCHANGED driverVars) => DriverMoves
  BY PairingLeavesDriver
<1>7. (NoFix \/ Stop) => Broken
  BY DEF NoFix, Stop
<1>8. UNCHANGED setupVars => DriverMoves
  BY DEF setupVars, pairingVars, driverVars, SetupInvariant, Grows, StaysAtStep, DriverMoves
<1> QED
  BY <1>1, <1>2, <1>3, <1>4, <1>5, <1>6, <1>7, <1>8 DEF SetupNext


-----------------------------------------------------------------------------
(* The zone the operator wants *)

\* Past its step the zone is settled or given up; what a run may skip, or a retry
\* after it, was settled or failed; and nobody is asked anything on the way there.
ZoneIsGood ==
  /\ driver.at > 8 => driver.zone = "set" \/ ZoneGivenUp
  /\ "timezone" \in driver.skip => driver.zone \in {"set", "failed"}
  /\ "timezone" \in driver.completed =>
       /\ driver.at > 8 \/ (driver.at = 8 /\ driver.sub # "start")
       /\ driver.prompt # "none" => driver.zone \in {"set", "failed"}
  /\ driver.at <= 8 /\ driver.state = "running" => driver.prompt = "none"

\* The driver is busy with another step, and goes on, fails or stops there.
Elsewhere ==
  /\ driver.at # 8 /\ driver'.at \in {driver.at, driver.at + 1}
  /\ driver'.zone = driver.zone /\ driver'.skip = driver.skip
  /\ "timezone" \in driver'.completed <=> "timezone" \in driver.completed
  /\ driver'.state = "running" => driver.state = "running"
  /\ driver'.prompt = driver.prompt \/ driver'.state # "running" \/ driver.at > 8

LEMMA ElsewhereKeepsZone ==
  ASSUME driver \in Driver, ZoneIsGood, Elsewhere
  PROVE  ZoneIsGood'
<1>1. driver.at \in 1..10
  BY DEF Driver
<1> QED
  BY <1>1 DEF ZoneIsGood, Elsewhere, ZoneGivenUp

\* The driver stays where it is, and stops or has what it asked answered.
Waits ==
  /\ UNCHANGED <<driver.at, driver.zone, driver.skip, driver.completed, driver.sub>>
  /\ driver'.state = driver.state \/ driver'.state # "running"
  /\ driver'.prompt = driver.prompt \/ driver.prompt # "none"

LEMMA WaitingKeepsZone ==
  ASSUME driver \in Driver, ZoneIsGood, Waits
  PROVE  ZoneIsGood'
BY DEF ZoneIsGood, Waits, ZoneGivenUp

LEMMA AtZone ==
  ASSUME SetupInvariant, NEW step, At(step)
  PROVE  driver.at = 8 <=> step = "timezone"
<1>1. /\ Steps[1] = "environment" /\ Steps[2] = "container" /\ Steps[3] = "onecli"
      /\ Steps[4] = "auth" /\ Steps[5] = "mounts" /\ Steps[6] = "service"
      /\ Steps[7] = "cli-agent" /\ Steps[8] = "timezone" /\ Steps[9] = "channel"
      /\ Steps[10] = "verify"
  BY DEF Steps
<1>2. driver.at \in 1..10 /\ Steps[driver.at] = step
  BY AtFacts
<1>3. \/ driver.at = 1 \/ driver.at = 2 \/ driver.at = 3 \/ driver.at = 4 \/ driver.at = 5
      \/ driver.at = 6 \/ driver.at = 7 \/ driver.at = 8 \/ driver.at = 9 \/ driver.at = 10
  BY <1>2
<1> QED
  BY <1>1, <1>2, <1>3

\* A step other than that of the zone is done or fails.
LEMMA StepElsewhere ==
  ASSUME SetupInvariant, NEW step, step # "timezone", At(step), Completes(step) \/ Passes \/ Fails
  PROVE  Elsewhere
<1>1. driver \in Driver /\ driver.state = "running" /\ driver.at \in 1..10 /\ driver.at # 8
  BY AtFacts, AtZone
<1>2. CASE Completes(step)
  <2>1. driver' = [driver EXCEPT !.at = driver.at + 1, !.sub = "start",
                                 !.completed = driver.completed \union {step}]
    BY <1>2 DEF Completes, Completed
  <2> QED
    BY <1>1, <2>1 DEF Driver, Elsewhere
<1>3. CASE Passes
  <2>1. driver' = [driver EXCEPT !.at = driver.at + 1, !.sub = "start"]
    BY <1>3 DEF Passes, Passed
  <2> QED
    BY <1>1, <2>1 DEF Driver, Elsewhere
<1>4. CASE Fails
  BY <1>1, <1>4 DEF Fails, Driver, Elsewhere
<1> QED
  BY <1>2, <1>3, <1>4

\* So are the parts of the step of the channel.
LEMMA PartElsewhere ==
  ASSUME SetupInvariant, NEW step, Doing(step), Goes \/ GivesUp
  PROVE  Elsewhere
<1>1. driver \in Driver /\ driver.state = "running" /\ driver.at = 9
  BY DoingFacts
<1>2. CASE Fails
  BY <1>1, <1>2 DEF Fails, Driver, Elsewhere
<1>3. ASSUME NEW d, d = driver \/ d = [driver EXCEPT !.prompt = "diagnose"], driver' = GoesOn(d)
      PROVE  Elsewhere
  <2>1. /\ d \in Driver /\ d.at = 9 /\ d.zone = driver.zone /\ d.skip = driver.skip
        /\ d.completed = driver.completed /\ d.state = "running"
    BY <1>1, <1>3 DEF Driver
  <2>2. \/ driver' = [d EXCEPT !.todo = Tail(d.todo)]
        \/ driver' = [d EXCEPT !.at = d.at + 1, !.todo = <<>>, !.channel = "none"]
    BY <1>3 DEF GoesOn, Ended
  <2>3. /\ driver'.at \in {9, 10} /\ driver'.zone = d.zone /\ driver'.skip = d.skip
        /\ driver'.completed = d.completed /\ driver'.state = d.state
    <3>1. CASE driver' = [d EXCEPT !.todo = Tail(d.todo)]
      BY <2>1, <3>1 DEF Driver
    <3>2. CASE driver' = [d EXCEPT !.at = d.at + 1, !.todo = <<>>, !.channel = "none"]
      BY <2>1, <3>2 DEF Driver
    <3> QED
      BY <2>2, <3>1, <3>2
  <2> QED
    BY <1>1, <2>1, <2>3 DEF Elsewhere
<1> QED
  BY <1>2, <1>3 DEF Goes, GivesUp

LEMMA ChannelElsewhere ==
  ASSUME SetupInvariant, Channel
  PROVE  Elsewhere \/ Waits
<1>1. driver \in Driver
  BY DEF SetupInvariant
<1>2. CASE NoChannel
  BY <1>2, StepElsewhere DEF NoChannel
<1>3. CASE ChooseChannel
  <2>1. driver.at = 9 /\ driver.state = "running"
    BY <1>3, AtFacts DEF ChooseChannel
  <2>2. PICK channel \in {"telegram"} \union OtherChannels :
          driver' = [driver EXCEPT !.channel = channel, !.todo = Flows[channel]]
    BY <1>3 DEF ChooseChannel
  <2> QED
    BY <1>1, <2>1, <2>2 DEF Driver, Elsewhere
<1>4. CASE PackageFails
  BY <1>1, <1>4 DEF PackageFails, Driver, Waits
<1>5. CASE Paired
  <2>1. driver.at = 9 /\ driver.state = "running"
    BY <1>5, DoingFacts DEF Paired
  <2> QED
    BY <1>1, <1>5, <2>1 DEF Paired, Driver, Elsewhere
<1>6. CASE PairingFailed
  BY <1>6, StepElsewhere DEF PairingFailed, Doing
<1>7. CASE ConnectChat /\ driver' = Ended([driver EXCEPT !.chat = ChatToConnect])
  <2>1. driver.at = 9 /\ driver.state = "running"
    BY <1>7, DoingFacts DEF ConnectChat
  <2> DEFINE d == [driver EXCEPT !.chat = ChatToConnect]
  <2>2. /\ DOMAIN d = DOMAIN driver /\ d.at = 9 /\ d.zone = driver.zone /\ d.skip = driver.skip
        /\ d.completed = driver.completed /\ d.state = "running" /\ d.prompt = driver.prompt
    BY <1>1, <2>1 DEF Driver
  <2>3. driver' = [d EXCEPT !.at = d.at + 1, !.todo = <<>>, !.channel = "none"]
    BY <1>7 DEF Ended
  <2>4. DOMAIN driver = {"state", "at", "sub", "skip", "completed", "todo", "channel", "chat",
                         "prompt", "reexec", "zone"}
    BY <1>1 DEF Driver
  <2> HIDE DEF d
  <2>5. /\ driver'.at = 10 /\ driver'.zone = d.zone /\ driver'.skip = d.skip
        /\ driver'.completed = d.completed /\ driver'.state = d.state
    BY <2>2, <2>3, <2>4
  <2> QED
    BY <2>1, <2>2, <2>5 DEF Elsewhere
<1>8. CASE \E step \in FlowNames : Doing(step) /\ (Goes \/ GivesUp)
  BY <1>8, PartElsewhere
<1>9. Checks \/ Linking \/ RestartService => \E step \in FlowNames : Doing(step) /\ (Goes \/ GivesUp)
  BY DEF Checks, CheckToken, CheckTool, ChooseMode, Identify, OpenDm, ChannelChildFails,
     Linking, LinkSignal, LinkWhatsApp, Link, SignalLinkFails, WhatsAppLinkFails,
     RestartService, FlowNames
<1>10. Teams => PackageFails \/ \E step \in FlowNames : Doing(step) /\ (Goes \/ GivesUp)
  BY DEF Teams, RegisterApp, CreateBot, Sideload, BuildPackage, Handoff, FlowNames
<1>11. ConnectChat \/ ConnectFails =>
         \/ ConnectChat /\ driver' = Ended([driver EXCEPT !.chat = ChatToConnect])
         \/ \E step \in FlowNames : Doing(step) /\ (Goes \/ GivesUp)
  BY DEF ConnectChat, ConnectFails, FlowNames
<1> QED
  BY <1>2, <1>3, <1>4, <1>5, <1>6, <1>7, <1>8, <1>9, <1>10, <1>11 DEF Channel

\* The step of the zone itself.
LEMMA TimezoneKeepsZone ==
  ASSUME SetupInvariant, ZoneIsGood, Timezone
  PROVE  ZoneIsGood'
<1>1. driver \in Driver /\ At("timezone")
  BY DEF SetupInvariant, Timezone, DetectZone, KeepZone, NameZone, PersistZone, TimezoneFails
<1>2. driver.at = 8 /\ driver.state = "running" /\ "timezone" \notin driver.skip
  BY <1>1, AtZone DEF At
<1>3. driver.prompt = "none"
  BY <1>2 DEF ZoneIsGood
<1>4. CASE DetectZone
  <2>1. driver'.at = 8 /\ driver'.sub = "asked" /\ driver'.prompt = "none" /\ driver'.skip = driver.skip
    BY <1>1, <1>2, <1>3, <1>4 DEF DetectZone, Driver
  <2> QED
    BY <1>2, <2>1 DEF ZoneIsGood
<1>5. CASE KeepZone \/ PersistZone
  <2> DEFINE d == [driver EXCEPT !.zone = "set"]
  <2>1. \/ driver' = [d EXCEPT !.at = d.at + 1, !.sub = "start"]
        \/ driver' = [d EXCEPT !.at = d.at + 1, !.sub = "start",
                               !.completed = d.completed \union {"timezone"}]
    BY <1>5 DEF KeepZone, PersistZone, Passed, Completed
  <2>2. d \in Driver /\ d.at = 8 /\ d.zone = "set"
    BY <1>1, <1>2 DEF Driver
  <2> HIDE DEF d
  <2>3. CASE driver' = [d EXCEPT !.at = d.at + 1, !.sub = "start"]
    <3>1. driver'.at = 9 /\ driver'.zone = "set"
      BY <2>2, <2>3 DEF Driver
    <3> QED
      BY <3>1 DEF ZoneIsGood
  <2>4. CASE driver' = [d EXCEPT !.at = d.at + 1, !.sub = "start",
                                 !.completed = d.completed \union {"timezone"}]
    <3>1. driver'.at = 9 /\ driver'.zone = "set"
      BY <2>2, <2>4 DEF Driver
    <3> QED
      BY <3>1 DEF ZoneIsGood
  <2> QED
    BY <2>1, <2>3, <2>4
<1>6. CASE NameZone
  <2>1. /\ driver'.at = 8 /\ driver'.sub = "persist" /\ driver'.prompt = "none"
        /\ driver'.skip = driver.skip
    BY <1>1, <1>2, <1>3, <1>6 DEF NameZone, Driver
  <2> QED
    BY <1>2, <2>1 DEF ZoneIsGood
<1>7. CASE TimezoneFails
  <2>1. /\ driver'.at = 8 /\ driver'.sub = driver.sub /\ driver'.state = "failed"
        /\ driver'.skip = driver.skip /\ driver'.completed = driver.completed
        /\ driver.sub = "persist" /\ "timezone" \in driver.completed => driver'.zone = "failed"
        /\ driver.sub \in {"start", "persist"}
    BY <1>1, <1>2, <1>7 DEF TimezoneFails, Driver
  <2> QED
    BY <1>2, <2>1 DEF ZoneIsGood
<1> QED
  BY <1>4, <1>5, <1>6, <1>7 DEF Timezone

\* The driver runs again: it skips what it did, or what was completed when it asked.
LEMMA RunsKeepZone ==
  ASSUME SetupInvariant, ZoneIsGood, Reexec \/ Retry \/ RunAgain
  PROVE  ZoneIsGood'
<1>1. PICK skip \in {driver.skip, driver.skip \union driver.completed, {}}, reexec \in {driver.reexec, TRUE, FALSE} :
        /\ driver' = Fresh(skip, reexec, driver.zone)
        /\ skip = driver.skip \union driver.completed => driver.prompt = "retry" \/ skip \in {driver.skip, {}}
  BY DEF Reexec, Retry, RunAgain, MayRetry
<1>2. /\ driver'.at = 1 /\ driver'.prompt = "none" /\ driver'.completed = {} /\ driver'.skip = skip
      /\ driver'.zone = driver.zone
  BY <1>1 DEF Fresh
<1>3. "timezone" \in skip => driver.zone \in {"set", "failed"}
  BY <1>1 DEF ZoneIsGood
<1> QED
  BY <1>2, <1>3 DEF ZoneIsGood

LEMMA ZoneStep ==
  ASSUME SetupInvariant, ZoneIsGood, [SetupNext]_setupVars
  PROVE  ZoneIsGood'
<1>1. driver \in Driver /\ driver.at \in 1..10
  BY DEF SetupInvariant, Driver
<1>2. (Elsewhere \/ Waits) => ZoneIsGood'
  BY <1>1, ElsewhereKeepsZone, WaitingKeepsZone
<1>3. driver' = driver => Waits
  BY DEF Waits
<1>4. CASE SkipStep
  <2>1. /\ driver' = [driver EXCEPT !.at = driver.at + 1, !.sub = "start"]
        /\ Steps[driver.at] \in driver.skip /\ driver.state = "running"
    BY <1>4 DEF SkipStep, Passes, Passed
  <2>2. /\ driver'.at = driver.at + 1 /\ driver'.zone = driver.zone /\ driver'.skip = driver.skip
        /\ driver'.completed = driver.completed /\ driver'.prompt = driver.prompt
    BY <1>1, <2>1 DEF Driver
  <2>3. CASE driver.at # 8
    <3>1. Elsewhere
      BY <1>1, <2>1, <2>2, <2>3 DEF Elsewhere
    <3> QED
      BY <1>2, <3>1
  <2>4. CASE driver.at = 8
    <3>1. "timezone" \in driver.skip
      BY <2>1, <2>4 DEF Steps
    <3> QED
      BY <2>1, <2>2, <2>4, <3>1 DEF ZoneIsGood, ZoneGivenUp
  <2> QED
    BY <2>3, <2>4
<1>5. CASE ChildStep \/ Authentication
  <2>1. CASE CreateCliAgent /\ driver' = [driver EXCEPT !.sub = "ping", !.completed = driver.completed \union {"cli-agent"}]
    <3>1. driver.state = "running" /\ driver.at # 8
      BY <2>1, AtFacts, AtZone DEF CreateCliAgent
    <3>2. Elsewhere
      BY <1>1, <2>1, <3>1 DEF Driver, Elsewhere
    <3> QED
      BY <1>2, <3>2
  <2>2. CASE \E step \in StepNames \ {"timezone"} : At(step) /\ (Completes(step) \/ Passes \/ Fails)
    BY <1>2, <2>2, StepElsewhere
  <2>3. Authentication => \E step \in StepNames \ {"timezone"} : At(step) /\ (Completes(step) \/ Passes \/ Fails)
    BY DEF Authentication, Authenticate, PasteAuth, SignIn, AuthFails, StepNames
  <2>4. ChildStep =>
          \/ CreateCliAgent /\ driver' = [driver EXCEPT !.sub = "ping", !.completed = driver.completed \union {"cli-agent"}]
          \/ \E step \in StepNames \ {"timezone"} : At(step) /\ (Completes(step) \/ Passes \/ Fails)
    BY DEF ChildStep, CheckEnvironment, BuildContainer, WindowedStep, InstallOnecli, WriteAccessRules,
       SetUpService, CreateCliAgent, FirstChat, StepRuns, StepNames
  <2> QED
    BY <1>5, <2>1, <2>2, <2>3, <2>4
<1>6. CASE Channel
  BY <1>2, <1>6, ChannelElsewhere
<1>7. CASE Verified \/ NotVerified \/ Broken
  BY <1>1, <1>2, <1>7 DEF Verified, NotVerified, Broken, Driver, Waits
<1>8. CASE SuggestFix
  BY <1>1, <1>2, <1>8 DEF SuggestFix, Driver, Waits
<1>9. CASE HostStarts \/ UNCHANGED driverVars \/ UNCHANGED setupVars
  BY <1>2, <1>3, <1>9 DEF HostStarts, driverVars, setupVars
<1> QED
  BY <1>4, <1>5, <1>6, <1>7, <1>8, <1>9, TimezoneKeepsZone, RunsKeepZone DEF SetupNext, NoFix, Stop

-----------------------------------------------------------------------------
(* The theorems *)

\* What the driver does to the pairing: it starts the process or takes it down, and
\* the service with it.
LEMMA DriverIsCalm ==
  ASSUME PairTypes, SetupNext
  PROVE  CalmPairing \/ (PairStep \/ ServiceStep)
<1>1. /\ PairOff \in PairRecord /\ [PairOff EXCEPT !.phase = "issuing"] \in PairRecord
      /\ PairOff.phase = "off" /\ [PairOff EXCEPT !.phase = "issuing"].phase = "issuing"
      /\ PairOff.snap = <<>> /\ [PairOff EXCEPT !.phase = "issuing"].snap = <<>>
  <2>1. <<>> \in Seq(Record) /\ 0 \in Nat
    OBVIOUS
  <2> QED
    BY <2>1 DEF PairOff, PairRecord
<1>2. \A h \in {HostDown} \union HostStarted : h \in HostRecord /\ h.phase = "idle" /\ h.snap = <<>>
  BY HostIdleType DEF HostStarted, HostDown
<1>3. ASSUME UNCHANGED <<file, echoed, issued, reused>>,
             pair' = pair \/ pair' = PairOff \/ pair' = [PairOff EXCEPT !.phase = "issuing"],
             host' = host \/ host' \in {HostDown} \union HostStarted
      PROVE  CalmPairing
  BY <1>1, <1>2, <1>3 DEF CalmPairing
<1>4. CASE SkipStep \/ ChildStep \/ Reexec
  <2>1. CASE SkipStep \/ FirstChat
    BY <1>3, <2>1 DEF SkipStep, FirstChat, pairingVars
  <2>2. CASE CreateCliAgent \/ Reexec
    BY <1>3, <2>2 DEF CreateCliAgent, Reexec
  <2>3. CASE CheckEnvironment \/ BuildContainer \/ InstallOnecli \/ WriteAccessRules
    BY <1>3, <2>3 DEF CheckEnvironment, BuildContainer, WindowedStep, InstallOnecli,
                      WriteAccessRules, StepRuns
  <2>4. CASE SetUpService
    <3>1. host' = host \/ host' \in {HostDown} \union HostStarted
      BY <2>4 DEF SetUpService, RestartUnit, ReloadJob, WriteScript
    <3>2. UNCHANGED <<file, echoed, issued, reused>> /\ pair' = pair
      BY <2>4 DEF SetUpService, StepRuns
    <3> QED
      BY <1>3, <3>1, <3>2
  <2> QED
    BY <1>4, <2>1, <2>2, <2>3, <2>4 DEF ChildStep
<1>5. CASE Authentication \/ Timezone
  BY <1>3, <1>5
  DEF Authentication, Authenticate, PasteAuth, SignIn, AuthFails, Timezone, DetectZone,
      KeepZone, NameZone, PersistZone, TimezoneFails, pairingVars
<1>6. CASE Channel
  <2>1. CASE NoChannel \/ ChooseChannel \/ Checks
    BY <1>3, <2>1
    DEF NoChannel, ChooseChannel, Checks, CheckToken, CheckTool, ChooseMode, Identify,
        OpenDm, ChannelChildFails, pairingVars
  <2>2. CASE Teams \/ Linking
    BY <1>3, <2>2
    DEF Teams, RegisterApp, CreateBot, Sideload, BuildPackage, PackageFails, Handoff,
        Linking, LinkSignal, LinkWhatsApp, Link, SignalLinkFails, WhatsAppLinkFails,
        pairingVars
  <2>3. CASE RestartService
    <3>1. /\ UNCHANGED <<file, echoed, issued, reused>>
          /\ pair' = IF driver.channel = "telegram" THEN [PairOff EXCEPT !.phase = "issuing"] ELSE pair
          /\ host' \in {HostDown} \union HostStarted
      BY <2>3 DEF RestartService
    <3> QED
      BY <1>3, <3>1
  <2>4. CASE Paired \/ PairingFailed
    BY <1>3, <2>4 DEF Paired, PairingFailed
  <2>5. CASE ConnectChat \/ ConnectFails
    BY <1>3, <2>5 DEF ConnectChat, ConnectFails
  <2> QED
    BY <1>6, <2>1, <2>2, <2>3, <2>4, <2>5 DEF Channel
<1>7. CASE Verified \/ NotVerified \/ SuggestFix \/ Broken \/ Retry \/ RunAgain \/ HostStarts
  BY <1>3, <1>7
  DEF Verified, NotVerified, SuggestFix, Broken, Retry, RunAgain, HostStarts, pairingVars
<1>8. (NoFix \/ Stop) => Broken
  BY DEF NoFix, Stop
<1> QED
  BY <1>4, <1>5, <1>6, <1>7, <1>8 DEF SetupNext

LEMMA PairingStep ==
  ASSUME PairInvariant, [SetupNext]_setupVars
  PROVE  PairInvariant'
<1>1. PairTypes
  BY DEF PairInvariant
<1>2. CASE UNCHANGED setupVars
  <2>1. CalmPairing
    BY <1>2 DEF setupVars, pairingVars, CalmPairing
  <2> QED
    BY <2>1, CalmKeepsPairing
<1>3. CASE CalmPairing
  BY <1>3, CalmKeepsPairing
<1>4. CASE PairStep
  <2>1. CASE IssueRead
    <3>1. /\ pair \in PairRecord /\ Stored \in Seq(Record)
          /\ pair' = [pair EXCEPT !.phase = "writing", !.snap = Stored]
      BY <1>1, <2>1, StoredFacts DEF PairTypes, IssueRead
    <3>2. pair' \in PairRecord /\ pair'.phase = "writing" /\ pair'.snap = Stored
      BY <3>1 DEF PairRecord
    <3>3. CalmPairing
      BY <2>1, <3>2 DEF IssueRead, CalmPairing
    <3> QED
      BY <3>3, CalmKeepsPairing
  <2> QED
    BY <1>4, <2>1, IssueKeepsPairing, CheckKeepsPairing DEF PairStep
<1>5. CASE ServiceStep
  <2>1. CASE OperatorSends
    <3>1. Receive(Operator, pair.code) /\ Operator \in Chats /\ pair.code \in Codes \union {NoCode}
      BY <1>1, <2>1, OperatorAssumption DEF OperatorSends, PairTypes, PairRecord
    <3> QED
      BY <3>1, ReceiveKeepsPairing
  <2>2. CASE StraySends
    <3>1. PICK writer \in Chats, code \in Codes : Receive(writer, code)
      BY <2>2 DEF StraySends
    <3> QED
      BY <3>1, ReceiveKeepsPairing
  <2>3. CASE RegisterChat \/ RegisterFails \/ HostStops
    <3>1. host' = HostDown \/ host' = HostIdle(TRUE, host.named)
      BY <2>3 DEF RegisterChat, RegisterFails, HostStops
    <3>2. UNCHANGED <<file, pair, echoed, issued, reused>>
      BY <2>3 DEF RegisterChat, RegisterFails, HostStops
    <3>3. host' \in HostRecord /\ host'.phase = "idle" /\ host'.snap = <<>>
      <4>1. host.named \in BOOLEAN
        BY <1>1 DEF PairTypes, HostRecord
      <4> QED
        BY <3>1, <4>1, HostIdleType DEF HostDown
    <3>4. CalmPairing
      BY <3>2, <3>3 DEF CalmPairing
    <3> QED
      BY <3>4, CalmKeepsPairing
  <2> QED
    BY <1>5, <2>1, <2>2, <2>3, ConsumeKeepsPairing DEF ServiceStep
<1> QED
  BY <1>1, <1>2, <1>3, <1>4, <1>5, DriverIsCalm

LEMMA SetupStarts ==
  ASSUME SetupInit
  PROVE  PairInvariant /\ SetupInvariant /\ ZoneIsGood
<1>1. /\ file = <<>> /\ pair = PairOff /\ host = HostDown /\ driver = Fresh({}, FALSE, "open")
  BY DEF SetupInit, PairingInit
<1>2. <<>> \in Seq(Record) /\ <<>> \in Seq(FlowNames) /\ 0 \in Nat /\ Len(<<>>) = 0 /\ DOMAIN <<>> = {}
  OBVIOUS
<1>3. /\ pair \in PairRecord /\ pair.phase = "off" /\ pair.snap = <<>>
      /\ host \in HostRecord /\ host.phase = "idle" /\ host.snap = <<>>
  BY <1>1, <1>2 DEF PairOff, HostDown, HostIdle, PairRecord, HostRecord
<1>4. PairInvariant
  <2>1. PairTypes /\ PairedChatEchoed /\ ~Shown
    BY <1>1, <1>2, <1>3 DEF PairTypes, PairedChatEchoed, Shown
  <2>2. Known(file) /\ Known(pair.snap) /\ Known(host.snap)
    BY <1>1, <1>2, <1>3 DEF Known
  <2> QED
    BY <2>1, <2>2 DEF PairInvariant
<1>5. /\ driver.state = "running" /\ driver.at = 1 /\ driver.sub = "start" /\ driver.skip = {}
      /\ driver.completed = {} /\ driver.todo = <<>> /\ driver.channel = "none" /\ driver.chat = NoChat
  BY <1>1 DEF Fresh
<1>6. driver \in Driver
  BY <1>1, <1>2 DEF Fresh, Driver
<1>7. BehindInPlace
  <2>1. 1..(driver.at - 1) = {}
    BY <1>5
  <2> QED
    BY <1>5, <2>1 DEF BehindInPlace
<1>8. FlowIsGood
  BY <1>2, <1>5 DEF FlowIsGood
<1> QED
  BY <1>1, <1>4, <1>5, <1>6, <1>7, <1>8 DEF SetupInvariant, ZoneIsGood, Fresh

\* The invariants of the pairing and of the driver hold together.
LEMMA SetupInvariants ==
  SetupSpec => [](PairInvariant /\ SetupInvariant /\ ZoneIsGood)
<1>1. SetupInit => PairInvariant /\ SetupInvariant /\ ZoneIsGood
  BY SetupStarts
<1>2. PairInvariant /\ SetupInvariant /\ ZoneIsGood /\ [SetupNext]_setupVars
        => (PairInvariant /\ SetupInvariant /\ ZoneIsGood)'
  <2>1. PairInvariant => PairTypes
    BY DEF PairInvariant
  <2> QED
    BY <2>1, PairingStep, SetupStep, ZoneStep
<1> QED
  BY <1>1, <1>2, PTL DEF SetupSpec

\* PairedChatEchoed: the chat that the step pairs sent the very code on show since
\* it was (waitForPairing, tryConsume), however the two processes overwrite the file
\* of each other; except a code that was drawn twice.
THEOREM PairedChatSentCode == SetupSpec => []PairedChatEchoed
<1>1. PairInvariant /\ SetupInvariant => PairedChatEchoed
  BY DEF PairInvariant
<1> QED
  BY <1>1, SetupInvariants, PTL

\* CompletedInPlace: setup completes only with all in place that its steps stand for,
\* the zone the operator wants and the chat it paired connected, whatever failed, was
\* fixed, was skipped in a retry or was broken off on the way (main, runTimezoneStep,
\* fail, runTelegramChannel); except a zone that could not be saved and was passed
\* over by the retry.
THEOREM CompletedIsInPlace == SetupSpec => []CompletedInPlace
<1>1. PairInvariant /\ SetupInvariant /\ ZoneIsGood => CompletedInPlace
  <2>1. SUFFICES ASSUME SetupInvariant, ZoneIsGood, driver.state = "completed"
                 PROVE  /\ Resources \subseteq inPlace
                        /\ driver.zone = "set" \/ ZoneGivenUp
                        /\ driver.chat # NoChat => driver.chat \in connected \intersect registered
    BY DEF CompletedInPlace
  <2>2. driver.at = 10
    BY <2>1 DEF SetupInvariant
  <2>3. Resources \subseteq inPlace
    BY <2>1, <2>2, LastStepFacts
  <2>4. ~AboutToConnect
    BY <2>2 DEF AboutToConnect
  <2> QED
    BY <2>1, <2>2, <2>3, <2>4 DEF SetupInvariant, ZoneIsGood, Connected
<1> QED
  BY <1>1, SetupInvariants, PTL
=============================================================================
