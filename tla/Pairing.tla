------------------------------ MODULE Pairing ------------------------------
(***************************************************************************)
(* Telegram pairing: the pair-telegram step of setup issues a code and     *)
(* waits for it (telegram-pairing.ts, pair-telegram.ts), the running       *)
(* service consumes codes that chats send (the interceptor in              *)
(* telegram.ts). They are two processes and share one JSON file, which     *)
(* each reads and writes as a whole under a lock of its own.               *)
(* One intent ("main") is modelled.                                        *)
(***************************************************************************)
EXTENDS Naturals, Sequences, SequencesExt

CONSTANTS
  Chats,             \* the chats that may send a code
  Operator,          \* the one the operator sends it from
  Codes,             \* the space of codes, 10^4 in the source
  NoChat, NoCode,    \* none
  MaxRecords,        \* sweep's cap on the store, 50
  MaxRegenerations,  \* MAX_REGENERATIONS
  MaxFaults          \* bound: stray messages, stops, errors, failed steps

ASSUME OperatorAssumption == Operator \in Chats /\ NoChat \notin Chats /\ NoCode \notin Codes
ASSUME LimitsAssumption == MaxRegenerations \in Nat /\ MaxRecords \in Nat \ {0}

VARIABLES
  file,        \* data/telegram-pairings.json
  pair,        \* the pair-telegram process
  host,        \* the service: up, named (it knows its username), and the message
               \* its interceptor is busy with
  registered,  \* chats with a messaging group
  echoed,      \* history: the chats that sent the code on show since it is
  issued,      \* history: the codes issued so far
  reused,      \* history: the code on show had been issued before
  faults       \* what is left of MaxFaults

pairingVars == <<file, pair, host, registered, echoed, issued, reused, faults>>

PairOff == [phase |-> "off", code |-> NoCode, chat |-> NoChat,
            regen |-> 0, snap |-> <<>>]
HostIdle(up, named) ==
  [up |-> up, named |-> named, phase |-> "idle", chat |-> NoChat, code |-> NoCode, snap |-> <<>>]

\* The service starts. It asks Telegram for the username of the bot once, and does
\* without for as long as it runs if that fails.
HostStarted == {HostIdle(TRUE, named) : named \in BOOLEAN}
HostDown == HostIdle(FALSE, FALSE)

Fault == faults > 0 /\ faults' = faults - 1

-----------------------------------------------------------------------------
(* The store *)

\* sweep, on every read: the oldest records go.
Stored == SubSeq(file, IF Len(file) > MaxRecords THEN Len(file) - MaxRecords + 1 ELSE 1, Len(file))

\* getPairing: the first record with the code, whatever its status.
Lookup(f, code) == SelectInSeq(f, LAMBDA r : r.code = code)

\* Mutant of LookupPending: the code is not compared.
FirstPending(f, code) == SelectInSeq(f, LAMBDA r : r.status = "pending")

\* tryConsume: the first pending one.
LookupPending(f, code) == SelectInSeq(f, LAMBDA r : r.code = code /\ r.status = "pending")

\* A new code of the intent, and a wrong guess, invalidate what is pending.
Invalidated(f) ==
  [k \in DOMAIN f |-> IF f[k].status = "pending" THEN [f[k] EXCEPT !.status = "invalidated"]
                                                 ELSE f[k]]

\* generateCode avoids the codes still pending once the old ones are superseded:
\* none, for one intent.
FreeCodes(f) == {c \in Codes : \A k \in DOMAIN Invalidated(f) :
                                  f[k].code = c => Invalidated(f)[k].status # "pending"}

-----------------------------------------------------------------------------
(* The pair-telegram process *)

\* createPairing reads the store ...
IssueRead ==
  /\ pair.phase = "issuing"
  /\ pair' = [pair EXCEPT !.phase = "writing", !.snap = Stored]
  /\ UNCHANGED <<file, host, registered, echoed, issued, reused, faults>>

\* ... and writes it back as a whole, with what is pending superseded and the
\* new code at its end; the code is shown.
IssueWrite ==
  /\ pair.phase = "writing"
  /\ \E code \in FreeCodes(pair.snap) :
       /\ file' = Append(Invalidated(pair.snap),
                         [code |-> code, status |-> "pending", chat |-> NoChat])
       /\ pair' = [pair EXCEPT !.phase = "waiting", !.code = code, !.snap = <<>>]
       /\ reused' = (code \in issued)
       /\ issued' = issued \cup {code}
  /\ echoed' = {}
  /\ UNCHANGED <<host, registered, faults>>

\* Mutant of CheckPairing: a record that is not there is waited for.
CheckPatiently ==
  LET k == Lookup(Stored, pair.code) IN
  /\ pair.phase = "waiting" /\ k # 0
  /\ \/ /\ Stored[k].status = "consumed"
        /\ pair' = [pair EXCEPT !.phase = "ok", !.chat = Stored[k].chat]
     \/ /\ Stored[k].status = "invalidated"
        /\ pair' = IF pair.regen < MaxRegenerations
                   THEN [pair EXCEPT !.phase = "issuing", !.regen = @ + 1]
                   ELSE [pair EXCEPT !.phase = "failed"]
  /\ UNCHANGED <<file, host, registered, echoed, issued, reused, faults>>

\* waitForPairing's check, on a change of the file or the poll, and what run()
\* makes of it: consumed ends the step, a wrong guess starts over a few times,
\* a record that is not there ends it too.
CheckPairing ==
  LET k == Lookup(Stored, pair.code) IN
  /\ pair.phase = "waiting"
  /\ \/ /\ k = 0
        /\ pair' = [pair EXCEPT !.phase = "failed"]
     \/ /\ k # 0 /\ Stored[k].status = "consumed"
        /\ pair' = [pair EXCEPT !.phase = "ok", !.chat = Stored[k].chat]
     \/ /\ k # 0 /\ Stored[k].status = "invalidated"
        /\ pair' = IF pair.regen < MaxRegenerations
                   THEN [pair EXCEPT !.phase = "issuing", !.regen = @ + 1]
                   ELSE [pair EXCEPT !.phase = "failed"]
  /\ UNCHANGED <<file, host, registered, echoed, issued, reused, faults>>

-----------------------------------------------------------------------------
(* The service *)

\* A chat sends four digits, and tryConsume reads the store. A service without its
\* username has the message go to the router, as any other.
Receive(chat, code) ==
  /\ host.up /\ host.phase = "idle"
  /\ host' = IF host.named
             THEN [host EXCEPT !.phase = "read", !.chat = chat, !.code = code, !.snap = Stored]
             ELSE host
  /\ echoed' = IF pair.phase = "waiting" /\ pair.code = code
               THEN echoed \cup {chat} ELSE echoed
  /\ UNCHANGED <<file, pair, registered, issued, reused>>

\* The operator sends the code on show.
OperatorSends == pair.phase = "waiting" /\ Receive(Operator, pair.code) /\ UNCHANGED faults

\* Anybody sends any four digits: a typo, an old code, another chat.
StraySends == Fault /\ \E chat \in Chats, code \in Codes : Receive(chat, code)

\* tryConsume writes the store back: a hit is consumed for the chat, a miss
\* invalidates what is pending and the message goes on to the router.
Consume ==
  LET k == LookupPending(host.snap, host.code) IN
  /\ host.phase = "read"
  /\ IF k = 0
     THEN /\ file' = Invalidated(host.snap)
          /\ host' = HostIdle(TRUE, host.named)
     ELSE /\ file' = [host.snap EXCEPT ![k] = [@ EXCEPT !.status = "consumed",
                                                        !.chat = host.chat]]
          /\ host' = [host EXCEPT !.phase = "consumed", !.snap = <<>>]
  /\ UNCHANGED <<pair, registered, echoed, issued, reused, faults>>

\* The interceptor records the chat and its user.
RegisterChat ==
  /\ host.phase = "consumed"
  /\ registered' = registered \cup {host.chat}
  /\ host' = HostIdle(TRUE, host.named)
  /\ UNCHANGED <<file, pair, echoed, issued, reused, faults>>

\* An error after the code is consumed: the message is passed on instead.
RegisterFails ==
  /\ host.phase = "consumed" /\ Fault
  /\ host' = HostIdle(TRUE, host.named)
  /\ UNCHANGED <<file, pair, registered, echoed, issued, reused>>

\* A crash of the service; what its interceptor was at is lost.
HostStops ==
  /\ host.up /\ Fault
  /\ host' = HostDown
  /\ UNCHANGED <<file, pair, registered, echoed, issued, reused>>

PairingInit ==
  /\ file = <<>> /\ pair = PairOff /\ host = HostDown
  /\ registered = {} /\ echoed = {} /\ issued = {} /\ reused = FALSE
  /\ faults = MaxFaults

ServiceStep == OperatorSends \/ StraySends \/ Consume \/ RegisterChat \/ RegisterFails \/ HostStops
PairStep == IssueRead \/ IssueWrite \/ CheckPairing

-----------------------------------------------------------------------------
(* Properties *)

\* The chat that setup goes on to connect sent the very code that was on show:
\* not a code of an earlier attempt, a lost write or a guess. A code drawn a
\* second time is excepted, for getPairing finds the older record.
PairedChatEchoed == pair.phase = "ok" /\ ~reused => pair.chat \in echoed

\* The service runs without its username, and will consume no code.
Nameless == host.up /\ ~host.named

\* Codes do not expire, yet an operator who keeps sending the code on show gets
\* to the end of the step, whatever the two processes overwrite. The exception is a
\* service that runs without its username: until it is restarted, nothing ends the step.
PairingEnds == pair.phase \in {"issuing", "writing", "waiting"}
                 ~> (pair.phase \in {"ok", "failed", "off"} \/ Nameless)
=============================================================================
