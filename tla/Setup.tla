-------------------------------- MODULE Setup --------------------------------
(***************************************************************************)
(* The driver of setup (setup/auto.ts): its steps in order, what each puts *)
(* in place and may leave behind when it fails, the fix that Claude may    *)
(* suggest and the retry it leads to (lib/claude-assist.ts, lib/runner.ts, *)
(* logs.ts), the restart under a new group, and the channel: Telegram with *)
(* the pairing of module Pairing, the others as the sequences of their     *)
(* checks and child processes. Prompts that only collect a value, logs and *)
(* texts are left out.                                                     *)
(***************************************************************************)
EXTENDS Pairing

CONSTANT OtherChannels  \* the channels on offer besides Telegram

ASSUME ChannelsAssumption ==
  OtherChannels \subseteq {"discord", "slack", "signal", "imessage", "whatsapp", "teams"}

VARIABLES
  driver,   \* the driver process
  inPlace,  \* what the steps have put in place
  connected \* chats wired to an agent

driverVars == <<driver, inPlace, connected>>
setupVars == <<pairingVars, driverVars>>

Steps == <<"environment", "container", "onecli", "auth", "mounts", "service",
           "cli-agent", "timezone", "channel", "verify">>
Resources == {"image", "gateway", "url", "secret", "rules", "unit", "agent", "cli"}

\* The credentials of a linked device, as WhatsApp and signal-cli keep them.
Links == {"whatsapp", "signal"}

\* state: running, failed (a fail() that is awaited), completed, incomplete (verify
\* found something), or stopped. todo: the rest of the flow of the channel. prompt:
\* what a fail() asks, also one that nobody awaits: whether to have it diagnosed,
\* then, when a suggested fix was run, whether to retry. zone: history over the runs,
\* what became of the zone the operator wants: open, named, set (agreed to or in
\* .env), or failed (it could not be saved, and its step counts as completed).
Fresh(skip, reexec, zone) ==
  [state |-> "running", at |-> 1, sub |-> "start", skip |-> skip, completed |-> {},
   todo |-> <<>>, channel |-> "none", chat |-> NoChat, prompt |-> "none", reexec |-> reexec,
   zone |-> zone]

At(step) == driver.state = "running" /\ Steps[driver.at] = step /\ step \notin driver.skip

\* setupLog.step: only success and skipped count as completed in this run.
Completed(d, step) == [d EXCEPT !.at = @ + 1, !.sub = "start", !.completed = @ \cup {step}]
Completes(step) == driver' = Completed(driver, step)
Passed(d) == [d EXCEPT !.at = @ + 1, !.sub = "start"]
Passes == driver' = Passed(driver)
Fails == driver' = [driver EXCEPT !.state = "failed", !.prompt = "diagnose"]

-----------------------------------------------------------------------------
(* The steps *)

\* main(): a step on the skip list is passed over.
SkipStep ==
  /\ driver.state = "running" /\ Steps[driver.at] \in driver.skip
  /\ Passes
  /\ UNCHANGED <<pairingVars, inPlace, connected>>

\* runQuietStep: the step, a child process, puts effects in place; one that fails
\* has left some of them behind.
StepRuns(step, effects, leftovers) ==
  /\ At(step)
  /\ \/ Completes(step) /\ inPlace' = inPlace \cup effects /\ UNCHANGED faults
     \/ Fails /\ Fault /\ \E left \in leftovers : inPlace' = inPlace \cup left
  /\ UNCHANGED <<file, pair, registered, echoed, issued, reused, connected>>

\* Reports what it finds.
CheckEnvironment == StepRuns("environment", {}, {{}}) /\ UNCHANGED host

\* runWindowedStep: as runQuietStep. Output that stalls opens a prompt beside the
\* step, where Claude may be asked; the step goes on whatever the answer.
WindowedStep(step, effects, leftovers) == StepRuns(step, effects, leftovers)

\* The image is built, then tried.
BuildContainer == WindowedStep("container", {"image"}, {{}, {"image"}}) /\ UNCHANGED host

\* installOnecli: the gateway comes first; the CLI, from the installer or else from
\* the release archive, may then still fail.
BrokenInstall == {{}, {"gateway"}}

\* A fresh OneCLI is installed, or the one there is reused; its URL goes to .env
\* last, and it need not answer yet.
InstallOnecli == StepRuns("onecli", {"gateway", "url"}, BrokenInstall) /\ UNCHANGED host

\* The allowlist is written, or is there already.
WriteAccessRules == StepRuns("mounts", {"rules"}, {{}}) /\ UNCHANGED host

\* setupSystemd: what runs is killed, the unit enabled and restarted; each may fail
\* and the step reports success all the same.
RestartUnit == host' \in {HostDown} \cup HostStarted

\* setupLaunchd: the job is unloaded, so that launchd reads the new plist, and
\* loaded; a load that fails leaves it down, and that too is a success.
ReloadJob == host' \in {HostDown} \cup HostStarted

\* setupNohupFallback: a script is written and nothing started or stopped.
WriteScript == UNCHANGED host

\* run: the build, which alone makes the step fail, then the platform's way.
SetUpService ==
  /\ StepRuns("service", {"unit"}, {{}})
  /\ \/ driver'.state = "running" /\ (RestartUnit \/ ReloadJob \/ WriteScript)
     \/ driver'.state = "failed" /\ UNCHANGED host

\* init-cli-agent.ts: the agent group, then the wiring of the CLI; both are
\* reused by another run.
CreateCliAgent ==
  /\ At("cli-agent") /\ driver.sub = "start"
  /\ \/ /\ driver' = [driver EXCEPT !.sub = "ping", !.completed = @ \cup {"cli-agent"}]
        /\ inPlace' = inPlace \cup {"agent", "cli"} /\ UNCHANGED faults
     \/ Fails /\ Fault /\ \E left \in {{}, {"agent"}} : inPlace' = inPlace \cup left
  /\ UNCHANGED <<file, pair, host, registered, echoed, issued, reused, connected>>

\* The agent is sent a ping through the socket of the service, and chatted with if
\* it answers; if not, Claude may be asked. The driver goes on either way.
FirstChat ==
  /\ At("cli-agent") /\ driver.sub = "ping"
  /\ Passes
  /\ UNCHANGED <<pairingVars, inPlace, connected>>

\* maybeReexecUnderSg: the container step worked, but the shell lacks the docker
\* group: the driver runs again from the top, once, with the skip list it was given.
Reexec ==
  /\ At("container") /\ ~driver.reexec /\ Fault
  /\ driver' = Fresh(driver.skip, TRUE, driver.zone)
  /\ inPlace' = inPlace \cup {"image"}
  /\ UNCHANGED <<file, pair, host, registered, echoed, issued, reused, connected>>

\* runAuthStep: a secret that is there is left alone.
Authenticate ==
  /\ At("auth") /\ "secret" \in inPlace
  /\ Completes("auth")
  /\ UNCHANGED <<pairingVars, inPlace, connected>>

\* runPasteAuth: the pasted secret goes to the vault.
PasteAuth ==
  /\ At("auth") /\ "secret" \notin inPlace
  /\ Completes("auth")
  /\ inPlace' = inPlace \cup {"secret"}
  /\ UNCHANGED <<pairingVars, connected>>

\* The sign-in is logged as interactive, which does not count.
SignIn ==
  /\ At("auth") /\ "secret" \notin inPlace
  /\ Passes
  /\ inPlace' = inPlace \cup {"secret"}
  /\ UNCHANGED <<pairingVars, connected>>

\* The paste or the sign-in fails. auth.ts looks the secret up again once it is
\* stored, so a failure may leave it in the vault.
AuthFails ==
  /\ At("auth") /\ "secret" \notin inPlace
  /\ Fault /\ Fails
  /\ \E left \in {{}, {"secret"}} : inPlace' = inPlace \cup left
  /\ UNCHANGED <<file, pair, host, registered, echoed, issued, reused, connected>>

\* runTimezoneStep: a zone that is detected is written and logged as completed
\* before the operator is asked about it; without one the operator is only asked.
DetectZone ==
  /\ At("timezone") /\ driver.sub = "start"
  /\ \E detected \in BOOLEAN :
       driver' = [driver EXCEPT !.sub = "asked",
                                !.completed = @ \cup IF detected THEN {"timezone"} ELSE {}]
  /\ UNCHANGED <<pairingVars, inPlace, connected>>

\* The operator agrees, or has it left as it is.
KeepZone ==
  /\ At("timezone") /\ driver.sub = "asked"
  /\ driver' = Passed([driver EXCEPT !.zone = "set"])
  /\ UNCHANGED <<pairingVars, inPlace, connected>>

\* The operator names another zone, which Claude may have to make out of the words;
\* failing that, it is asked for until it is one ...
NameZone ==
  /\ At("timezone") /\ driver.sub = "asked"
  /\ driver' = [driver EXCEPT !.sub = "persist", !.zone = "named"]
  /\ UNCHANGED <<pairingVars, inPlace, connected>>

\* ... which the step, run again with --tz, writes.
PersistZone ==
  /\ At("timezone") /\ driver.sub = "persist"
  /\ driver' = Completed([driver EXCEPT !.zone = "set"], "timezone")
  /\ UNCHANGED <<pairingVars, inPlace, connected>>

\* The child of the step fails, whether it detects or writes: the second time the
\* step may count as completed, for the zone that was detected.
TimezoneFails ==
  /\ At("timezone") /\ driver.sub \in {"start", "persist"}
  /\ Fault
  /\ driver' = [driver EXCEPT !.state = "failed", !.prompt = "diagnose",
                   !.zone = IF driver.sub = "persist" /\ "timezone" \in driver.completed
                            THEN "failed" ELSE @]
  /\ UNCHANGED <<file, pair, host, registered, echoed, issued, reused, inPlace, connected>>

-----------------------------------------------------------------------------
(* The channel: a flow of checks and child processes *)

\* The token is checked, the application and its owner looked up, the adapter
\* installed, which restarts the service, the DM opened, and the chat connected.
DiscordFlow == <<"token", "identify", "install", "dm", "connect">>

\* No chat is wired: the driver ends on a checklist.
SlackFlow == <<"token", "install">>

\* signal-cli has to be there; a QR code is scanned, then the service restarted.
SignalFlow == <<"tool", "install", "link", "restart", "connect">>

\* Local mode is offered on a Mac only.
IMessageFlow == <<"mode", "install", "connect">>
WhatsAppFlow == <<"install", "link", "restart", "connect">>

\* The prerequisites, the URL and the steps in Azure, each behind a gate; the
\* package, its upload and the adapter; then Claude is asked to wire the chat.
TeamsFlow == <<"register", "bot", "package", "sideload", "install", "handoff">>

TelegramFlow == <<"token", "install", "pair", "connect">>

Flows ==
  [telegram |-> TelegramFlow, discord |-> DiscordFlow, slack |-> SlackFlow,
   signal |-> SignalFlow, imessage |-> IMessageFlow, whatsapp |-> WhatsAppFlow,
   teams |-> TeamsFlow]

\* The flows that call fail() without awaiting it.
Unawaited == {"whatsapp", "teams"}

Ended(d) == [d EXCEPT !.at = @ + 1, !.todo = <<>>, !.channel = "none"]

Doing(step) == At("channel") /\ driver.todo # <<>> /\ Head(driver.todo) = step

\* The child is done: the next one, or the end of the channel step.
GoesOn(d) == IF Len(d.todo) > 1 THEN [d EXCEPT !.todo = Tail(@)] ELSE Ended(d)
Goes == driver' = GoesOn(driver)

\* fail(): awaited, the run ends there; else its prompt opens and the flow goes on.
GivesUp ==
  IF driver.channel \notin Unawaited THEN Fails
  ELSE driver' = GoesOn([driver EXCEPT !.prompt = "diagnose"])

\* askChannelChoice.
NoChannel ==
  /\ At("channel") /\ driver.todo = <<>>
  /\ Passes
  /\ UNCHANGED <<pairingVars, inPlace, connected>>

ChooseChannel ==
  /\ At("channel") /\ driver.todo = <<>>
  /\ \E channel \in {"telegram"} \cup OtherChannels :
       driver' = [driver EXCEPT !.channel = channel, !.todo = Flows[channel]]
  /\ UNCHANGED <<pairingVars, inPlace, connected>>

\* validateDiscordToken, validateSlackToken, validateTelegramToken.
CheckToken == Doing("token") /\ Goes /\ UNCHANGED <<pairingVars, inPlace, connected>>

\* askMode, then access to the disk or the account of the server, and the
\* operator's handle: prompts that ask again until the answer will do.
ChooseMode == Doing("mode") /\ Goes /\ UNCHANGED <<pairingVars, inPlace, connected>>

\* ensureSignalCli.
CheckTool == Doing("tool") /\ Goes /\ UNCHANGED <<pairingVars, inPlace, connected>>

\* fetchApplicationInfo, resolveOwnerUserId.
Identify == Doing("identify") /\ Goes /\ UNCHANGED <<pairingVars, inPlace, connected>>

\* openDmChannel.
OpenDm == Doing("dm") /\ Goes /\ UNCHANGED <<pairingVars, inPlace, connected>>

\* confirmPrereqs, stepPublicUrl, stepAppRegistration: what the operator does in the
\* portal, each step behind a gate: done, or shown once more. Being handed to Claude
\* comes back to the gate.
RegisterApp == Doing("register") /\ Goes /\ UNCHANGED <<pairingVars, inPlace, connected>>

\* stepClientSecret, stepAzureBot, stepEnableTeamsChannel.
CreateBot == Doing("bot") /\ Goes /\ UNCHANGED <<pairingVars, inPlace, connected>>

\* stepSideload, with the package at hand.
Sideload == Doing("sideload") /\ Goes /\ UNCHANGED <<pairingVars, inPlace, connected>>

\* buildTeamsAppPackage.
BuildPackage == Doing("package") /\ Goes /\ UNCHANGED <<pairingVars, inPlace, connected>>

\* It throws: the fail() that nobody awaits returns into a read of the path of the
\* package, which ends the driver with the prompt still open.
PackageFails ==
  /\ Doing("package") /\ Fault
  /\ driver' = [driver EXCEPT !.state = "stopped"]
  /\ UNCHANGED <<file, pair, host, registered, echoed, issued, reused, inPlace, connected>>

\* finishWithHandoff: Claude, or the operator, wires the chat later.
Handoff == Doing("handoff") /\ Goes /\ UNCHANGED <<pairingVars, inPlace, connected>>

Link(channel) ==
  /\ Doing("link") /\ driver.channel = channel
  /\ Goes
  /\ inPlace' = inPlace \cup {channel}
  /\ UNCHANGED <<pairingVars, connected>>

\* runSignalAuth: the QR code of the step is scanned; an account that is linked is
\* kept.
LinkSignal == Link("signal")

\* runWhatsAppAuth: the QR code, or the pairing code, of the step is used; the same.
LinkWhatsApp == Link("whatsapp")

\* signal-auth.ts: the code expires or signal-cli exits, without an account.
SignalLinkFails ==
  /\ Doing("link") /\ driver.channel = "signal" /\ "signal" \notin inPlace
  /\ Fault /\ GivesUp
  /\ UNCHANGED <<file, pair, host, registered, echoed, issued, reused, inPlace, connected>>

\* whatsapp-auth.ts: no code is used in time, or the device is logged out. By then
\* the credentials may be on disk, and creds.json is all that the next run looks at;
\* that they hold no number is noticed afterwards.
WhatsAppLinkFails ==
  /\ Doing("link") /\ driver.channel = "whatsapp"
  /\ Fault /\ GivesUp
  /\ \E left \in {{}, {"whatsapp"}} : inPlace' = inPlace \cup left
  /\ UNCHANGED <<file, pair, host, registered, echoed, issued, reused, connected>>

\* add-<channel>.sh, or restartService: the service restarts if it can.
RestartService ==
  /\ Doing("install") \/ Doing("restart")
  /\ Goes
  /\ host' \in IF "unit" \in inPlace THEN HostStarted ELSE {HostDown}
  /\ pair' = IF driver.channel = "telegram" THEN [PairOff EXCEPT !.phase = "issuing"] ELSE pair
  /\ UNCHANGED <<file, registered, echoed, issued, reused, faults, inPlace, connected>>

ChannelChildFails ==
  /\ \E step \in {"token", "tool", "identify", "install", "dm"} : Doing(step)
  /\ Fault /\ GivesUp
  /\ UNCHANGED <<file, pair, host, registered, echoed, issued, reused, inPlace, connected>>

\* The pairing step ends; the driver takes the chat from its last status block.
Paired ==
  /\ Doing("pair") /\ pair.phase = "ok"
  /\ driver' = [driver EXCEPT !.todo = Tail(@), !.chat = pair.chat]
  /\ pair' = PairOff
  /\ UNCHANGED <<file, host, registered, echoed, issued, reused, faults, inPlace, connected>>

PairingFailed ==
  /\ Doing("pair") /\ pair.phase = "failed"
  /\ Fails
  /\ pair' = PairOff
  /\ UNCHANGED <<file, host, registered, echoed, issued, reused, faults, inPlace, connected>>

\* The chat to connect: the paired one, or the operator's own account.
ChatToConnect == IF driver.channel = "telegram" THEN driver.chat ELSE Operator

\* sendWelcomeViaCliSocket: the welcome takes a service that listens.
WelcomeSent == host.up

\* init-first-agent.ts: create or reuse the chat's messaging group, the agent and
\* the wiring, then hand the welcome to the service.
ConnectChat ==
  /\ Doing("connect")
  /\ registered' = registered \cup {ChatToConnect}
  /\ connected' = connected \cup {ChatToConnect}
  /\ \/ WelcomeSent /\ driver' = Ended([driver EXCEPT !.chat = ChatToConnect])
     \/ ~WelcomeSent /\ GivesUp
  /\ UNCHANGED <<file, pair, host, echoed, issued, reused, faults, inPlace>>

\* It fails before the wiring.
ConnectFails ==
  /\ Doing("connect") /\ Fault
  /\ GivesUp
  /\ registered' \in {registered, registered \cup {ChatToConnect}}
  /\ UNCHANGED <<file, pair, host, echoed, issued, reused, inPlace, connected>>

-----------------------------------------------------------------------------
(* The end of a run, and the next one *)

\* determineVerifyStatus: the service runs, .env names a credential (the URL of the
\* vault will do, whatever is in the vault), and a wired agent answers the ping.
Passing == host.up /\ {"image", "url", "cli"} \subseteq inPlace

\* verify.ts finds nothing amiss.
Verified ==
  /\ At("verify") /\ Passing
  /\ driver' = [driver EXCEPT !.state = "completed"]
  /\ UNCHANGED <<pairingVars, inPlace, connected>>

\* "What's left": the service is down, or a check fails.
NotVerified ==
  /\ At("verify")
  /\ (~host.up /\ UNCHANGED faults) \/ Fault
  /\ driver' = [driver EXCEPT !.state = "incomplete"]
  /\ UNCHANGED <<file, pair, host, registered, echoed, issued, reused, inPlace, connected>>

\* The driver exits; the pairing step dies with it and leaves its code in the file.
Broken ==
  /\ driver.state \in {"running", "failed"} /\ Fault
  /\ driver' = [driver EXCEPT !.state = "stopped"]
  /\ pair' = PairOff
  /\ UNCHANGED <<file, host, registered, echoed, issued, reused, inPlace, connected>>

\* offerClaudeAssist: Claude answers with a command, and the operator runs it.
SuggestFix ==
  /\ driver.prompt = "diagnose" /\ driver.state # "stopped"
  /\ driver' = [driver EXCEPT !.prompt = "retry"]
  /\ UNCHANGED <<pairingVars, inPlace, connected>>

\* queryClaudeUnderSpinner: Claude cannot be asked, fails or names no command, and
\* fail() ends the driver, in the middle of a flow if nobody awaits it.
NoFix == driver.prompt = "diagnose" /\ Broken

MayRetry == driver.prompt = "retry" /\ driver.state # "stopped"

\* Mutant of Retry: the step that failed is on the list as well.
RetryPastIt ==
  /\ MayRetry
  /\ driver' = Fresh(driver.skip \cup driver.completed \cup {Steps[driver.at]}, driver.reexec,
                     driver.zone)
  /\ UNCHANGED <<pairingVars, inPlace, connected>>

\* fail(): the operator retries, and the driver runs again and skips what completed.
\* The run that asked does nothing more.
Retry ==
  /\ MayRetry
  /\ driver' = Fresh(driver.skip \cup driver.completed, driver.reexec, driver.zone)
  /\ UNCHANGED <<pairingVars, inPlace, connected>>

\* The operator does not want a fix or a retry, or presses Ctrl-C at any point.
Stop == Broken

\* The operator runs setup another time.
RunAgain ==
  /\ driver.state \in {"stopped", "incomplete"}
  /\ driver' = Fresh({}, FALSE, driver.zone)
  /\ UNCHANGED <<pairingVars, inPlace, connected>>

\* The service manager restarts the service, or the operator runs the script.
HostStarts ==
  /\ ~host.up /\ "unit" \in inPlace
  /\ host' \in HostStarted
  /\ UNCHANGED <<file, pair, registered, echoed, issued, reused, faults, driverVars>>

-----------------------------------------------------------------------------
SetupInit ==
  /\ PairingInit
  /\ driver = Fresh({}, FALSE, "open")
  /\ inPlace = {} /\ connected = {}

ChildStep == CheckEnvironment \/ BuildContainer \/ InstallOnecli \/ WriteAccessRules
               \/ SetUpService \/ CreateCliAgent \/ FirstChat
Authentication == Authenticate \/ PasteAuth \/ SignIn \/ AuthFails
Timezone == DetectZone \/ KeepZone \/ NameZone \/ PersistZone \/ TimezoneFails
Checks == CheckToken \/ CheckTool \/ ChooseMode \/ Identify \/ OpenDm \/ ChannelChildFails
Teams == RegisterApp \/ CreateBot \/ Sideload \/ BuildPackage \/ PackageFails \/ Handoff
Linking == LinkSignal \/ LinkWhatsApp \/ SignalLinkFails \/ WhatsAppLinkFails
Channel == NoChannel \/ ChooseChannel \/ Checks \/ Teams \/ Linking \/ RestartService
             \/ Paired \/ PairingFailed \/ ConnectChat \/ ConnectFails

SetupNext ==
  \/ SkipStep \/ ChildStep \/ Reexec \/ Authentication \/ Timezone \/ Channel
  \/ Verified \/ NotVerified \/ SuggestFix \/ NoFix \/ Retry \/ Stop \/ RunAgain \/ HostStarts
  \/ (PairStep /\ UNCHANGED driverVars) \/ (ServiceStep /\ UNCHANGED driverVars)

SetupSpec == SetupInit /\ [][SetupNext]_setupVars

\* The pairing process and the interceptor go on, the service is restarted, and
\* the operator goes on sending the code on show. Nothing is assumed of the
\* prompts of the driver.
Fairness ==
  /\ WF_setupVars(PairStep /\ UNCHANGED driverVars)
  /\ SF_setupVars(OperatorSends /\ UNCHANGED driverVars)
  /\ WF_setupVars((Consume \/ RegisterChat) /\ UNCHANGED driverVars)
  /\ WF_setupVars(HostStarts)

FairSpec == SetupSpec /\ Fairness

-----------------------------------------------------------------------------
(* Properties *)

SetupTypeOK ==
  /\ driver.state \in {"running", "failed", "completed", "incomplete", "stopped"}
  /\ driver.zone \in {"open", "named", "set", "failed"}
  /\ driver.at \in DOMAIN Steps /\ driver.completed \subseteq Range(Steps)
  /\ inPlace \subseteq Resources \cup Links
  /\ registered \subseteq Chats /\ connected \subseteq Chats /\ faults \in 0..MaxFaults

\* The zone the operator named was not saved, and a retry passed over its step,
\* which the zone that was detected before had completed.
ZoneGivenUp == driver.zone = "failed" /\ "timezone" \in driver.skip

\* When setup says it has completed, everything its steps stand for is in place,
\* the zone is the one the operator wants, and the chat it paired is wired, over
\* failed steps, retries that skip, restarts under another group, runs broken off
\* and crashes of the service. verify itself looks at neither the secret, the access
\* rules, the zone nor the chat. The exception is a zone given up by a retry.
CompletedInPlace ==
  driver.state = "completed" =>
    /\ Resources \subseteq inPlace
    /\ driver.zone = "set" \/ ZoneGivenUp
    /\ driver.chat # NoChat => driver.chat \in connected \cap registered
=============================================================================
