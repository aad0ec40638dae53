# Desk control: TLA+ models, checks and proofs

Desk control moves the monitors and the shared keyboard and mouse of a desk from one computer to
another. A **controller** (one Node process, usually on a Raspberry Pi) keeps the desk's state and
turns requests into commands; an **agent** on each computer carries out monitor commands over
DDC; the controller itself drives the USB switch. This directory models the parts of that system
whose correctness depends on the order of events, checks them with TLC and proves the main
invariants with TLAPS.

## 1. Inventory

| Component | Source | State it keeps | Operations |
| --- | --- | --- | --- |
| Command service | `apps/controller/src/command-service.ts` | a Map of timers | `setMonitorSource`, `setMonitorBrightness`, `setMonitorPower`, `setPeripheralOwner`, `applyPreset`, `setAllMonitorsPower`, `onAgentAck`, `onAgentResult`, `failCommandsForAgent`, timer callbacks |
| Desk store | `apps/controller/src/desk-store.ts` | commands, desired state, agents, monitors with control paths, observations per agent, routing belief, USB reports, user configuration | `registerAgent`, `applyMonitorReports`, `applyObservedReports`, `applyUsbReport`, `putCommand`/`updateCommand`, editing of layout, names and presets |
| Agent gateway | `apps/controller/src/agent-gateway.ts` | connections, connection per agent id, last time seen | hello (with replacement of an older socket), frames, close, heartbeat sweep, `send` |
| HTTP server, snapshot, UI stream | `server.ts`, `snapshot.ts`, `apps/web/src/lib/api.ts` | UI clients, a debounce timer | routes, broadcast, subscription |
| Controller boot and configuration | `index.ts`, `packages/config` | the JSON file, a save timer | load, migrate, quarantine, debounced save, shutdown |
| Agent runtime | `packages/agent-core` | transport, connect promise, timers, outcome cache | connect, reconnect, hello, execute a command, push observations, stop |
| Domain | `packages/domain` | none | command vocabulary, path selection, reconciliation, preset planning |
| Peripheral switch drivers | `packages/hardware/src/{mock,gpio}` | busy flags, outcome cache, the hardware's port | `setPort`, `getObservedState` |
| Monitor providers | `packages/hardware/src/{mock,ddc,platform}` | known displays, outcome cache, pending bridge requests, a child process | discover, observe, set and verify input, brightness, power |
| Discovery, protocol schemas, web application, scripts | `packages/{discovery,protocol}`, `apps/web`, `scripts` | little | declarative or rendering |

**How they interact.** A caller's HTTP request runs a command-service method to its end: it
supersedes the command in flight for the same target, puts the new one into the store, records the
desire, chooses an agent by the store's observations and the gateway's connections, sends a frame
and arms a timer. The agent acknowledges, executes, reads the hardware back and answers. The
gateway feeds the frames into the store and the command service; a closed socket fails the
agent's commands. Peripheral commands never leave the controller: an async method awaits the switch
driver. Every change of the store schedules one snapshot to the UI.

**What is hard.** Node runs handlers one at a time, so what interleaves is their order, and the
stretches between awaits. The hard cases: answers that come after supersession, timeout or loss of
the agent; a command in flight that nothing will conclude; ids used again; the store pruning what
is in flight; verdicts written after an await; evidence older than the last move; sockets replaced,
half open, broken or still draining; reconnect timers that fire during an attempt; helper processes
that hang or die with requests pending; a panel each agent sees only while its own input is live;
overlapping saves and a crash between an edit and its save; broadcasts coalesced while a page
connects. `PROJECT.json` lists each one under `hazards` with its line and the properties that cover
it.

**What makes each part correct.**

- Command service: one command in flight per target; each is concluded, once; the desire names
  the command in flight; a command waits only for an agent that is there.
- Switch drivers: the busy flag is neither leaked nor dropped; "succeeded" means the switch is there.
- Gateway and runtime: one session per agent, commands that never outlive their agent's presence, an
  id performed once, which deliveries that overlap break, broken connections noticed, and eventual
  reconnection.
- Observations: what the store concludes of wiring and independence is true, the belief follows the
  panel, and a switch is given to an agent that can carry it out.
- Bridges and providers: one helper at a time; every request is settled once, with its own reply; what
  is reported done was done; readings do not stay stale.
- Configuration: the file loses an edit it held only when a save lands that another has overtaken; but
  for that, edits reach it; names, presets and placements stay in order.
- Pages: each comes to show the desk as it is, never an older one after it.

## 2. Modules

| Module | What it is |
| --- | --- |
| `DeskCommand` | the statuses of `packages/domain/src/command.ts` |
| `CommandLifecycle` | abstract specification: the life of a command, whoever carries it out |
| `CommandService` | monitor commands: command service, command part of the store, gateway as seen by commands |
| `CommandServiceProofs`, `CommandLifecycleProofs` | the inductive invariant of `CommandService`, what follows from it, and that it implements `CommandLifecycle` |
| `PeripheralCommands` | peripheral commands, switch drivers and USB evidence |
| `PeripheralCommandsProofs` | what is proved of it: desire, account, presses and arrival, and that every command in flight is worked on |
| `SessionSockets` | the WebSocket connections between agents and controller |
| `AgentLink` | abstract specification: the presence of an agent and the commands that wait for it, as the command service relies on it |
| `AgentGateway`, `AgentRuntime` | the two ends: `agent-gateway.ts`, and `agent-runtime.ts` with its transport |
| `AgentSession` | both ends over the same sockets; implements `AgentLink` |
| `AgentSessionProofs` | that the gateway keeps one session per agent and implements `AgentLink`, that a command is only repeated by executions that overlap, and that the agent never waits for nothing |
| `RequestLedger` | abstract specification: requests that are settled once |
| `ProcessBridge` | `process-bridge.ts` and the main loop of its helpers; implements `RequestLedger` |
| `ProcessBridgeProofs` | that the bridge has one helper, implements `RequestLedger` and forgets no request |
| `DdcCodec` | pure: fragments, the parsers of capabilities strings character by character, power and brightness values, EDID and identity |
| `DdcProvider` | `ddc-provider.ts` over a bridge that answers as a whole, one that fails, and the I2C halves of `macos-bridge.ts` |
| `DdcProviderProofs` | that a switch reported done was done and calls only go on; what reader and parsers make of every capabilities string, whole or cut off; identities |
| `Reconcile` | pure: desired against observed, aggregates, presets captured and planned |
| `SimulatedDesk` | the simulated panel: who can reach it, its delay and its faults |
| `DeskObservation` | the store's view of the panel, built of what the agents' frames say, and the switches routed by it |
| `DeskObservationProofs` | that the panel moves once per id, that the belief is true and stays current, that a settled desk is seen and routed, and that reconciliation is sound on it |
| `DeskConfig` | presets, overrides, placements and declared computers, and the file that keeps them |
| `DeskViewers` | snapshots, broadcasts and the pages that show them, over `DeskConfig` |
| `DeskViewersProofs` | what the file keeps, that no edit and no page is forgotten, and the order of presets and places |
| `MC...` | instances for TLC |

`DeskObservation` composes the store with `SimulatedDesk` and `Reconcile`; connections are up or down
there (their detail is `AgentSession`) and commands have no timer handle (`CommandService`).

### CommandService

| Variable | Code |
| --- | --- |
| `commands` | `store.commands`; `issuedAt` is the number of the request, which orders commands as the timestamps do |
| `desired` | `store.desired.monitorSources` |
| `timers`, `running` | the Map of `CommandService`, and the timeouts Node still has to run; they differ because `dispatch` overwrites an entry without cancelling the timeout behind it |
| `lastKnown`, `seen` | `store.lastKnownActiveInputs`, and the active input of the effective observation |
| `link` | a socket that is open, half open (`send` fails, the close event is still to come) or gone |
| `sent` | ids that were ever sent: any of them may be acknowledged or answered, at any time, repeatedly, either way |

One action is one handler run to its end. `IssueAndDispatch` and `IssueAndFail` are
`setMonitorSource` and `issueMonitorFeature` with everything they call (`createCommand`,
`supersede`, `putCommand` with `pruneCommands`, `selectControlPath`, `dispatch`, `failCommand`).
`Timeout` is the callback that `dispatch` arms; `AgentLost` is `handleClose` (or the sweep) with
`failCommandsForAgent`. Requests that are rejected change nothing and are not steps.
`applyPreset` and `setAllMonitorsPower` call these methods in a loop; the model allows other steps
between theirs, so what holds here holds for them. A result frame applies its observations and then
concludes the command: these are the steps `Observe` and `OnAgentResult`. The control paths of
a monitor and the claims of an agent are constants; how reports change them is `DeskObservation`.

### PeripheralCommands

One channel of one switch. `jobs` holds the running calls of `executePeripheralCommand`: a
superseded command's job runs on. `SetPeripheralOwner` runs up to the driver's first await.
`SwitchDone` is the simulated switch after its delay; `Press`, `Land` and `PinFails` are the pulses
of a GPIO remote; `Settle` is a job with only promise continuations left, and Node runs these before
any timer, process or socket, hence the guard `Settling = {}` of the other actions (requests are
exempt, as one preset may make several). `usb` and `online` are what the agents' computers last said
of the device and which of them count: a report stays as it was while the switch moves. Nobody
presses the remote by hand in this model. The store's pruning cannot matter to the few commands of
an instance and is checked with `CommandService`. What kind of switch there is and how it is wired
is chosen once, in `setup`.

### AgentSession

A connection is two ordered streams that end with a close frame, or break: then each stream keeps some
prefix of what was under way and each side finds out later, by itself. A side that has closed still
receives until the other's close, which is how late frames reach a gateway that has replaced the
socket. An action of `AgentGateway` is one event of a socket or one connection found silent by the
sweep. `AgentRuntime` is cut at its awaits: `dial` and `attempt` are `connectPromise` during
`transport.connect` and during `sendHello`'s discovery, `executing` and `answering` count the calls of
`handleCommand` for each id during execution and during the reading that goes with the result, and
`reads` the calls of `pushObservedState`. `handleMessage` is started for every frame and awaited by
nobody, so any number of these overlap, also for one id. `transport` stands for `connected` as well,
which is set and cleared with it. `driven` and `overlap` are history: how often an id was performed, and
how many executions of it were under way together at most.

### ProcessBridge and DdcProvider

`child` is the process the bridge holds and `helpers` what each process really does; `starting` is
the start promise, before and after `resolveCommand`. `buffer` says whether output without a newline
is left: a helper that dies in mid-line leaves it torn for the next one. The helper reads lines in
order and answers each. `Request` is `request` with `ensureStarted`; `Ready` lets the requests that
waited go on, in any order of their continuations.

In `DdcProvider` a call is a phase between two requests to the bridge. `current` says whether a call
holds the `KnownMonitor` that `known` holds now: a discovery replaces it while others go on writing to
the old one. With `whole` false a transaction is `Ask` and then a reply: `replyTo` is the register the
display has an answer ready for, which another call may have changed in between. The display's
capabilities string is parsed by `DdcCodec` when a discovery reads it. `splitSections`, `parseVcpBody`
and the split of a value list are one loop there, `Entries`, over characters; `SectionSyntax`,
`TableSyntax` and `ValueSyntax` say what each skips, what a name consists of and what may stand before a
group, which is where the three differ (white space, stray parentheses, characters that are no digits).
A string may be cut off at any character, so inside a number too.

### DeskObservation

| Variable | Code |
| --- | --- |
| `wiring`, `override` | `connectedComputerId` of the monitor's inputs, `config.wiringOverrides` |
| `paths` | `controlPaths`, in the order inventories have left them |
| `proven` | `provenActiveInputIndependence` |
| `observations` | the last report of each agent, the newest first, as the timestamps order them |
| `lastActive` | `lastKnownActiveInputs` |
| `wire`, `orders` | frames under way, in order |
| `handled` | the agents' outcome caches |
| `infers` | the provider infers its cable from the live input, as over DDC; the simulated one knows it |

`HandleInventory` is a hello or an inventory with `mergeInputs` and the rebuilt path, `HandleResult`
a result with the reading it brings, `onAgentResult` and `requestFreshObservation`.

### DeskConfig and DeskViewers

`cfg` is the one configuration object that edits change and saves read. `saves` holds the saves in progress,
each in a slot of its own; slot 0 is the one `main` awaits, at the start and at the end. A save takes two
steps, `WriteTemporary` after its `mkdir` and `Rename`, and nothing orders those of different saves: any may
take its content, land or fail before any other, and edits, a shutdown or a crash come between. A save is
`late` once one with more edits has landed after it took its content, and `overtaken` says that the one on
disk was. `shutdown` awaits its own save, so another may still land after `ended`. `age` counts the edits a
configuration holds and `absorbed` is the file the process has loaded or written last; these are history.
`proc` runs from `booting` (the save of what was loaded or seeded) over `up` and `closing` (edits still
arrive, but nobody listens) to `saving` and `ended`.
`Files` are the files there may be at first: one of version 1, a current one that was put out of order by
hand, one that does not fit the schema, after which there is none, and (in `config_typo`) one that is not
JSON. `IdsOf` gives the ids `uniquePresetId` tries for a name; the second of "Work" is the first of
"Work 2". In `DeskViewers` a page has a socket with
frames under way and the answer to its first HTTP read, either of which may be late.

## 3. Runs

| Run | Shows | Bounds and why they are enough |
| --- | --- | --- |
| `service` | `TypeOK`, `NoStrayTimer`, `DesiredNamesInFlight`, `OneInFlightPerTarget`, `InFlightIsTimed`, `WaitsForPresentAgent`, `BeliefMovesWithIntent`, `KeepsLifecycle`, `CommandsConclude` | one monitor, two agents of which one needs the live input and lacks the brightness claim, three requests, two commands retained, three ids of which one may be used for any target: rival input switches beside a brightness command, an id that moves to another target while its command is in flight, a command pruned in flight, with every late answer (551,739 states) |
| `switches` | `TypeOK`, `SucceededMeansThere`, `ReportIsCurrent`, `DesiredNamesInFlight`, `PressesLeftReachPort`, `PeripheralCommandsConclude` | three ports (the least where direction matters); simulated: three overlapping requests with fresh and reused ids; one button: two requests and evidence of every computer; a button per port: two requests, misses, a port without a pin |
| `agent_session` | `TypeOK`, `OneSession`, `OnlyOverlapsRepeat`, `KeepsPresence`, `BrokenIsNoticed`, `Reconnects` | one agent, two connections (an old one and the one that replaces it), one command sent at will, two deliveries or readings under way together |
| `performed_twice` | `PerformedOnce` is violated | the same with one connection |
| `agent_stuck` | `Reconnects` is violated | the same with a discovery that may outlast the reconnect delay |
| `bridge` | `TypeOK`, `OneHelper`, `KeepsLedger`, `RequestsConclude` | three requests, two helpers: a death with one request pending, one waiting and one to come |
| `bridge_dead_child` | `RestartsOnDemand` is violated | as above |
| `provider` | `TypeOK`, `CodecIsExact`, `SuccessIsEarned`, `ReadingsSettle`, `CallsEnd` | one observation beside one command or inventory, one command of each kind, one touch; three displays with different strings, cut at every character, on a sound bus, a flaky one and I2C; brightness and power read on every second sweep |
| `observation` | `TypeOK`, `MovedOnce`, `BeliefIsTrue`, `DomainIsSound`, `DeskIsSeen` | two agents and a computer without one, two inputs, two ids, two switches or happenings (losses, overrides, faults, buttons, restart) on panels that answer on one input or on all; `DomainIsSound` compares the operators of `Reconcile` with their definitions for every wiring reached |
| `route_lost` | `LiveInputIsRouted` is violated | a real panel, providers that infer, one happening |
| `desk` | `TypeOK`, `DiskKeepsEdits`, `EditsReachDisk`, `PresetsAndPlaces`, `ViewersCatchUp` | three edits, failures, crashes or stops without a page and two with one, two debounced saves at once and the one that `main` awaits, two monitors, two names that share an id, a file put out of order by hand (1,301,276 states) |
| `config_typo` | `InvalidIsSetAside` is violated | a file that is not JSON |

`MaxIssues`, `MaxEvents`, `MaxTouches`, `MaxReads`, `MaxWork`, `MaxDriven`, `MaxHelpers`, `MaxSaves` and
`MaxFrames` bound the counters and queues; `MaxRetained` is the store's 100 made small. The ids are few
so that they are used again. No symmetry is declared. `CHECK_DEADLOCK FALSE` stands where the system may stop:
connections, helpers or happenings are used up, an agent is stopped, the controller has ended.

**Violations.** Each is a short behaviour of the code against a line of its documentation.

1. `agent_stuck`: the connection closes while `sendHello` discovers; the reconnect timer fires during
   that discovery, finds `connectPromise` still pending and is consumed. When the discovery ends
   nobody dials.
2. `bridge_dead_child`: a process that could not be spawned emits no `exit`, and only the exit handler
   clears `child`; every later request fails on its stdin.
3. `route_lost`: over DDC an agent whose panel shows another input reports no cable, and nothing asks
   it for another inventory once the panel has turned to it. Its path is then skipped for ever and
   each switch fails with NO_CONTROL_PATH.
4. `performed_twice`: a command is delivered again while the provider carries it out. `handleCommand` has
   looked into its cache and not yet written it, so both deliveries move the hardware, though an id "must
   never perform the action twice" (`docs/protocol.md:118-120`).
5. `config_typo`: `JSON.parse` throws before the branch that sets an invalid file aside, and the seed is
   saved over it.

**What the models contain and no property forbids.** Each is a behaviour of the model a reader should
know. (a) `executePeripheralCommand` writes its verdict without
looking at the command: port 1, then port 2 while the switch moves, and the first goes from superseded
to succeeded. (b) With a cycling remote a command issued before the next USB report counts its presses
from the port the switch has left, and succeeds elsewhere. (c) A peripheral command has no timer: it
hangs with its pin process. (d) A reading that outlives its connection may be the first frame of the
next one, before hello. (e) A `dispose` during `resolveCommand` leaves a helper nobody ends; the
unfinished line of a dead helper swallows the ready line of the next one, whose start then times out. (f) Interleaved
I2C halves make readings fail, and a failed reading after an input write is taken for success. (g) An
agent that has left keeps the panel's last reachable reading. (h) Of two saves that overlap the older
may land last: then the file has lost edits it held, against "Persist user data as it changes"
(`index.ts:143-148`), until the next edit or a clean shutdown saves them again, where the older of two may
land last once more. `store.ts:49` calls a save atomic, which each is by itself, and `store.ts:10` counts
on "no concurrent writer"; the debounce of 400 ms makes an overlap rare, not impossible. `overtaken` marks these behaviours, and the properties of the file say that they
are the only ones. A save that fails is not tried again before the next edit; text edited by hand while
the controller runs is overwritten. (i) A display that
repeats one fragment for ever is read until the 128 exchanges are spent, and what came is parsed.
(j) What a cut leaves of a number may be read as a value of its code, or as a code below 16: the code
takes a truncated string for "only ever a hint" (`capabilities.ts:124-127`).

**Fairness.** In every specification fairness is stated of steps that the runtime itself takes.
`CommandService`: `Timeout` alone. `PeripheralCommands`: continuations, the simulated delay, the end
of a pulse, and that pin processes end, which the code relies on and does not enforce. `AgentSession`:
timers, discoveries and the handling of what has arrived, the sweep at its interval, and that dials
which are repeated for ever succeed again and again (strong fairness of `Opens`); the hardware need
not ever answer and nobody has to stop. `ProcessBridge`: the startup and request timers and the end of
`resolveCommand`; nothing of the helper. `DdcProvider`: requests to the bridge are settled (which
`RequestsConclude` shows), observations go on, and the deadline of a verification comes, strongly,
since it is looked at between readings. `DeskObservation`: agents dial, observe and execute, frames
arrive, the panel's delay ends. `DeskViewers`: the debounce and the broadcast fire,
each save under way gets on, pages retry; a controller that is down may stay so.

**Assumptions.** A crash is of the process, not of the power (`save` does not sync); the seed is the
empty desk; a reading's timestamp orders it as its arrival does; cables stay where they are. A page notices
that its stream is lost: `api.ts:118-121` waits for a close event and pings nobody, so one on a half-open
connection stays as it is until that event (`ViewersCatchUp` is about the others). There are fewer than
499 presets of a name, after which `uniquePresetId` takes the time of day. A provider without an active
input says so of every monitor that is not reachable, so the last fallback of `bestKnownActiveInput` is
never taken. A display's string, when it arrives whole, lists brightness, input and power
(`DisplayAssumption`), and inputs asked for are ones it has: the refusals of `ddc-provider.ts` for a
missing capability or an unknown input (499-509) come before any step of the model.

## 4. Proofs

Every invariant a passing run checks is also a theorem, for all values of the constants, but for the part of
`CodecIsExact` that says what particular strings mean (`Understood`); so are the three refinements, of
commands, of requests and of presence, and the action properties. Of most liveness
properties, which are out of the prover's reach, the *safety half* is proved: an invariant saying that
whoever waits has something under way that will end the wait (for `CommandsConclude` it is
`InFlightIsTimed`). What TLC adds is that under the fairness of the run the wait does end. Each such
invariant was checked with TLC on the instance of its run first. What a theorem presupposes beyond the
assumptions on the constants is said with it.
Each module states its assumptions on the constants (`...Assumption`) and TLC evaluates them in its runs.
In a list below, the theorem comes first and the property it states second.

### Commands

`CommandServiceProofs` proves for all values of the constants that satisfy `CommandAssumption`
(sets of any size, any wiring, any use of ids, any retention from one command on):

- `ServiceTypes`: `TypeOK`;
- `AtMostOneInFlight`: `OneInFlightPerTarget`;
- `InFlightKeepsTimer`: `InFlightIsTimed`;
- `NoWaitForLostAgent`: `WaitsForPresentAgent`;
- `DesiredIsInFlight`: `DesiredNamesInFlight`;
- `BeliefFollowsIntent`: `BeliefMovesWithIntent`, as a switch whose success counts is in flight and so
  the one desired.

All follow from the inductive invariant `ServiceInv`: the first five with `IssuedInOrder` (issue numbers
are distinct and not above `issued`, so a new command is never the one pruned and its timer's handle
is fresh) and `PayloadFitsTarget` (a command's value fits its kind). None of these is inductive
alone: `OneInFlightPerTarget` is what makes it enough that `supersede` retires the first command it
finds, and `InFlightIsTimed` needs the handles of different commands to be distinct when one is
cleared. `ConcludeStep`, `IssueStep` and `OtherStep` prove preservation for the three ways a step
changes commands; the lemmas before them say what `WithStatus`, `Created` and `InFlightForTarget`
return. The store's Map keeps insertion order, so the code retires the first match; the model leaves
open which, and the proof shows that there is only one.

`CommandLifecycleProofs` adds, under the same assumption:

- `VerdictsAreFinal`: `TerminalIsFinal`;
- `ImplementsLifecycle`: `KeepsLifecycle`, the refinement of `CommandLifecycle` whose `life` is the
  status and the target of every command.

Both rest on `EveryStep`, which says what a step of the service can do to the store: issue one
command, acknowledge one in flight, give some in flight one verdict, or nothing. A concluded command
is none of those in flight, and a new issue has a larger number (`IssuedInOrder`). For the refinement,
`IssuesIsIssue` needs `OneInFlightPerTarget`: the lifecycle retires every command of the target, the
code the first it finds.

### Bridges

`ProcessBridgeProofs` proves for every finite set of requests and every number of helpers
(`BridgeAssumption`):

- `BridgeTypes`: `TypeOK`;
- `SingleHelper`: `OneHelper`;
- `BridgeKeepsLedger`: `KeepsLedger`, the refinement of `RequestLedger` whose `settled` is the phase of an
  answered or failed request.

`OneHelper` says nothing of `starting` and `child`, so it is not inductive. `StartInv` adds that a process
is present until its exit is heard, dead or not, and that at most one is (`AtMostOnePresent`); that nobody
is present while a start resolves its command, or while the next request would begin a start
(`NobodyBeforeStart`); and that only `dispose` lets go of a process that is starting (`StartHoldsChild`),
which is why a startup timeout, which keeps its process, is safe. `LedgerInv` follows a request through
the pipes: what a helper has not read was sent and not performed (`StdinIsNew`) and was written once, to
one helper (`StdinIsDistinct`), so that it is performed once; and every reply under way, also of a helper
that died, is to a request that was performed (`RepliesArePerformed`). `StepImplements` maps the end of a
process to one `Fail` of all it takes with it, a reply to an `Answer` if its request is still pending, and
else to a stutter.

`NoRequestIsForgotten` is the safety half of `RequestsConclude` (`NobodyAwaitsNothing`): a request that waits
for a start has one under way, and one that was written is pending at a process whose exit, which fails all
that is pending, is still to be heard. `AttendedInv` adds that the process the bridge holds is such a one.

### Timers

`NoTimerIsLeftBehind` (`CommandServiceProofs`): `NoStrayTimer`, without any condition: a timer that is still to
fire finds the issue that armed it in flight, or gone because its id was used again or pruned, or timed out
already, by an older timer of its id. So no answer, newer command or lost agent leaves one behind.

`TimersAreCurrent`: then every timer is the one of the issue in flight (`TimersBelong`), if callers use one id
for one target (`IdsHaveOneTarget`) and no step prunes a command in flight (`PruneSparesInFlight`, a condition
on the behaviour). Neither can be dropped: without the one or without the other a timer cuts a later issue
short. `TimersAreCurrentOnSmallDesks` drops the second where the store may retain as many commands as there are
ids, since then it prunes none. `TimerInv` adds `TargetIsOfId`: an issue
cancels the timer of the earlier issue of its id only by superseding it, hence for the same target.

### Peripheral commands

`PeripheralCommandsProofs`, for any number of ports and requests and any set of setups:

- `PeripheralTypes`: `TypeOK`; `DesiredIsInFlight`: `DesiredNamesInFlight`;
- `ReportNeverStale`: `ReportIsCurrent`. `AccountInv` adds that the phase of a job fits the driver and that
  only a simulated switch gives an account;
- `PressesAreCounted`: `PressesLeftReachPort`, the arithmetic modulo the number of ports. `CountInv` adds
  that jobs which do not overlap are one at most; with two the presses of one would spoil the count of
  the other (3(b));
- `SuccessIsArrival`: `SucceededMeansThere`. `ReachInv` adds that with fresh ids the cache never answers,
  that at most one job holds the simulated switch (`OneSwitching`), and that once the last request has
  succeeded no older job is left that could move it (`NothingMovesAfter`);
- `CommandsInFlightAreWorkedOn`, the safety half of `PeripheralCommandsConclude` (`InFlightIsWorkedOn`): a
  command in flight has a running job that was started for its last issue and for its port, also when ids
  are used again. `BusyFlagIsExact` (`BusyIsSwitching`): the flag of the simulated switch is neither leaked
  nor dropped early. `WorkInv` is both, with `ReachInv` and that no job runs in a slot not issued yet.

### Sessions

`AgentSessionProofs`, for any number of connections, at least one, and any queues:

- `SessionKeepsTypes`: `TypeOK`;
- `SessionIsOne`: `OneSession`. The gateway trusts a hello: if one arrived on a connection that it has given up,
  there would be a session no close event ends. So `SessionInv` follows the agent: hello is said once on
  each connection it opens and not on a later one (`HelloOnce`, `HelloIsDue`), and a connection without a
  hello is still among `connections` while it listens (`StrangersAreTracked`);
- `RepeatsNeedOverlap`: `OnlyOverlapsRepeat`, an id is performed no more often than executions of it were under
  way at one time. Inductive (`PerformInv`) is that what was performed and what still executes come to no
  more than the most executions there were together, as nothing starts once one has succeeded; that this
  may be two is `performed_twice`;
- `GatewayKeepsPresence`: `KeepsPresence`, the refinement of `AgentLink`. The mapping needs `NamedIsOnline`:
  an agent with a connection counts as online;
- `AgentIsNeverStranded`, the safety half of `Reconnects` (`NeverStranded`): an agent that believes itself
  connected is, or the connection has broken, or the close is on its way; one without a connection has a
  reconnect scheduled or a dial under way. The second part presupposes that no discovery outlasts the
  reconnect delay: `agent_stuck` shows the behaviour without it. `ClosesAreToldToGateway` (`GatewayIsTold`) is
  the same for the gateway. `HopeInv` adds that an end which was closed has put its close into the stream
  (`StreamsTell`) and that the transport in use still listens for it (`TransportListens`).

### Observations

`DeskObservationProofs`, for any computers, inputs, cables, ids and frames:

- `ObservationKeepsTypes`: `TypeOK`. `LinesOfUp`: only an agent that is up has frames under way;
- `PanelMovesOnce`: `MovedOnce`. `DeskInv`: the one job there may be is of an id whose outcome nobody
  remembers, and what has moved the panel is remembered;
- `ControllerBelievesWhatIsSo`: `BeliefIsTrue`. What is proved of the store's belief has to hold of what
  is under way to it: the frames say what their agent could read (`HonestLines`), and no path names an input
  other than its agent's own (`HonestPaths`), so no agent proves itself independent by a reading over its
  own cable;
- `DomainIsAlwaysSound`: `DomainIsSound`, the operators of `Reconcile` on every belief;
- the safety half of `DeskIsSeen`, in three steps. `ReadingsStayCurrent` (`FreshStays`): once all that is under
  way from an agent, and all that the store keeps of it, tells what it reads now (`Fresh`), it stays so until
  that changes; no late result, loss, restart or other agent's report brings an old reading back.
  `SeenStaysSeen` (`SettledStays`): on a calm desk whose panel is not turned, a store that is *settled* (every
  agent fresh, one of them seeing the panel) stays settled. `SettledIsSeen`: settled on a calm desk, the
  store shows the live input, and a switch gets an agent that can carry it out wherever agents know
  their cables; over DDC, on a panel that demands the live input, it does exactly if some path is known to be
  on that input, and that is what `route_lost` loses. `RouteInv` adds to the belief that an agent that counts
  as online has a path (`OnlineHavePaths`) and that paths name cables where these are known (`NamedPaths`).
  Left to TLC is that a calm desk becomes settled.

### Providers

`DdcProviderProofs`, for any calls, ids, inputs and buses:

- `ProviderKeepsTypes`: `TypeOK`. `CallsFit`: a call that writes has a goal and an id, and a power
  command gets that far only if the display has a value for it;
- `SwitchesAreEarned`: `SuccessIsEarned`, on a bridge that answers as a whole (3(f) says what happens else);
- `RoundingIsTolerated`: brightness rounded to a range of 15 steps or more and back is within the
  tolerance of the read-back, for every range and not only the ranges up to 100 that `CodecIsExact` tries;
- `EveryTextIsRead`: `readCapabilitiesString` returns the whole text of a display that answers each offset
  with a piece from there on, however the pieces are cut, if exchanges and length allow it;
- `ReaderIsBounded`: whatever a display answers, the result is not longer than allowed or there is none;
  `RepeatingDisplayEnds`: one that repeats its words for ever is read until the exchanges are spent or the
  text is too long (3(i));
- a string that was cut off, by a display or by a failed exchange, at any character. `CutTextKeepsEntries`: of any
  text, well formed or not, and in either syntax, the entries found are those of the whole as far as it came,
  and only the last may be short, in its name or in its group. From that, for strings that are one group as a
  whole, or do not begin with one (`Wrapped`): `CutSectionIsPrefix`, a section is found as far as it came and
  none is mistaken for another; `CutInventsNothing`, if codes are written with at most two digits, a code
  that is found is one of the whole or what is left of one, which is below 16, so that no capability is found
  that the whole does not list; and `CutKeepsValues`, that all codes but one, at which the text ended, have exactly
  the whole's values, if the whole lists no code twice (`NoCodeTwice`; with a code listed twice the
  later entry counts, which a cut may lose). The strings of the run's displays meet these conditions;
- `IdentityHolds`: a display with a name and a serial keeps its id on every platform and without
  capabilities, and displays without a serial are told apart;
- `CodecIsExactIfUnderstood`: of `CodecIsExact` nothing depends on the instance but `Understood`;
- `CallsNeverGoBack`, the safety half of `CallsEnd` (`CallsOnlyGoOn`): whatever else happens, a call that is
  touched has ended, is in a later phase, has lost the monitor it knew or asked once, which it does not undo;
  only `verifySwitch` looks again, bounded by its deadline;
- `ReadingsAreKept`, the stability half of `ReadingsSettle` (`ReadingsStayTrue`): while nobody changes brightness
  or power, readings that are true or say they are not known stay so through every step, on garbling buses
  and failing helpers too. `setPower` notes a value it does not read back: only `on` leaves the power of a
  display that answers as it was (`OnlyOnIsOn`).

### Configuration and pages

`DeskViewersProofs`, for any finite set of monitors and any names, presets, pages and numbers of saves:

- `ViewersKeepTypes`: `TypeOK`. `ConfigInv` adds that presets are finitely many, so that a new one has a
  place behind the others; `ViewInv` adds that only a controller that serves has an open page;
- `FileKeepsEdits`: `DiskKeepsEdits` and `InvalidIsSetAside`, if no first file is text that is not JSON
  (`NoFileIsGarbled`): that case is what `config_typo` shows violated. Saves take their content, land and fail
  in any order. `AgeInv`: a save holds what memory holds or fewer edits; `DiskInv`: the file is the one the
  process has absorbed, and only a save that is late holds fewer edits than the file;
- `PagesLagOnlyWhileTold`, the safety half of `ViewersCatchUp` (`OpenPagesAreCurrent`): an open page with
  nothing under way to it shows the desk as it is, or a broadcast is due. Inductive is `PromiseInv`: what a
  page will show once all that is under way has arrived is the desk as it is, unless a broadcast is due;
- `NoEditIsForgotten`, the same for the first half of `EditsReachDisk` (`EditsOnTheirWay`): of a controller
  that is up, what is in memory is on disk, or the debounce runs, or a save under way takes it along; a save
  that failed, and one that landed after a save with more edits, are the exceptions (3(h));
- `CleanExitSavesAll`: the second half of `EditsReachDisk`, that a controller which has ended left its last
  configuration on disk, unless an overtaken save has landed over it (`ExitInv`: what was left to the system
  at the end is of the same configuration, or late);
- `PresetsAndPlacesHold`: `PresetsAndPlaces`, whatever the first file holds and whichever ids the names share:
  a step from a configuration in order leads to one in order, also over a crash and a restart. A
  report that places several monitors is a fold over the report, which `FoldKeeps` takes one monitor at a
  time; `RightEdgeIsFree` says that the place a new one gets is nobody's.

### Recursive functions, and what is left to TLC

The provers cannot use an induction theorem that takes an operator. What the proofs do instead is to take
the least number for which a claim fails (lemmas `SmallestNumber`, `LeastNumber` and `LeastOf`, from the
well-foundedness of the order on numbers) and refute it by the step before. This suffices for loops over
numbers (the reader of capabilities strings, the fold over a report, the first match in a list) and for the
parsers of nested texts too, which go from the end of the text to its beginning (`Backwards`).

Model-checked only: liveness under fairness, which is out of the prover's reach (`CommandsConclude`,
`PeripheralCommandsConclude`, `BrokenIsNoticed`, `Reconnects`, `RequestsConclude`, `ReadingsSettle`,
`CallsEnd`, `DeskIsSeen`, `ViewersCatchUp`, the first half of `EditsReachDisk`), beyond the safety halves named
above; and `Understood`, that the parsers find in the strings of the run's displays exactly what these list,
whole and cut off at every character. What a well-formed string means would have to be defined by a grammar, and
the proof that the parsers agree with it would be an induction over its trees.

## 5. Plan

1. Proofs: that two boots of the controller from one file show the same desk; that the parsers find every
   code of a string given as a sequence of codes with flat value lists, where no tree is needed.
2. Models: an inventory whose inputs or capabilities differ from the last; a second peripheral on the
   switch and the peripherals of a preset; the drag preview of the web application.

## 6. Not modelled

Bytes and checksums of DDC frames, calls into operating systems, schema validation, discovery (a list
handed over once), rendering, logging and installation: sequential or declarative code that unit tests
reach. Times are not modelled: a timer may fire at any moment after it is armed, except where a module
says that one delay is shorter than another. `dispose` of the command service belongs to the end of the
process. The example desk is data. `PROJECT.json` gives the reason for every component.

Left out of what is modelled: the peripherals a preset assigns (`preset.ts:98-105`, `163-184`), in `Plan` and
`Capture` alike; the case of letters in the names of sections, white space around a whole string, and signs
and `0x` before a value, which `parseInt` would read; an EPIPE on the stdin of a helper, which has no `error`
listener in `process-bridge.ts` and would end the agent.
