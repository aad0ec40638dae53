------------------------- MODULE PeripheralCommands -------------------------
(***************************************************************************)
(* Commands the controller carries out itself: setPeripheralOwner and      *)
(* executePeripheralCommand of command-service.ts, the switch drivers of   *)
(* packages/hardware (simulated, and GPIO with one button per port or one  *)
(* button that cycles), and the USB evidence of desk-store.ts that tells a *)
(* cycling driver where the switch is.                                     *)
(*                                                                         *)
(* One channel of one switch is modelled.  Each accepted request starts a  *)
(* job, an async call of executePeripheralCommand, and nothing ever stops  *)
(* a job: the jobs of superseded commands run on beside the newer ones.  A *)
(* job that "settles" only has promise continuations left to run: these    *)
(* run before any timer, process or socket is heard again.                 *)
(***************************************************************************)
EXTENDS DeskCommand, Naturals, FiniteSets

CONSTANTS
  NPorts,      \* number of ports, in portOrder
  Ids,
  MaxIssues,   \* bound: how many requests callers make; a setup may have fewer
  Setups,      \* the switches and callers to look at
  None

Ports == 0..NPorts - 1

(***************************************************************************)
(* mode: "simulated", "direct" (a button per port) or "cycle" (one         *)
(* button).  wired: direct, the ports with a pin; cycle, empty when no pin *)
(* is configured.  reporters: ports whose computer runs an agent that      *)
(* reports USB devices.  ids: those callers use.  overlap: callers may ask *)
(* again before the last job has ended.  fresh: no id is used twice.       *)
(* misses: a press may fail to register at the switch.  issues: a bound,   *)
(* how many requests are made.                                             *)
(***************************************************************************)
Setup == [mode : {"simulated", "direct", "cycle"}, wired : SUBSET Ports, reporters : SUBSET Ports,
          ids : SUBSET Ids, overlap : BOOLEAN, fresh : BOOLEAN, misses : BOOLEAN,
          issues : 1..MaxIssues]

ASSUME PeripheralAssumption ==
  /\ NPorts \in Nat \ {0}
  /\ MaxIssues \in Nat
  /\ Setups \subseteq Setup
  /\ None \notin Ports \cup Ids

VARIABLES
  setup,      \* chosen once
  commands,   \* store.commands: id -> command record, or NoCommand
  desired,    \* store.desired.peripheralOwners of the peripherals on the channel, or None
  jobs,       \* per request: the executePeripheralCommand it started, NoJob once ended
  busy,       \* MockPeripheralSwitchProvider.busy
  completed,  \* completedCommands: ids whose success is cached
  position,   \* the port the hardware is on
  reported,   \* the owner in store.peripheralObservations, as a port
  usb,        \* store.usbByComputer: per port, what its computer last said of the device
  online,     \* ports whose computer's agent is online
  issued

vars == <<setup, commands, desired, jobs, busy, completed, position, reported, usb, online, issued>>

Mode == setup.mode

NoCommand == [port |-> None, status |-> Unknown, issuedAt |-> 0]
Command == [port : Ports, status : Statuses, issuedAt : 1..MaxIssues]
NoJob == [command |-> None, port |-> None, phase |-> "ended", left |-> 0, ok |-> FALSE, knew |-> FALSE]

(* "knew" is history: the driver was told the port the switch really was on. *)
Job == [command : Ids, port : Ports, phase : {"switching", "pressing", "settling"},
        left : 0..NPorts, ok : BOOLEAN, knew : BOOLEAN]

TypeOK ==
  /\ setup \in Setups
  /\ commands \in [Ids -> Command \cup {NoCommand}]
  /\ desired \in [port : Ports, command : Ids] \cup {None}
  /\ jobs \in [1..MaxIssues -> Job \cup {NoJob}]
  /\ busy \in BOOLEAN
  /\ completed \subseteq Ids
  /\ position \in Ports
  /\ reported \in Ports \cup {None}
  /\ usb \in [Ports -> {"unreported", "seen", "absent"}]
  /\ online \subseteq setup.reporters
  /\ issued \in 0..MaxIssues

(***************************************************************************)
(* A simulated switch starts on its first port, a real one where it was    *)
(* left.  main reads the switches into the store before it listens.        *)
(***************************************************************************)
Init ==
  /\ setup \in Setups
  /\ commands = [id \in Ids |-> NoCommand]
  /\ desired = None
  /\ jobs = [n \in 1..MaxIssues |-> NoJob]
  /\ busy = FALSE
  /\ completed = {}
  /\ position \in IF Mode = "simulated" THEN {0} ELSE Ports
  /\ reported = IF Mode = "simulated" THEN position ELSE None
  /\ usb = [p \in Ports |-> "unreported"]
  /\ online = {}
  /\ issued = 0

-----------------------------------------------------------------------------
(* Where the peripheral is, as far as the controller can tell *)

HasUsbEvidence == \E p \in online : usb[p] # "unreported"
UsbHolders == {p \in online : usb[p] = "seen"}

(***************************************************************************)
(* observedPeripherals, and currentPortId of executePeripheralCommand: USB *)
(* evidence wins where there is any, even when it names nobody or more     *)
(* than one computer; without it the switch's own account counts.          *)
(***************************************************************************)
CurrentPort ==
  IF HasUsbEvidence
  THEN IF Cardinality(UsbHolders) = 1 THEN CHOOSE p \in UsbHolders : TRUE ELSE None
  ELSE reported

-----------------------------------------------------------------------------
(* Requests *)

InFlight(id) == IsInFlight(commands[id].status)
Running == {n \in 1..MaxIssues : jobs[n] # NoJob}
Settling == {n \in Running : jobs[n].phase = "settling"}

(* pressesFor: the cycle only goes forward. *)
Presses_Backward(p) == IF Mode = "direct" THEN 1 ELSE (CurrentPort + NPorts - p) % NPorts \* faulty
Presses(p) == IF Mode = "direct" THEN 1 ELSE (p + NPorts - CurrentPort) % NPorts

SwitchIsBusy_Never == FALSE \* faulty: no busy flag
SwitchIsBusy == busy

(* The driver fails at once: DEVICE_BUSY, no pin, or a cycle whose start is not known. *)
Refuses(p) ==
  \/ Mode = "simulated" /\ SwitchIsBusy
  \/ Mode = "direct" /\ p \notin setup.wired
  \/ Mode = "cycle" /\ (setup.wired = {} \/ CurrentPort = None)

(* What setPort has done when it first gives way to other code. *)
PhaseAtStart(id, p) ==
  CASE id \in completed \/ Refuses(p) -> "settling"
    [] id \notin completed /\ ~Refuses(p) /\ Mode = "simulated" -> "switching"
    [] OTHER -> IF Presses(p) = 0 THEN "settling" ELSE "pressing"

Start(id, p) ==
  LET phase == PhaseAtStart(id, p)
  IN  /\ jobs' = [jobs EXCEPT ![issued + 1] =
                    [command |-> id, port |-> p, phase |-> phase,
                     left |-> IF phase = "pressing" THEN Presses(p) ELSE 0,
                     ok |-> id \in completed \/ ~Refuses(p),
                     knew |-> CurrentPort = position]]
      /\ busy' = (busy \/ phase = "switching")
      /\ completed' = IF phase = "settling" /\ ~Refuses(p) THEN completed \cup {id} ELSE completed

(* Faulty variant: the older command stays in flight. *)
Superseded_Nothing == commands

Superseded ==
  [id \in Ids |-> IF InFlight(id) THEN [commands[id] EXCEPT !.status = "superseded"]
                                  ELSE commands[id]]

(***************************************************************************)
(* A request for the port an in-flight command already asks for is         *)
(* answered with that command and changes nothing.  Any other one          *)
(* supersedes, is recorded as the desire of all peripherals of the         *)
(* channel, and runs the driver up to its first await.                     *)
(***************************************************************************)
SetPeripheralOwner(id, p) ==
  /\ issued < setup.issues
  /\ id \in setup.ids
  /\ setup.overlap \/ Running = {}
  /\ setup.fresh => commands[id] = NoCommand
  /\ ~\E other \in Ids : InFlight(other) /\ commands[other].port = p
  /\ commands' = [Superseded EXCEPT
                    ![id] = [port |-> p, status |-> "dispatched", issuedAt |-> issued + 1]]
  /\ desired' = [port |-> p, command |-> id]
  /\ Start(id, p)
  /\ issued' = issued + 1
  /\ UNCHANGED <<position, reported, usb, online>>

-----------------------------------------------------------------------------
(* Jobs *)

Verdict_Requeues(ok) == IF ok THEN "succeeded" ELSE "pending" \* faulty: to be retried by nobody
Verdict(ok) == IF ok THEN "succeeded" ELSE "failed"

(* getObservedState after the driver is done: only a simulated switch can be read. *)
SwitchReading_Early == IF Mode = "simulated" THEN position ELSE None \* faulty: read before the move
SwitchReading == IF Mode = "simulated" THEN position' ELSE None

(***************************************************************************)
(* What follows setPort in executePeripheralCommand: the switch is read and *)
(* the verdict is written, with no look at what has become of the command  *)
(* since.                                                                  *)
(***************************************************************************)
Conclude(n, ok) ==
  /\ commands' = [commands EXCEPT ![jobs[n].command].status = Verdict(ok)]
  /\ reported' = SwitchReading
  /\ jobs' = [jobs EXCEPT ![n] = NoJob]
  /\ UNCHANGED <<desired, usb, online, issued>>

Settle(n) ==
  /\ n \in Settling
  /\ UNCHANGED <<busy, completed, position>>
  /\ Conclude(n, jobs[n].ok)

FreeSwitch(n) == busy' = FALSE

(* The simulated switch after its delay. *)
SwitchDone(n) ==
  /\ n \in Running /\ jobs[n].phase = "switching"
  /\ Settling = {}
  /\ position' = jobs[n].port
  /\ completed' = completed \cup {jobs[n].command}
  /\ FreeSwitch(n)
  /\ Conclude(n, TRUE)

Pressing(n) == n \in Running /\ jobs[n].phase = "pressing" /\ Settling = {}

NextPort_Unbounded == position + 1 \* faulty: no wrap-around
NextPort == (position + 1) % NPorts

(* The remote's button is closed for one pulse; the switch may miss it. *)
Press(n) ==
  /\ Pressing(n)
  /\ jobs[n].left > 0
  /\ \/ position' = IF Mode = "direct" THEN jobs[n].port ELSE NextPort
     \/ setup.misses /\ position' = position
  /\ jobs' = [jobs EXCEPT ![n].left = @ - 1]
  /\ UNCHANGED <<commands, desired, busy, completed, reported, usb, online, issued>>

(* The last pulse has ended. *)
Land(n) ==
  /\ Pressing(n)
  /\ jobs[n].left = 0
  /\ completed' = completed \cup {jobs[n].command}
  /\ UNCHANGED <<busy, position>>
  /\ Conclude(n, TRUE)

(* The pin driver's process exits with an error, before or after it closed the contact. *)
PinFails(n) ==
  /\ Pressing(n)
  /\ UNCHANGED <<busy, completed, position>>
  /\ Conclude(n, FALSE)

-----------------------------------------------------------------------------
(* Evidence *)

(* applyUsbReport: the agent of port p's computer says whether it enumerates the device. *)
UsbReport(p) ==
  /\ Settling = {}
  /\ p \in online
  /\ usb' = [usb EXCEPT ![p] = IF position = p THEN "seen" ELSE "absent"]
  /\ UNCHANGED <<commands, desired, jobs, busy, completed, position, reported, online, issued>>

(* registerAgent and setAgentOffline: what a computer last said is kept either way. *)
AgentPresence(p) ==
  /\ Settling = {}
  /\ online' = IF p \in online THEN online \ {p} ELSE online \cup {p}
  /\ UNCHANGED <<commands, desired, jobs, busy, completed, position, reported, usb, issued>>

-----------------------------------------------------------------------------
Next ==
  /\ \/ \E id \in Ids, p \in Ports : SetPeripheralOwner(id, p)
     \/ \E n \in 1..MaxIssues : Settle(n) \/ SwitchDone(n) \/ Press(n) \/ Land(n) \/ PinFails(n)
     \/ \E p \in setup.reporters : UsbReport(p) \/ AgentPresence(p)
  /\ UNCHANGED setup

Spec == Init /\ [][Next]_vars

(***************************************************************************)
(* The controller runs what is due, and the processes of the pin driver    *)
(* end, which the code relies on and does not enforce.                     *)
(***************************************************************************)
FairSpec ==
  Spec /\ \A n \in 1..MaxIssues :
            /\ WF_vars(Settle(n) /\ UNCHANGED setup)
            /\ WF_vars(SwitchDone(n) /\ UNCHANGED setup)
            /\ WF_vars(Press(n) /\ UNCHANGED setup)
            /\ WF_vars(Land(n) /\ UNCHANGED setup)

-----------------------------------------------------------------------------
(* Properties *)

(***************************************************************************)
(* The command in flight is the last request, for the port the desired     *)
(* state names; so there is never more than one, whatever older jobs still *)
(* run for superseded commands or for earlier uses of its id.              *)
(***************************************************************************)
DesiredNamesInFlight ==
  \A id \in Ids : InFlight(id) => desired = [port |-> commands[id].port, command |-> id]

LastRequestReached ==
  desired # None /\ commands[desired.command].status = "succeeded" => position = desired.port

(***************************************************************************)
(* "Succeeded" means the hardware reached the requested state: when the    *)
(* last request has succeeded, a simulated switch is on the port it asked  *)
(* for, whatever older jobs did in the meantime.  An id that is used again *)
(* is an idempotency key, answered from the cache, and promises nothing.   *)
(***************************************************************************)
SucceededMeansThere == setup.fresh /\ Mode = "simulated" => LastRequestReached

(***************************************************************************)
(* What the controller stores as the switch's own account is never a port  *)
(* the switch has left: every move is followed by a reading in the same    *)
(* run of continuations, for superseded commands as well.                  *)
(***************************************************************************)
ReportIsCurrent == reported # None => reported = position

(***************************************************************************)
(* Counting presses works while nothing else moves the switch and every    *)
(* press registers: a cycling driver told the right starting port is       *)
(* always as many presses from its target as it has left, across the       *)
(* wrap-around.                                                            *)
(***************************************************************************)
PressesLeftReachPort ==
  Mode = "cycle" /\ ~setup.overlap /\ ~setup.misses =>
    \A n \in Running : jobs[n].phase = "pressing" /\ jobs[n].knew =>
      (position + jobs[n].left) % NPorts = jobs[n].port

(***************************************************************************)
(* Every peripheral command is concluded: no driver path, refusal, failure *)
(* of a pin or supersession leaves one in flight for good.                 *)
(***************************************************************************)
PeripheralCommandsConclude ==
  \A id \in Ids, n \in 1..MaxIssues :
    (InFlight(id) /\ commands[id].issuedAt = n) ~> ~(InFlight(id) /\ commands[id].issuedAt = n)
=============================================================================
