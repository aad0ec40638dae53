--------------------------- MODULE CommandService ---------------------------
(***************************************************************************)
(* apps/controller/src/command-service.ts for the commands that agents     *)
(* carry out against monitors, with the parts of the desk store            *)
(* (desk-store.ts) and of the agent gateway that decide what happens to    *)
(* such a command.                                                         *)
(*                                                                         *)
(* The controller is one Node process: every handler below runs to its     *)
(* end before another one starts, so each is one action.  What interleaves *)
(* is the order of the handlers: requests of callers, frames of agents,    *)
(* timers that fire, sockets that close.  An agent may acknowledge and     *)
(* answer any command that was ever sent, in any order, any number of      *)
(* times and with either outcome: frames of a slow agent, or of a socket   *)
(* that a reconnect has replaced, are all among these.                     *)
(***************************************************************************)
EXTENDS DeskCommand, Naturals, FiniteSets, Sequences, FiniteSetsExt

CONSTANTS
  Monitors, Inputs, Levels, Agents,
  Ids,            \* command ids, generated by callers or by the controller
  Kinds,          \* kinds of command in use, a subset of AllKinds
  ControlPaths,   \* per monitor, its control paths in the order the store keeps them
  Claims,         \* Claims[a]: the kinds agent a says it supports
  TargetsOf,      \* TargetsOf[id]: the targets callers use id for
  MaxRetained,    \* MAX_RETAINED_COMMANDS
  MaxIssues,      \* bound: how many requests callers make
  None

AllKinds == {"input", "brightness", "power"}
Path == [agent : Agents, input : Inputs \cup {None}, needsActive : BOOLEAN]

(* commandTargetKey: input, brightness and power of one monitor are separate targets. *)
Targets == Monitors \X Kinds
MonitorOf(t) == t[1]
KindOf(t) == t[2]
Payloads(t) == IF KindOf(t) = "input" THEN Inputs ELSE Levels

ASSUME CommandAssumption ==
  /\ Kinds \subseteq AllKinds
  /\ ControlPaths \in [Monitors -> Seq(Path)]
  /\ Claims \in [Agents -> SUBSET Kinds]
  /\ TargetsOf \in [Ids -> SUBSET Targets]
  /\ MaxRetained \in Nat \ {0}
  /\ MaxIssues \in Nat
  /\ None \notin Monitors \cup Inputs \cup Levels \cup Agents \cup Ids \cup Targets
  /\ None \notin [input : Inputs, command : Ids]

VARIABLES
  commands,   \* store.commands: id -> command record, or NoCommand
  desired,    \* store.desired.monitorSources: monitor -> input and command id, or None
  timers,     \* CommandService.timers: id -> the handle it holds, 0 for none
  running,    \* the setTimeout callbacks that are still to fire, as <<id, handle>>
  lastKnown,  \* store.lastKnownActiveInputs
  seen,       \* the active input of effectiveObservedMonitor, None when not reachable
  link,       \* per agent: "up", "half" (socket not OPEN, close event still to come), "down"
  sent,       \* ids of the command frames ever handed to a socket
  issued      \* number of commands created; the newest one's issuedAt

vars == <<commands, desired, timers, running, lastKnown, seen, link, sent, issued>>

NoCommand == [target |-> None, value |-> None, status |-> Unknown, agent |-> None, issuedAt |-> 0]

Command == [target : Targets, value : Inputs \cup Levels, status : Statuses,
            agent : Agents \cup {None}, issuedAt : 1..MaxIssues]

TypeOK ==
  /\ commands \in [Ids -> Command \cup {NoCommand}]
  /\ desired \in [Monitors -> [input : Inputs, command : Ids] \cup {None}]
  /\ timers \in [Ids -> 0..MaxIssues]
  /\ running \subseteq Ids \X (1..MaxIssues)
  /\ lastKnown \in [Monitors -> Inputs \cup {None}]
  /\ seen \in [Monitors -> Inputs \cup {None}]
  /\ link \in [Agents -> {"up", "half", "down"}]
  /\ sent \subseteq Ids
  /\ issued \in 0..MaxIssues

(* The desk store starts empty: lastDesiredState is saved on shutdown and never read back. *)
Init ==
  /\ commands = [id \in Ids |-> NoCommand]
  /\ desired = [m \in Monitors |-> None]
  /\ timers = [id \in Ids |-> 0]
  /\ running = {}
  /\ lastKnown = [m \in Monitors |-> None]
  /\ seen = [m \in Monitors |-> None]
  /\ link = [a \in Agents |-> "down"]
  /\ sent = {}
  /\ issued = 0

-----------------------------------------------------------------------------
(* Queries *)

InFlight(id) == IsInFlight(commands[id].status)

(* agent-gateway.ts isOnline, and the readyState test of send. *)
IsOnline(a) == link[a] # "down"
CanSend(a) == link[a] = "up"

(***************************************************************************)
(* desk-store.ts bestKnownActiveInput: what an agent can see now, else     *)
(* what was last true.  The code's last resort, the input of a report that *)
(* is not reachable, is never taken: every provider reports such a monitor *)
(* without an input (ddc-provider.ts 215 and 234, the simulated desk 69).  *)
(***************************************************************************)
BestKnownActiveInput(m) == IF seen[m] # None THEN seen[m] ELSE lastKnown[m]

(* Faulty variants: an acknowledged command is not retired; nothing is retired. *)
InFlightForTarget_IgnoresAcked(t) ==
  {id \in Ids : commands[id].status \in {"pending", "dispatched"} /\ commands[id].target = t}
InFlightForTarget_Never(t) == {}

(* findInFlightForTarget: the first in-flight command of the target, if there is one. *)
InFlightForTarget(t) ==
  LET found == {id \in Ids : InFlight(id) /\ commands[id].target = t}
  IN  IF found = {} THEN {} ELSE {CHOOSE id \in found : TRUE}

(* Only brightness and power ask whether the agent claimed the kind of command. *)
Usable(a, kind) == IsOnline(a) /\ (kind = "input" \/ kind \in Claims[a])

(***************************************************************************)
(* selectControlPath: the first usable path on the input that is live,     *)
(* else the first usable path that does not need the live input.           *)
(***************************************************************************)
SelectControlPath(t) ==
  LET paths    == ControlPaths[MonitorOf(t)]
      active   == BestKnownActiveInput(MonitorOf(t))
      usable   == {i \in DOMAIN paths : Usable(paths[i].agent, KindOf(t))}
      onActive == {i \in usable : active # None /\ paths[i].input = active}
      anywhere == {i \in usable : ~paths[i].needsActive}
  IN  CASE onActive # {} -> paths[Min(onActive)].agent
        [] onActive = {} /\ anywhere # {} -> paths[Min(anywhere)].agent
        [] OTHER -> None

-----------------------------------------------------------------------------
(* Updates of the command store and of the timers *)

WithStatus(ids, status) ==
  [id \in Ids |-> IF id \in ids THEN [commands[id] EXCEPT !.status = status] ELSE commands[id]]

(* pruneCommands: only the MaxRetained newest commands stay, in flight or not. *)
Prune(cmds) ==
  [id \in Ids |->
     IF Cardinality({other \in Ids : cmds[other].issuedAt > cmds[id].issuedAt}) < MaxRetained
     THEN cmds[id] ELSE NoCommand]

(***************************************************************************)
(* createCommand: supersede the stale command of the target, put the new   *)
(* one, prune.  The record is put as pending with no agent; status and     *)
(* agent are what the rest of the same handler turns that into.            *)
(***************************************************************************)
Created(id, t, v, status, agent) ==
  Prune([WithStatus(InFlightForTarget(t), "superseded") EXCEPT
           ![id] = [target |-> t, value |-> v, status |-> status,
                    agent |-> agent, issuedAt |-> issued + 1]])

(* clearTimer, for the timers of several commands: the handles the Map holds are cancelled. *)
Handles_OfEveryCommand(ids) == running \* faulty: cancels the timers of all commands
Handles(ids) == {<<id, timers[id]>> : id \in ids}
TimersWithout(ids) == [id \in Ids |-> IF id \in ids THEN 0 ELSE timers[id]]

(* Faulty variant: the handle is dropped from the Map, the timeout is not cancelled. *)
ClearTimers_MapOnly(ids) ==
  /\ timers' = TimersWithout(ids)
  /\ UNCHANGED running

ClearTimers(ids) ==
  /\ timers' = TimersWithout(ids)
  /\ running' = running \ Handles(ids)

-----------------------------------------------------------------------------
(* Requests of callers *)

(* Faulty variant: a brightness or power request is recorded as the source. *)
RecordIntent_AnyKind(id, t, v) ==
  desired' = [desired EXCEPT ![MonitorOf(t)] = [input |-> v, command |-> id]]

(* setMonitorSource records the intent before it looks for a path; the features record none. *)
RecordIntent(id, t, v) ==
  desired' = IF KindOf(t) = "input"
             THEN [desired EXCEPT ![MonitorOf(t)] = [input |-> v, command |-> id]]
             ELSE desired

Request(id, t, v) ==
  /\ issued < MaxIssues
  /\ t \in TargetsOf[id]
  /\ issued' = issued + 1
  /\ RecordIntent(id, t, v)
  /\ UNCHANGED <<lastKnown, seen, link>>

(***************************************************************************)
(* setMonitorSource and issueMonitorFeature when the command frame goes    *)
(* out: the command is dispatched and its timer armed.  Requests for an    *)
(* unknown monitor, a missing capability or a computer that is not wired   *)
(* are rejected before anything changes, so they are not steps.            *)
(***************************************************************************)
IssueAndDispatch(id, t, v) ==
  LET agent == SelectControlPath(t)
      stale == InFlightForTarget(t)
  IN  /\ Request(id, t, v)
      /\ agent # None
      /\ CanSend(agent)
      /\ commands' = Created(id, t, v, "dispatched", agent)
      /\ timers' = [TimersWithout(stale) EXCEPT ![id] = issued + 1]
      /\ running' = (running \ Handles(stale)) \cup {<<id, issued + 1>>}
      /\ sent' = sent \cup {id}

(* The same requests when there is no path (NO_CONTROL_PATH) or the send fails. *)
IssueAndFail(id, t, v) ==
  LET agent == SelectControlPath(t)
  IN  /\ Request(id, t, v)
      /\ agent # None => ~CanSend(agent)
      /\ commands' = Created(id, t, v, "failed", None)
      /\ ClearTimers(InFlightForTarget(t) \cup {id})
      /\ UNCHANGED sent

-----------------------------------------------------------------------------
(* Frames of agents *)

(* Both handlers return at once unless the command is still in flight. *)
Awaited_Known(id) == id \in sent /\ commands[id] # NoCommand  \* faulty: whatever became of it
Awaited(id) == id \in sent /\ InFlight(id)

OnAgentAck(id) ==
  /\ Awaited(id)
  /\ commands' = WithStatus({id}, "acked")
  /\ UNCHANGED <<desired, timers, running, lastKnown, seen, link, sent, issued>>

(***************************************************************************)
(* onAgentResult.  A success of an input switch is noted as a belief about *)
(* the live input; the observation it asks for may arrive at any time and  *)
(* is Observe.                                                             *)
(***************************************************************************)
OnAgentResult(id, ok) ==
  /\ Awaited(id)
  /\ ClearTimers({id})
  /\ commands' = WithStatus({id}, IF ok THEN "succeeded" ELSE "failed")
  /\ lastKnown' = IF ok /\ KindOf(commands[id].target) = "input"
                  THEN [lastKnown EXCEPT ![MonitorOf(commands[id].target)] = commands[id].value]
                  ELSE lastKnown
  /\ UNCHANGED <<desired, seen, link, sent, issued>>

(* applyObservedReports: a reachable report, the newest, is the effective one. *)
Observe(m, i) ==
  /\ seen' = [seen EXCEPT ![m] = i]
  /\ lastKnown' = [lastKnown EXCEPT ![m] = i]
  /\ UNCHANGED <<commands, desired, timers, running, link, sent, issued>>

(* The reporter loses sight of the monitor: an older reachable report, if any, takes over. *)
LoseSight(m, fallback) ==
  /\ seen[m] # None
  /\ seen' = [seen EXCEPT ![m] = fallback]
  /\ UNCHANGED <<commands, desired, timers, running, lastKnown, link, sent, issued>>

-----------------------------------------------------------------------------
(* Timers and connections *)

(***************************************************************************)
(* The callback armed by dispatch.  It drops whatever handle the Map holds *)
(* for its id, and concludes the command if that is still in flight.       *)
(***************************************************************************)
Overdue_Unacked(id) == commands[id].status = "dispatched"  \* faulty: never once acknowledged
Overdue(id) == InFlight(id)

Timeout(id, handle) ==
  /\ <<id, handle>> \in running
  /\ running' = running \ {<<id, handle>>}
  /\ timers' = TimersWithout({id})
  /\ commands' = IF Overdue(id) THEN WithStatus({id}, "timed-out") ELSE commands
  /\ UNCHANGED <<desired, lastKnown, seen, link, sent, issued>>

(* handleHello: also from "half" or "up", where it replaces the old socket and fails nothing. *)
AgentHello(a) ==
  /\ link[a] # "up"
  /\ link' = [link EXCEPT ![a] = "up"]
  /\ UNCHANGED <<commands, desired, timers, running, lastKnown, seen, sent, issued>>

SocketDrops(a) ==
  /\ link[a] = "up"
  /\ link' = [link EXCEPT ![a] = "half"]
  /\ UNCHANGED <<commands, desired, timers, running, lastKnown, seen, sent, issued>>

(* Faulty variant: only commands that were not acknowledged fail with their agent. *)
CommandsOf_Unacknowledged(a) ==
  {id \in Ids : commands[id].status = "dispatched" /\ commands[id].agent = a}

(* handleClose of the agent's connection, and failCommandsForAgent. *)
CommandsOf(a) == {id \in Ids : InFlight(id) /\ commands[id].agent = a}

AgentLost(a) ==
  /\ link[a] # "down"
  /\ link' = [link EXCEPT ![a] = "down"]
  /\ commands' = WithStatus(CommandsOf(a), "failed")
  /\ ClearTimers(CommandsOf(a))
  /\ UNCHANGED <<desired, lastKnown, seen, sent, issued>>

-----------------------------------------------------------------------------
Next ==
  \/ \E id \in Ids, t \in Targets : \E v \in Payloads(t) :
       IssueAndDispatch(id, t, v) \/ IssueAndFail(id, t, v)
  \/ \E id \in Ids : OnAgentAck(id) \/ \E ok \in BOOLEAN : OnAgentResult(id, ok)
  \/ \E m \in Monitors :
       \/ \E i \in Inputs : Observe(m, i)
       \/ \E i \in Inputs \cup {None} : LoseSight(m, i)
  \/ \E entry \in running : Timeout(entry[1], entry[2])
  \/ \E a \in Agents : AgentHello(a) \/ SocketDrops(a) \/ AgentLost(a)

Spec == Init /\ [][Next]_vars

(* Node runs every timer that is due, unless it was cancelled. *)
FairSpec == Spec /\ \A id \in Ids : WF_vars(\E h \in 1..MaxIssues : Timeout(id, h))

-----------------------------------------------------------------------------
(* Safety *)

(***************************************************************************)
(* Two commands in flight never compete for one target: createCommand      *)
(* retires at most one command (it stops at the first it finds), and that  *)
(* has to be enough after any history of requests, re-used ids and prunes. *)
(***************************************************************************)
OneInFlightPerTarget ==
  \A id1, id2 \in Ids :
    InFlight(id1) /\ InFlight(id2) /\ commands[id1].target = commands[id2].target => id1 = id2

(***************************************************************************)
(* A command that waits for its agent has its own timer, armed when this   *)
(* issue of the id was dispatched, held by the Map and still to fire: no   *)
(* order of re-issues, clears and overwritten handles leaves a command in  *)
(* flight that nothing will ever conclude.                                 *)
(***************************************************************************)
InFlightIsTimed ==
  \A id \in Ids : InFlight(id) =>
    /\ timers[id] = commands[id].issuedAt
    /\ <<id, commands[id].issuedAt>> \in running

(***************************************************************************)
(* A command that was answered, superseded or failed with its agent leaves *)
(* no timer behind: one still to fire finds the issue that armed it in     *)
(* flight, or no longer there because its id was used again or pruned.     *)
(* Only a command that was timed out may have its own timer still to come, *)
(* when an older one of its id concluded it: dispatch overwrites the       *)
(* handle in the Map without cancelling the timer behind it.               *)
(***************************************************************************)
NoStrayTimer ==
  \A entry \in running : commands[entry[1]].issuedAt = entry[2] =>
    InFlight(entry[1]) \/ commands[entry[1]].status = "timed-out"

(***************************************************************************)
(* The input switch in flight for a monitor is the one the desired state   *)
(* names, for the input it names: what the user interface shows as         *)
(* pending is the last intent, never an older one.                         *)
(***************************************************************************)
DesiredNamesInFlight ==
  \A id \in Ids : InFlight(id) /\ KindOf(commands[id].target) = "input" =>
    desired[MonitorOf(commands[id].target)] = [input |-> commands[id].value, command |-> id]

(***************************************************************************)
(* No command in flight waits for an agent the gateway knows to be gone:   *)
(* handleClose fails all of them before the agent counts as offline.       *)
(***************************************************************************)
WaitsForPresentAgent ==
  \A id \in Ids : InFlight(id) => commands[id].agent \in Agents /\ IsOnline(commands[id].agent)

(***************************************************************************)
(* A concluded command keeps its verdict: a late acknowledgement, a late   *)
(* or repeated result, a timer that was not cancelled in time or the loss  *)
(* of the agent changes nothing, until a caller issues the id again.       *)
(***************************************************************************)
TerminalIsFinal ==
  [][\A id \in Ids :
       IsTerminal(commands[id].status) /\ commands'[id].issuedAt = commands[id].issuedAt
         => commands'[id] = commands[id]]_vars

(***************************************************************************)
(* The routing belief about a monitor moves to what an agent just read     *)
(* there, or to the input the user last asked for; the late success of a   *)
(* switch that has been superseded does not move it.                       *)
(***************************************************************************)
BeliefMovesWithIntent ==
  [][\A m \in Monitors : lastKnown'[m] # lastKnown[m] =>
       \/ seen'[m] = lastKnown'[m]
       \/ desired[m] # None /\ desired[m].input = lastKnown'[m]]_vars

(***************************************************************************)
(* The service keeps the documented lifecycle: supersession, verdicts and  *)
(* timeouts are steps of CommandLifecycle, everything else stutters.       *)
(***************************************************************************)
Lifecycle == INSTANCE CommandLifecycle WITH
  NoTarget <- None,
  life <- [id \in Ids |-> [status |-> commands[id].status, target |-> commands[id].target]]

KeepsLifecycle == Lifecycle!Spec

-----------------------------------------------------------------------------
(* Liveness *)

(* The command created by request n waits for its agent. *)
UnderWay(n) == \E id \in Ids : InFlight(id) /\ commands[id].issuedAt = n

(***************************************************************************)
(* Every issue of a command is concluded, whatever agents and sockets do:  *)
(* an answer, the loss of the agent, a newer request or its timer ends it, *)
(* also when the id was used before or is used again.                      *)
(***************************************************************************)
CommandsConclude == \A n \in 1..MaxIssues : UnderWay(n) ~> ~UnderWay(n)
=============================================================================
