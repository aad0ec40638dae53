--------------------------- MODULE DeskObservation ---------------------------
(***************************************************************************)
(* How the controller comes to know a desk it cannot look at: the parts of *)
(* apps/controller/src/desk-store.ts that hold inventories, wiring,        *)
(* observations and the belief about the active input, fed by the frames   *)
(* of agents that each see the panel only some of the time, and used by    *)
(* setMonitorSource to pick the agent that carries out a switch.           *)
(* AgentSession is the detail of connections, CommandService that of       *)
(* commands; here a connection is up or down and a command has no timer    *)
(* handle.                                                                 *)
(***************************************************************************)
EXTENDS SimulatedDesk, SequencesExt

CONSTANTS
  Ports,          \* the panel's inputs in the order it reports them
  Others,         \* computers without an agent, known from the configuration
  MaxFrames,      \* bound: frames under way at which an agent does not observe
  MaxEvents,      \* bound: switches asked for and happenings, together
  Setups          \* the panels and providers looked at

INSTANCE Reconcile

ASSUME ObservationAssumption ==
  /\ Ports \in Seq(Inputs) /\ Inputs = Range(Ports) /\ Len(Ports) = Cardinality(Inputs)
  /\ MaxFrames \in Nat /\ MaxEvents \in Nat
  /\ Setups \subseteq [requiresActiveInput : BOOLEAN, infers : BOOLEAN, activeInput : Inputs]
  /\ None \notin {"monitor-unknown", "computer-not-wired", "already-desired"}
  /\ None \notin [reachability : {"reachable", "unreachable"}, source : Computers \cup Others \cup {None}]
  /\ None \notin [agent : Computers, seen : Inputs \cup {None}]

VARIABLES
  infers,        \* the agents' provider infers its cable, as over DDC; chosen once
  up,            \* agents whose connection is up
  online,        \* agents whose hello was handled
  wire,          \* agent -> frames under way to the controller
  orders,        \* agent -> frames under way to the agent
  handled,       \* handledCommands of each agent: ids that succeeded
  wiring,        \* connectedComputerId of each input
  override,      \* config.wiringOverrides
  paths,         \* controlPaths of the monitor; it is known once there is one
  proven,        \* provenActiveInputIndependence
  observations,  \* the last report of each agent, the newest first
  lastActive,    \* lastKnownActiveInputs
  desired,       \* desired source and the command that stands for it
  commands,
  events

agentSide == <<up, handled>>
store == <<wiring, override, paths, proven, observations, lastActive>>
vars == <<desk, infers, agentSide, online, wire, orders, store, desired, commands, events>>

Command == [input : Inputs, agent : Computers \cup {None},
            status : {"dispatched", "succeeded", "failed", "timed-out", "superseded"}]
Path == [agent : Computers, input : Inputs \cup {None}, needsActive : BOOLEAN]
Report == [agent : Computers, seen : Inputs \cup {None}]
AgentFrame ==
  [kind : {"hello", "inventory"}, via : Inputs \cup {None}] \cup
  [kind : {"observed"}, seen : Inputs \cup {None}] \cup
  [kind : {"result"}, id : Ids, ok : BOOLEAN, seen : Inputs \cup {None}]
Order == [kind : {"command"}, id : Ids, input : Inputs] \cup [kind : {"refresh"}]

TypeOK ==
  /\ DeskType
  /\ infers \in BOOLEAN
  /\ up \subseteq Computers /\ online \subseteq up
  /\ wire \in [Computers -> Seq(AgentFrame)]
  /\ orders \in [Computers -> Seq(Order)]
  /\ handled \in [Computers -> SUBSET Ids]
  /\ wiring \in [Inputs -> Computers \cup Others \cup {None}]
  /\ override \in [Inputs -> Computers \cup Others \cup {None}]
  /\ paths \in Seq(Path) /\ proven \subseteq Computers
  /\ observations \in Seq(Report)
  /\ \A m, n \in DOMAIN observations : observations[m].agent = observations[n].agent => m = n
  /\ \A m, n \in DOMAIN paths : paths[m].agent = paths[n].agent => m = n
  /\ lastActive \in Inputs \cup {None}
  /\ desired \in [computer : Computers \cup Others, command : Ids] \cup {None}
  /\ commands \in [Ids -> Command \cup {None}]
  /\ events \in 0..MaxEvents

Init ==
  /\ DeskInit
  /\ \E s \in Setups :
       requiresActiveInput = s.requiresActiveInput /\ infers = s.infers /\ activeInput = s.activeInput
  /\ up = {}
  /\ handled = [a \in Computers |-> {}]
  /\ override = [i \in Inputs |-> None]
  /\ online = {}
  /\ wire = [a \in Computers |-> <<>>]
  /\ orders = [a \in Computers |-> <<>>]
  /\ wiring = [i \in Inputs |-> None]
  /\ paths = <<>>
  /\ proven = {}
  /\ observations = <<>>
  /\ lastActive = None
  /\ desired = None
  /\ commands = [id \in Ids |-> None]
  /\ events = 0

-----------------------------------------------------------------------------
(* What the store makes of a frame *)

(* mergeInputs: a user override beats what discovery inferred, which beats what was known. *)
MergeInputs(a, via) ==
  [i \in Inputs |-> CASE override[i] # None -> override[i]
                      [] override[i] = None /\ via = i -> a
                      [] OTHER -> wiring[i]]

(* What a sequence holds of other agents, when it holds at most one entry of each. *)
Without(s, a) == RemoveFirstMatch(s, LAMBDA entry : entry.agent = a)

ClaimsActive == requiresActiveInput \/ infers

(* Faulty variant: the path of an earlier inventory stays beside the new one. *)
ApplyMonitorReports_Adds(a, via) ==
  /\ wiring' = MergeInputs(a, via)
  /\ paths' = Append(paths, [agent |-> a, input |-> via, needsActive |-> ClaimsActive /\ a \notin proven])
  /\ UNCHANGED <<override, proven, observations, lastActive>>
(* applyMonitorReports: the agent's path is rebuilt and becomes the last one. *)
ApplyMonitorReports(a, via) ==
  /\ wiring' = MergeInputs(a, via)
  /\ paths' = Append(Without(paths, a),
                     [agent |-> a, input |-> via, needsActive |-> ClaimsActive /\ a \notin proven])
  /\ UNCHANGED <<override, proven, observations, lastActive>>

(* Faulty variant: a path whose input is not known counts as another input. *)
Proves_UnknownInput(a, seen) ==
  \E n \in DOMAIN paths : paths[n].agent = a /\ paths[n].needsActive /\ paths[n].input # seen
(* noteActiveInputIndependence: a reading while another input than the agent's is live. *)
Proves(a, seen) ==
  \E n \in DOMAIN paths : /\ paths[n].agent = a /\ paths[n].needsActive
                          /\ paths[n].input \notin {None, seen}

(* applyObservedReports: what is known once agent a has reported seen. *)
Noted(a, seen) ==
  LET independent == seen # None /\ Proves(a, seen)
  IN  [observations |-> <<[agent |-> a, seen |-> seen]>> \o Without(observations, a),
       lastActive   |-> IF seen # None THEN seen ELSE lastActive,
       proven       |-> IF independent THEN proven \cup {a} ELSE proven,
       paths        |-> [n \in DOMAIN paths |->
                           IF independent /\ paths[n].agent = a
                           THEN [paths[n] EXCEPT !.needsActive = FALSE] ELSE paths[n]]]

(* Faulty variant: the newest report counts, of an agent that cannot see the panel as well. *)
Effective_Newest ==
  IF observations = <<>> THEN None ELSE Head(observations)
(* effectiveObservedMonitor: a reachable report beats an unreachable one, then the newest. *)
Effective ==
  LET reachable == SelectInSeq(observations, LAMBDA r : r.seen # None)
  IN  IF reachable # 0 THEN observations[reachable]
      ELSE IF observations # <<>> THEN Head(observations) ELSE None

ObservedState ==
  IF Effective = None THEN None
  ELSE IF Effective.seen = None THEN [reachability |-> "unreachable", source |-> None]
  ELSE [reachability |-> "reachable", source |-> wiring[Effective.seen]]

BestKnownActiveInput ==
  IF Effective # None /\ Effective.seen # None THEN Effective.seen ELSE lastActive

(* selectControlPath, as the agent it leads to. *)
SelectControlPath ==
  LET onActive == SelectInSeq(paths, LAMBDA p : /\ p.agent \in online
                                                /\ p.input \in {BestKnownActiveInput} \ {None})
      free     == SelectInSeq(paths, LAMBDA p : p.agent \in online /\ ~p.needsActive)
  IN  IF onActive # 0 THEN paths[onActive].agent
      ELSE IF free # 0 THEN paths[free].agent ELSE None

Refresh == [kind |-> "refresh"]

InFlight(id) == commands[id] # None /\ commands[id].status = "dispatched"
WithStatus(ids, status) ==
  [id \in Ids |-> IF id \in ids THEN [commands[id] EXCEPT !.status = status] ELSE commands[id]]

(* requestFreshObservation: the agents whose path is on the input that was switched to. *)
AskedToLook(i) == {p.agent : p \in {p \in Range(paths) : p.input = i}} \cap online

-----------------------------------------------------------------------------
(* Frames, in the order they were sent *)

Delivered(a, kinds) ==
  /\ wire[a] # <<>>
  /\ Head(wire[a]).kind \in kinds
  /\ wire' = [wire EXCEPT ![a] = Tail(@)]

(* registerAgent, and an inventory. *)
HandleInventory(a) ==
  /\ Delivered(a, {"hello", "inventory"})
  /\ ApplyMonitorReports(a, Head(wire[a]).via)
  /\ online' = online \cup {a}
  /\ UNCHANGED <<desk, infers, agentSide, orders, desired, commands, events>>

Note(noted) ==
  /\ observations' = noted.observations
  /\ proven' = noted.proven
  /\ paths' = noted.paths

HandleObserved(a) ==
  LET noted == Noted(a, Head(wire[a]).seen)
  IN  /\ Delivered(a, {"observed"})
      /\ Note(noted)
      /\ lastActive' = noted.lastActive
      /\ UNCHANGED <<desk, infers, agentSide, online, orders, wiring, override, desired, commands,
                     events>>

(***************************************************************************)
(* A result brings a reading, which is noted before onAgentResult          *)
(* concludes the command.  After a success the belief follows the command, *)
(* and agents are asked to look.                                           *)
(***************************************************************************)
HandleResult(a) ==
  LET frame == Head(wire[a])
      noted == Noted(a, frame.seen)
      wins  == InFlight(frame.id) /\ frame.ok
      input == commands[frame.id].input
  IN  /\ Delivered(a, {"result"})
      /\ Note(noted)
      /\ lastActive' = IF wins THEN input ELSE noted.lastActive
      /\ orders' = IF wins THEN [b \in Computers |->
                                   IF b \in AskedToLook(input) THEN Append(orders[b], Refresh)
                                   ELSE orders[b]]
                   ELSE orders
      /\ commands' = IF InFlight(frame.id)
                     THEN WithStatus({frame.id}, IF frame.ok THEN "succeeded" ELSE "failed")
                     ELSE commands
      /\ UNCHANGED <<desk, infers, agentSide, online, wiring, override, desired, events>>

-----------------------------------------------------------------------------
(* Requests *)

Happens == events < MaxEvents /\ events' = events + 1

(* setMonitorSource: a request supersedes, and is recorded before a path is looked for. *)
SetMonitorSource(id, c) ==
  LET input == InputFor(Ports, wiring, c)
      agent == SelectControlPath
  IN  /\ Happens
      /\ paths # <<>> /\ input # None
      /\ commands' = [WithStatus({other \in Ids : InFlight(other)}, "superseded") EXCEPT
                        ![id] = [input |-> input, agent |-> agent,
                                 status |-> IF agent = None THEN "failed" ELSE "dispatched"]]
      /\ desired' = [computer |-> c, command |-> id]
      /\ orders' = IF agent = None THEN orders
                   ELSE [orders EXCEPT ![agent] = Append(@, [kind |-> "command", id |-> id, input |-> input])]
      /\ UNCHANGED <<desk, infers, agentSide, online, wire, store>>

Timeout(id) ==
  /\ InFlight(id)
  /\ commands' = WithStatus({id}, "timed-out")
  /\ UNCHANGED <<desk, infers, agentSide, online, wire, orders, store, desired, events>>

-----------------------------------------------------------------------------
(* Agents *)

(* The cable an inventory names: the simulation knows it, a DDC provider takes the live input. *)
Via(a) == IF infers THEN Reading(a) ELSE Cable[a]

Sent(a, frames) == [wire EXCEPT ![a] = @ \o frames]
SeenBy(a) == [kind |-> "observed", seen |-> Reading(a)]

Dial(a) ==
  /\ a \notin up
  /\ up' = up \cup {a}
  /\ wire' = Sent(a, <<[kind |-> "hello", via |-> Via(a)]>>)
  /\ UNCHANGED <<desk, infers, handled, online, orders, store, desired, commands, events>>

(* The observation interval, which runs once the agent was welcomed. *)
Observe(a) ==
  /\ a \in online
  /\ Len(wire[a]) < MaxFrames
  /\ wire' = Sent(a, <<SeenBy(a)>>)
  /\ UNCHANGED <<desk, infers, agentSide, online, orders, store, desired, commands, events>>

Ordered(a, kind) ==
  /\ orders[a] # <<>>
  /\ Head(orders[a]).kind = kind
  /\ orders' = [orders EXCEPT ![a] = Tail(@)]

Look(a) ==
  /\ Ordered(a, "refresh")
  /\ wire' = Sent(a, <<[kind |-> "inventory", via |-> Via(a)], SeenBy(a)>>)
  /\ UNCHANGED <<desk, infers, agentSide, online, store, desired, commands, events>>

ResultOf(a, id, ok, seen) == [kind |-> "result", id |-> id, ok |-> ok, seen |-> seen]

(***************************************************************************)
(* handleCommand and the provider's setInput: what the agent remembers, or *)
(* the panel answers at once, is sent back with a reading; else the panel  *)
(* has started to move.                                                    *)
(***************************************************************************)
Execute(a) ==
  LET order  == Head(orders[a])
      known  == order.id \in handled[a]
      answer == CASE known -> "ok"
                  [] ~known /\ ~CanControl(a) -> "failed"
                  [] OTHER -> Verdict(order.id, order.input)
  IN  /\ Ordered(a, "command")
      /\ IF known \/ ~CanControl(a) THEN UNCHANGED desk ELSE SwitchInput(a, order.id, order.input)
      /\ IF answer = None
         THEN UNCHANGED <<wire, handled>>
         ELSE /\ wire' = Sent(a, <<ResultOf(a, order.id, answer = "ok", Reading(a))>>)
              /\ handled' = IF answer = "ok" THEN [handled EXCEPT ![a] = @ \cup {order.id}] ELSE handled
      /\ UNCHANGED <<infers, up, online, store, desired, commands, events>>

(* The panel is done; the result goes to whatever connection the agent then has. *)
Finish(job) ==
  /\ EndSwitch(job)
  /\ handled' = IF job.stuck THEN handled ELSE [handled EXCEPT ![job.by] = @ \cup {job.id}]
  /\ wire' = IF job.by \in up
             THEN Sent(job.by, <<ResultOf(job.by, job.id, ~job.stuck, Reading(job.by)')>>) ELSE wire
  /\ UNCHANGED <<infers, up, online, orders, store, desired, commands, events>>

-----------------------------------------------------------------------------
(* Happenings *)

(* A connection ends: handleClose, setAgentOffline and failCommandsForAgent. *)
Leave(a) ==
  /\ Happens
  /\ a \in up
  /\ up' = up \ {a}
  /\ online' = online \ {a}
  /\ wire' = [wire EXCEPT ![a] = <<>>]
  /\ orders' = [orders EXCEPT ![a] = <<>>]
  /\ commands' = WithStatus({id \in Ids : InFlight(id) /\ commands[id].agent = a}, "failed")
  /\ UNCHANGED <<desk, infers, handled, store, desired>>

(* setWiringOverride, of a known monitor; taking it back leaves the input without a computer. *)
SetWiringOverride(i, c) ==
  /\ Happens
  /\ paths # <<>> /\ c # override[i]
  /\ override' = [override EXCEPT ![i] = c]
  /\ wiring' = [wiring EXCEPT ![i] = c]
  /\ UNCHANGED <<desk, infers, agentSide, online, wire, orders, paths, proven, observations,
                 lastActive, desired, commands>>

(* The controller starts again: of all this only the overrides are on its disk. *)
Restart ==
  /\ Happens
  /\ online' = {}
  /\ wire' = [a \in Computers |-> <<>>]
  /\ orders' = [a \in Computers |-> <<>>]
  /\ wiring' = [i \in Inputs |-> None]
  /\ paths' = <<>>
  /\ proven' = {}
  /\ observations' = <<>>
  /\ lastActive' = None
  /\ desired' = None
  /\ commands' = [id \in Ids |-> None]
  /\ up' = {}
  /\ UNCHANGED <<desk, infers, handled, override>>

Touched ==
  /\ Happens
  /\ \/ \E f \in Faults \cup {None} : f # fault /\ InjectFault(f)
     \/ \E i \in Inputs : i # activeInput /\ PressButton(i)
  /\ UNCHANGED <<infers, agentSide, online, wire, orders, store, desired, commands>>

-----------------------------------------------------------------------------
AgentSteps(a) ==
  \/ Dial(a) \/ Observe(a) \/ Look(a) \/ Execute(a)
  \/ HandleInventory(a) \/ HandleObserved(a) \/ HandleResult(a)

Next ==
  \/ \E a \in Computers : AgentSteps(a) \/ Leave(a)
  \/ \E job \in jobs : Finish(job)
  \/ \E id \in Ids : Timeout(id) \/ \E c \in Computers \cup Others : SetMonitorSource(id, c)
  \/ \E i \in Inputs, c \in Computers \cup Others \cup {None} : SetWiringOverride(i, c)
  \/ Touched \/ Restart

Spec == Init /\ [][Next]_vars

(***************************************************************************)
(* Agents reconnect and observe at an interval, frames arrive, and the     *)
(* panel's delay ends; nothing is asked of users, faults or connections.   *)
(***************************************************************************)
FairSpec ==
  /\ Spec
  /\ \A a \in Computers :
       /\ WF_vars(Dial(a)) /\ WF_vars(Observe(a)) /\ WF_vars(Look(a)) /\ WF_vars(Execute(a))
       /\ WF_vars(HandleInventory(a) \/ HandleObserved(a) \/ HandleResult(a))
  /\ WF_vars(\E job \in jobs : Finish(job))

-----------------------------------------------------------------------------
(* Properties *)

(* An agent is only taken to reach the panel over any input if it does. *)
ProvenIsTrue ==
  /\ proven # {} => ~requiresActiveInput
  /\ \A n \in DOMAIN paths : ~paths[n].needsActive => ~requiresActiveInput

(***************************************************************************)
(* What the user said of an input stands, whatever inventories arrive      *)
(* afterwards; what was discovered names the computer whose cable it is,   *)
(* except where a provider infers it from a panel that answers on any.     *)
(***************************************************************************)
WiringIsTrue ==
  paths # <<>> =>
    \A i \in Inputs :
      /\ override[i] # None => wiring[i] = override[i]
      /\ override[i] = None /\ wiring[i] # None /\ (requiresActiveInput \/ ~infers) =>
           Cable[wiring[i]] = i

(* What the controller concludes from late, partial readings and inventories is so. *)
BeliefIsTrue == ProvenIsTrue /\ WiringIsTrue

(* Every agent is there, the panel works and shows a computer that can see it. *)
Calm ==
  /\ online = Computers
  /\ fault = None /\ switchingTo = None
  /\ requiresActiveInput => \E a \in Computers : Cable[a] = activeInput

RouteWorks == SelectControlPath # None /\ CanControl(SelectControlPath)

(***************************************************************************)
(* Once the desk is calm the controller comes to see it as it is, and a    *)
(* request is given to an agent that can carry it out: old readings of     *)
(* other agents, a belief left by a late success or a restart do not stay. *)
(***************************************************************************)
DeskIsSeen ==
  (<>[]Calm) => <>[](Effective # None /\ Effective.seen = activeInput /\ (~infers => RouteWorks))

(***************************************************************************)
(* docs/hardware.md:341: "a switch is dispatched through whichever agent   *)
(* currently holds the live input", with providers that infer their cable  *)
(* as well.                                                                *)
(***************************************************************************)
LiveInputIsRouted == (<>[]Calm) => <>[]RouteWorks

(***************************************************************************)
(* The pure functions, on the desk as it stands: its status is honest, and *)
(* with its wiring presets lose nothing.                                   *)
(***************************************************************************)
AsCabled ==
  [i \in Inputs |-> IF \E c \in Computers : Cable[c] = i THEN CHOOSE c \in Computers : Cable[c] = i
                   ELSE None]
FaithfulWirings ==
  {w \in [Inputs -> Computers \cup Others \cup {None}] :
     PlansAreFaithful(Ports, [left |-> w, right |-> AsCabled])}

DomainIsSound ==
  /\ HardwareWins(IF desired = None THEN None ELSE desired.computer, ObservedState,
                  IF desired = None THEN None ELSE commands[desired.command].status)
  /\ AggregateIsStrict
  /\ wiring \in FaithfulWirings
=============================================================================
