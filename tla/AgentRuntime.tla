---------------------------- MODULE AgentRuntime ----------------------------
(***************************************************************************)
(* packages/agent-core/src/agent-runtime.ts: one agent process.  The       *)
(* runtime is a set of async methods, so an action is the code between two *)
(* awaits: while a dial, a discovery, a command or a reading is under way, *)
(* frames arrive, timers fire and connections come and go.                 *)
(* connected is set and cleared together with transport, so it is          *)
(* transport # None.                                                       *)
(***************************************************************************)
EXTENDS SessionSockets

CONSTANTS
  None,
  MaxWork,         \* bound: readings and deliveries of one command under way at the same time
  MaxDriven,       \* bound: how often one command is carried out
  SlowDiscovery    \* discoverMonitors may take longer than reconnectDelayMs

ASSUME RuntimeAssumption ==
  /\ Conns # {} /\ None \notin Conns
  /\ MaxWork \in Nat /\ MaxDriven \in Nat /\ SlowDiscovery \in BOOLEAN

VARIABLES
  stopped,
  transport,        \* the connection in use, or None
  dial,             \* connectPromise: "idle", "dialing", or "discovering" before hello
  attempt,          \* the connection being dialed
  reconnectTimer,   \* a reconnect is scheduled
  timers,           \* the heartbeat and observation intervals run
  reads,            \* pushObservedState calls that wait for the hardware
  executing,        \* how many handleCommand calls of each command wait for the provider
  answering,        \* how many of them wait for the reading before their answer
  handledCommands,  \* ids that succeeded
  driven,           \* how often the provider has carried out each command
  overlap           \* the most executions of each command that were under way at one time

commands == <<executing, answering, handledCommands, driven, overlap>>
runtime == <<stopped, transport, dial, attempt, reconnectTimer, timers, reads, commands>>

RuntimeType ==
  /\ stopped \in BOOLEAN
  /\ transport \in Conns \cup {None}
  /\ dial \in {"idle", "dialing", "discovering"}
  /\ attempt \in Conns \cup {None}
  /\ reconnectTimer \in BOOLEAN
  /\ timers \in BOOLEAN
  /\ reads \in Nat
  /\ executing \in [Ids -> Nat]
  /\ answering \in [Ids -> Nat]
  /\ handledCommands \subseteq Ids
  /\ driven \in [Ids -> 0..MaxDriven]
  /\ overlap \in [Ids -> Nat]

(* A connection is only a name: which unused one is dialed next does not matter. *)
Unused(conns) == CHOOSE c \in conns : TRUE

(* What start has done by its first await: the dial of some connection. *)
RuntimeInit ==
  /\ stopped = FALSE
  /\ transport = None
  /\ dial = "dialing"
  /\ attempt = Unused(Conns)
  /\ reconnectTimer = FALSE
  /\ timers = FALSE
  /\ reads = 0
  /\ executing = [id \in Ids |-> 0]
  /\ answering = [id \in Ids |-> 0]
  /\ handledCommands = {}
  /\ driven = [id \in Ids |-> 0]
  /\ overlap = [id \in Ids |-> 0]

Most(m, n) == IF m < n THEN n ELSE m

Fresh == {c \in Conns : agentSock[c] = "fresh"}

(* send: dropped without a transport; the transport drops what its socket cannot take. *)
Sent(frames) ==
  IF transport = None THEN toController ELSE AgentSends(toController, transport, frames)
HasRoom == transport # None => Len(toController[transport]) < MaxFrames
MayAdd(calls) ==
  /\ reads + calls <= MaxWork
  /\ \A id \in Ids : reads + executing[id] + answering[id] + calls <= MaxWork

-----------------------------------------------------------------------------
(* Connecting *)

(* Faulty variant: none is armed. *)
ScheduleReconnect_Never == UNCHANGED reconnectTimer
ScheduleReconnect == reconnectTimer' = (reconnectTimer \/ ~stopped)

(* connectOnce has opened the socket; hello has to wait for discoverMonitors. *)
Connected ==
  /\ dial = "dialing"
  /\ agentSock[attempt] = "fresh"
  /\ agentSock' = [agentSock EXCEPT ![attempt] = "open"]
  /\ ctrlSock' = [ctrlSock EXCEPT ![attempt] = "open"]
  /\ transport' = attempt
  /\ dial' = "discovering"
  /\ UNCHANGED <<toController, toAgent, broken, stopped, attempt, reconnectTimer, timers, reads, commands>>

ConnectFails ==
  /\ dial = "dialing"
  /\ dial' = "idle"
  /\ attempt' = None
  /\ ScheduleReconnect
  /\ UNCHANGED <<sockets, stopped, transport, timers, reads, commands>>

(***************************************************************************)
(* sendHello after discoverMonitors: hello goes to whatever transport      *)
(* there is by now, and connectPromise is cleared.                         *)
(***************************************************************************)
SendHello ==
  /\ dial = "discovering"
  /\ toController' = Sent(<<Frame("hello")>>)
  /\ dial' = "idle"
  /\ attempt' = None
  /\ UNCHANGED <<ctrlSock, agentSock, toAgent, broken, stopped, transport, reconnectTimer, timers,
                 reads, commands>>

(* connectLoop's early returns: stopped, connected, or an attempt under way. *)
MayDial == ~stopped /\ transport = None /\ dial = "idle"

(* The reconnect timer fires and runs connectLoop. *)
Reconnect ==
  /\ reconnectTimer
  /\ dial = "discovering" => SlowDiscovery
  /\ reconnectTimer' = FALSE
  /\ IF MayDial /\ Fresh # {}
     THEN /\ dial' = "dialing"
          /\ attempt' = Unused(Fresh)
     ELSE UNCHANGED <<dial, attempt>>
  /\ UNCHANGED <<sockets, stopped, transport, timers, reads, commands>>

(* The close listener: nothing for a socket that is not, or no longer, the transport. *)
OnClose(c) ==
  IF transport = c
  THEN /\ transport' = None
       /\ timers' = FALSE
       /\ ScheduleReconnect
  ELSE UNCHANGED <<transport, timers, reconnectTimer>>

SocketLost(c) ==
  /\ c \in broken
  /\ Listening(agentSock[c])
  /\ agentSock' = [agentSock EXCEPT ![c] = "closed"]
  /\ toAgent' = [toAgent EXCEPT ![c] = <<>>]
  /\ OnClose(c)
  /\ UNCHANGED <<ctrlSock, toController, broken, stopped, dial, attempt, reads, commands>>

-----------------------------------------------------------------------------
(* Frames of the controller *)

Delivered(c, kind) ==
  /\ Listening(agentSock[c])
  /\ toAgent[c] # <<>>
  /\ Head(toAgent[c]).kind = kind
  /\ toAgent' = Received(toAgent, c)

ReceiveClose(c) ==
  /\ Delivered(c, "close")
  /\ toController' = AgentSends(toController, c, <<Frame("close")>>)
  /\ agentSock' = [agentSock EXCEPT ![c] = "closed"]
  /\ OnClose(c)
  /\ UNCHANGED <<ctrlSock, broken, stopped, dial, attempt, reads, commands>>

(* startPeriodicWork, and a first reading. *)
ReceiveWelcome(c) ==
  /\ Delivered(c, "welcome")
  /\ MayAdd(1)
  /\ timers' = TRUE
  /\ reads' = reads + 1
  /\ UNCHANGED <<ctrlSock, agentSock, toController, broken, stopped, transport, dial, attempt,
                 reconnectTimer, commands>>

(* transport.close() on whatever transport is in use; its close event follows. *)
ReceiveReject(c) ==
  /\ Delivered(c, "reject")
  /\ IF transport = None
     THEN UNCHANGED <<agentSock, toController>>
     ELSE /\ agentSock' = Closing(agentSock, transport)
          /\ toController' = Sent(<<Frame("close")>>)
  /\ UNCHANGED <<ctrlSock, broken, runtime>>

(***************************************************************************)
(* refresh-inventory: a discovery and then a reading, each followed by its *)
(* frame.  The two frames are alike, so they count as two readings.        *)
(***************************************************************************)
ReceiveRefresh(c) ==
  /\ Delivered(c, "refresh")
  /\ MayAdd(2)
  /\ reads' = reads + 2
  /\ UNCHANGED <<ctrlSock, agentSock, toController, broken, stopped, transport, dial, attempt,
                 reconnectTimer, timers, commands>>

(* Faulty variant: outcomes are not remembered. *)
HandleCommand_NoCache(id) ==
  /\ executing' = [executing EXCEPT ![id] = @ + 1]
  /\ overlap' = [overlap EXCEPT ![id] = Most(@, executing[id] + 1)]
  /\ UNCHANGED answering
(***************************************************************************)
(* handleCommand: an id that succeeded before is answered from the cache,  *)
(* after a reading; any other is executed.                                 *)
(***************************************************************************)
HandleCommand(id) ==
  IF id \in handledCommands
  THEN /\ answering' = [answering EXCEPT ![id] = @ + 1]
       /\ UNCHANGED <<executing, overlap>>
  ELSE /\ executing' = [executing EXCEPT ![id] = @ + 1]
       /\ overlap' = [overlap EXCEPT ![id] = Most(@, executing[id] + 1)]
       /\ UNCHANGED answering

(* handleMessage starts handleCommand for every frame, also while it runs for the same id. *)
ReceiveCommand(c) ==
  LET id == Head(toAgent[c]).id
  IN  /\ Delivered(c, "command")
      /\ MayAdd(1) /\ HasRoom
      /\ toController' = Sent(<<FrameFor("ack", id)>>)
      /\ HandleCommand(id)
      /\ UNCHANGED <<ctrlSock, agentSock, broken, stopped, transport, dial, attempt, reconnectTimer,
                     timers, reads, handledCommands, driven>>

-----------------------------------------------------------------------------
(* Work *)

(* execute has answered: a success is remembered, a failure is not. *)
Execute(id, ok) ==
  /\ executing[id] > 0
  /\ ok => driven[id] < MaxDriven
  /\ executing' = [executing EXCEPT ![id] = @ - 1]
  /\ answering' = [answering EXCEPT ![id] = @ + 1]
  /\ handledCommands' = IF ok THEN handledCommands \cup {id} ELSE handledCommands
  /\ driven' = IF ok THEN [driven EXCEPT ![id] = @ + 1] ELSE driven
  /\ UNCHANGED <<sockets, stopped, transport, dial, attempt, reconnectTimer, timers, reads, overlap>>

(* What pushObservedState sends: nothing when the hardware cannot be read. *)
Reports == {<<>>, <<Frame("beat")>>}

(* The reading is done: it is pushed, and the result after it, on the transport of this moment. *)
Answer(id) ==
  /\ answering[id] > 0
  /\ HasRoom
  /\ \E report \in Reports : toController' = Sent(report \o <<FrameFor("result", id)>>)
  /\ answering' = [answering EXCEPT ![id] = @ - 1]
  /\ UNCHANGED <<ctrlSock, agentSock, toAgent, broken, stopped, transport, dial, attempt,
                 reconnectTimer, timers, reads, executing, handledCommands, driven, overlap>>

(* A reading ends, or the discovery before it, which sends its inventory or fails. *)
PushObservedState ==
  /\ reads > 0
  /\ HasRoom
  /\ reads' = reads - 1
  /\ \E report \in Reports : toController' = Sent(report)
  /\ UNCHANGED <<ctrlSock, agentSock, toAgent, broken, stopped, transport, dial, attempt,
                 reconnectTimer, timers, commands>>

(* The observation interval; the heartbeat interval sends the same kind of frame at once. *)
Tick ==
  /\ timers
  /\ MayAdd(1)
  /\ reads' = reads + 1
  /\ UNCHANGED <<sockets, stopped, transport, dial, attempt, reconnectTimer, timers, commands>>

Stop ==
  /\ ~stopped
  /\ stopped' = TRUE
  /\ timers' = FALSE
  /\ reconnectTimer' = FALSE
  /\ IF transport = None
     THEN UNCHANGED <<agentSock, toController>>
     ELSE /\ agentSock' = Closing(agentSock, transport)
          /\ toController' = Sent(<<Frame("close")>>)
  /\ transport' = None
  /\ UNCHANGED <<ctrlSock, toAgent, broken, dial, attempt, reads, commands>>

-----------------------------------------------------------------------------
RuntimeSteps ==
  \/ Connected \/ ConnectFails \/ SendHello \/ Reconnect
  \/ \E c \in Conns : \/ SocketLost(c) \/ ReceiveClose(c) \/ ReceiveWelcome(c) \/ ReceiveReject(c)
                      \/ ReceiveRefresh(c) \/ ReceiveCommand(c)
  \/ \E id \in Ids : Answer(id) \/ \E ok \in BOOLEAN : Execute(id, ok)
  \/ PushObservedState \/ Tick \/ Stop
=============================================================================
