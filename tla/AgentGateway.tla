---------------------------- MODULE AgentGateway ----------------------------
(***************************************************************************)
(* apps/controller/src/agent-gateway.ts: the controller's side of the      *)
(* agent protocol, with the online flags of desk-store.ts and the commands *)
(* that wait for an answer.  One action is one event of a socket, or one   *)
(* connection found silent by the sweep.                                   *)
(***************************************************************************)
EXTENDS SessionSockets

CONSTANTS
  Agents,
  PeerOf,   \* PeerOf[c]: the agent whose process opens connection c
  None

VARIABLES
  connections,  \* the Set of connections that are not given up
  registered,   \* connections with an agentId: a hello was accepted on them
  byAgentId,    \* agent -> its connection, or None
  online,       \* the store's connectivity of each agent is "online"
  waiting       \* agent -> ids of the commands in flight at it

gateway == <<connections, registered, byAgentId, online, waiting>>

GatewayType ==
  /\ connections \subseteq Conns
  /\ registered \subseteq Conns
  /\ byAgentId \in [Agents -> Conns \cup {None}]
  /\ online \in [Agents -> BOOLEAN]
  /\ waiting \in [Agents -> SUBSET Ids]

GatewayInit ==
  /\ connections = {}
  /\ registered = {}
  /\ byAgentId = [a \in Agents |-> None]
  /\ online = [a \in Agents |-> FALSE]
  /\ waiting = [a \in Agents |-> {}]

-----------------------------------------------------------------------------
(* isOnline, and the test of send *)

IsOnline(a) == byAgentId[a] # None /\ online[a]
CanSend(a) == byAgentId[a] # None /\ ctrlSock[byAgentId[a]] = "open"

-----------------------------------------------------------------------------
(* Frames *)

(* The next frame of c, taken off its stream. *)
Receive(c, kinds) ==
  /\ Listening(ctrlSock[c])
  /\ toController[c] # <<>>
  /\ Head(toController[c]).kind \in kinds
  /\ toController' = Received(toController, c)

(* Faulty variant: the socket is closed but stays in the Set of connections. *)
Replace_KeepsTracking(c, previous) ==
  connections' = connections

(* The older connection is dropped from the Set, so that its close event finds nothing to do. *)
Replace(c, previous) ==
  connections' = connections \ {previous}

(***************************************************************************)
(* handleHello.  The welcome is sent on this connection even when it is    *)
(* closing, where it goes nowhere.                                         *)
(***************************************************************************)
HandleHello(c) ==
  LET a        == PeerOf[c]
      previous == byAgentId[a]
      replaces == previous # None /\ previous # c
      welcomed == ControllerSends(toAgent, c, <<Frame("welcome")>>)
  IN  /\ Receive(c, {"hello"})
      /\ registered' = registered \cup {c}
      /\ byAgentId' = [byAgentId EXCEPT ![a] = c]
      /\ online' = [online EXCEPT ![a] = TRUE]
      /\ IF replaces
         THEN /\ Replace(c, previous)
              /\ ctrlSock' = Closing(ctrlSock, previous)
              /\ toAgent' = ControllerSends(welcomed, previous, <<Frame("close")>>)
         ELSE /\ toAgent' = welcomed
              /\ UNCHANGED <<connections, ctrlSock>>
      /\ UNCHANGED <<agentSock, broken, waiting>>

(* Any other frame before hello is answered with UNKNOWN_AGENT and the socket closes. *)
RejectUnknown(c) ==
  /\ Receive(c, {"beat", "ack", "result"})
  /\ c \notin registered
  /\ toAgent' = ControllerSends(toAgent, c, <<Frame("reject"), Frame("close")>>)
  /\ ctrlSock' = Closing(ctrlSock, c)
  /\ UNCHANGED <<agentSock, broken, gateway>>

MarkAgentSeen(a) == online' = [online EXCEPT ![a] = TRUE]

(* Heartbeats, inventories, observations and acknowledgements: no command is concluded. *)
HandleBeat(c) ==
  /\ Receive(c, {"beat", "ack"})
  /\ c \in registered
  /\ MarkAgentSeen(PeerOf[c])
  /\ UNCHANGED <<ctrlSock, agentSock, toAgent, broken, connections, registered, byAgentId, waiting>>

(***************************************************************************)
(* A result concludes its command, whoever sends it.  After some successes *)
(* onAgentResult asks the agents of the other paths to look again.         *)
(***************************************************************************)
HandleResult(c) ==
  LET id == Head(toController[c]).id
  IN  /\ Receive(c, {"result"})
      /\ c \in registered
      /\ MarkAgentSeen(PeerOf[c])
      /\ waiting' = [a \in Agents |-> waiting[a] \ {id}]
      /\ \E asked \in {toAgent} \cup
           {ControllerSends(toAgent, byAgentId[a], <<Frame("refresh")>>) :
              a \in {other \in Agents : CanSend(other) /\ Len(toAgent[byAgentId[other]]) < MaxFrames}} :
         toAgent' = asked
      /\ UNCHANGED <<ctrlSock, agentSock, broken, connections, registered, byAgentId>>

-----------------------------------------------------------------------------
(* The end of a connection *)

Forget(c) ==
  byAgentId' = IF byAgentId[PeerOf[c]] = c
               THEN [byAgentId EXCEPT ![PeerOf[c]] = None] ELSE byAgentId

(* Faulty variant: the agent goes offline and its commands are left to their timers. *)
HandleClose_KeepsCommands(c) ==
  /\ connections' = connections \ {c}
  /\ IF c \in connections /\ c \in registered
     THEN /\ Forget(c)
          /\ online' = [online EXCEPT ![PeerOf[c]] = FALSE]
     ELSE UNCHANGED <<byAgentId, online>>
  /\ UNCHANGED <<registered, waiting>>

(***************************************************************************)
(* handleClose: nothing for a connection that was replaced or given up     *)
(* before; else the agent goes offline and failCommandsForAgent runs.      *)
(***************************************************************************)
HandleClose(c) ==
  /\ connections' = connections \ {c}
  /\ IF c \in connections /\ c \in registered
     THEN /\ Forget(c)
          /\ online' = [online EXCEPT ![PeerOf[c]] = FALSE]
          /\ waiting' = [waiting EXCEPT ![PeerOf[c]] = {}]
     ELSE UNCHANGED <<byAgentId, online, waiting>>
  /\ UNCHANGED registered

(* The socket's close event: the peer closed, or answers our close. *)
SocketClosed(c) ==
  /\ Receive(c, {"close"})
  /\ toAgent' = ControllerSends(toAgent, c, <<Frame("close")>>)
  /\ ctrlSock' = [ctrlSock EXCEPT ![c] = "closed"]
  /\ HandleClose(c)
  /\ UNCHANGED <<agentSock, broken>>

(* The socket's error and close events when the connection is found broken. *)
SocketFails(c) ==
  /\ c \in broken
  /\ Listening(ctrlSock[c])
  /\ toController[c] = <<>>
  /\ ctrlSock' = [ctrlSock EXCEPT ![c] = "closed"]
  /\ HandleClose(c)
  /\ UNCHANGED <<agentSock, toController, toAgent, broken>>

(* Faulty variant: only sockets that are still open are looked at. *)
Silent_Open(c) == c \in connections /\ c \in registered /\ ctrlSock[c] = "open"
Silent(c) == c \in connections /\ c \in registered

(***************************************************************************)
(* sweep finds a connection silent for too long.  How long frames take is  *)
(* not bounded, so any registered connection may be found silent.  The     *)
(* socket is terminated: frames still under way to us are lost.            *)
(***************************************************************************)
Sweep(c) ==
  /\ Silent(c)
  /\ ctrlSock' = [ctrlSock EXCEPT ![c] = "closed"]
  /\ toController' = [toController EXCEPT ![c] = <<>>]
  /\ toAgent' = ControllerSends(toAgent, c, <<Frame("close")>>)
  /\ HandleClose(c)
  /\ UNCHANGED <<agentSock, broken>>

-----------------------------------------------------------------------------
(* Commands *)

(* The command service sends id to agent a; callers may issue an id again. *)
SendCommand(a, id) ==
  /\ IsOnline(a)
  /\ CanSend(a)
  /\ Len(toAgent[byAgentId[a]]) < MaxFrames
  /\ toAgent' = ControllerSends(toAgent, byAgentId[a], <<FrameFor("command", id)>>)
  /\ waiting' = [other \in Agents |-> IF other = a THEN waiting[a] \cup {id}
                                      ELSE waiting[other] \ {id}]
  /\ UNCHANGED <<ctrlSock, agentSock, toController, broken, connections, registered, byAgentId,
                 online>>

(* A command is concluded without its agent: its timer fires, or a newer one supersedes it. *)
CommandEnds(a, id) ==
  /\ id \in waiting[a]
  /\ waiting' = [waiting EXCEPT ![a] = @ \ {id}]
  /\ UNCHANGED <<sockets, connections, registered, byAgentId, online>>

GatewaySteps ==
  \/ \E c \in Conns : \/ HandleHello(c) \/ RejectUnknown(c) \/ HandleBeat(c) \/ HandleResult(c)
                      \/ SocketClosed(c) \/ SocketFails(c) \/ Sweep(c)
  \/ \E a \in Agents, id \in Ids : SendCommand(a, id) \/ CommandEnds(a, id)

(* Node delivers what a socket has received, and the sweep runs at an interval. *)
Handles(c) ==
  HandleHello(c) \/ RejectUnknown(c) \/ HandleBeat(c) \/ HandleResult(c) \/ SocketClosed(c)
=============================================================================
