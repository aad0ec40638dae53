--------------------------- MODULE SessionSockets ---------------------------
(***************************************************************************)
(* The WebSocket connections between agents and the controller, as both    *)
(* sides of packages/agent-core/src/transport.ts and of the ws library     *)
(* show them.  A connection is two ordered streams; nothing orders the     *)
(* frames of different connections.  A side that closes sends a last       *)
(* "close" frame, still receives until the other side's, and sends         *)
(* nothing more.  A connection may also break: what was under way is       *)
(* cut off at any point, and each side finds out later, by itself.         *)
(***************************************************************************)
EXTENDS Naturals, Sequences

CONSTANTS
  Conns,      \* connections, each used once
  Ids,        \* command ids
  MaxFrames   \* bound: frames under way at which no more are handed to a connection

ASSUME SocketAssumption == MaxFrames \in Nat \ {0}

VARIABLES
  ctrlSock,      \* the controller's end of each connection
  agentSock,     \* the agent's end
  toController,  \* frames under way to the controller
  toAgent,       \* frames under way to the agent
  broken         \* connections that carry nothing any more

sockets == <<ctrlSock, agentSock, toController, toAgent, broken>>

SocketStates == {"fresh", "open", "closing", "closed"}

(* "beat" is any frame that only proves the agent alive: heartbeat, inventory, observations. *)
AgentFrames == [kind : {"hello", "beat", "close"}] \cup [kind : {"ack", "result"}, id : Ids]
ControllerFrames ==
  [kind : {"welcome", "reject", "refresh", "close"}] \cup [kind : {"command"}, id : Ids]

SocketsType ==
  /\ ctrlSock \in [Conns -> SocketStates]
  /\ agentSock \in [Conns -> SocketStates]
  /\ toController \in [Conns -> Seq(AgentFrames)]
  /\ toAgent \in [Conns -> Seq(ControllerFrames)]
  /\ broken \subseteq Conns

SocketsInit ==
  /\ ctrlSock = [c \in Conns |-> "fresh"]
  /\ agentSock = [c \in Conns |-> "fresh"]
  /\ toController = [c \in Conns |-> <<>>]
  /\ toAgent = [c \in Conns |-> <<>>]
  /\ broken = {}

Frame(kind) == [kind |-> kind]
(* Faulty variant: the command is not named. *)
FrameFor_Anonymous(kind, id) == [kind |-> kind]
FrameFor(kind, id) == [kind |-> kind, id |-> id]

(* A socket still hands frames to its owner after close, until the other side's close. *)
Listening(state) == state \in {"open", "closing"}

Received(stream, c) == [stream EXCEPT ![c] = Tail(@)]

Queued(stream, c, frames) == IF c \in broken THEN stream ELSE [stream EXCEPT ![c] = @ \o frames]

(* Frames handed to a socket that is not open are dropped, as are those nobody will read. *)
AgentSends(stream, c, frames) ==
  IF agentSock[c] = "open" /\ ctrlSock[c] # "closed" THEN Queued(stream, c, frames) ELSE stream
ControllerSends(stream, c, frames) ==
  IF ctrlSock[c] = "open" /\ agentSock[c] # "closed" THEN Queued(stream, c, frames) ELSE stream

Closing(ends, c) == IF ends[c] = "open" THEN [ends EXCEPT ![c] = "closing"] ELSE ends

(* The network loses a connection: each stream keeps some of what is under way. *)
Break(c) ==
  /\ c \notin broken
  /\ Listening(agentSock[c]) \/ Listening(ctrlSock[c])
  /\ broken' = broken \cup {c}
  /\ \E kept \in 0..Len(toController[c]) :
       toController' = [toController EXCEPT ![c] = SubSeq(@, 1, kept)]
  /\ \E kept \in 0..Len(toAgent[c]) :
       toAgent' = [toAgent EXCEPT ![c] = SubSeq(@, 1, kept)]
  /\ UNCHANGED <<ctrlSock, agentSock>>
=============================================================================
