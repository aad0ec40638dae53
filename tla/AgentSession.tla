---------------------------- MODULE AgentSession ----------------------------
(***************************************************************************)
(* One agent process and the controller's gateway, joined by connections   *)
(* that delay, close and break: AgentRuntime and AgentGateway over the     *)
(* same sockets.  The controller sends a command again when a caller       *)
(* issues its id again.                                                    *)
(***************************************************************************)
EXTENDS AgentRuntime

CONSTANT Agent

Agents == {Agent}
PeerOf == [c \in Conns |-> Agent]

VARIABLES connections, registered, byAgentId, online, waiting

Gateway == INSTANCE AgentGateway

gateway == <<connections, registered, byAgentId, online, waiting>>
vars == <<sockets, gateway, runtime>>

TypeOK == SocketsType /\ Gateway!GatewayType /\ RuntimeType

Init == SocketsInit /\ Gateway!GatewayInit /\ RuntimeInit

(* The handshake succeeds on both sides: handleConnection, and the end of transport.connect. *)
Opens ==
  /\ Connected
  /\ connections' = connections \cup {attempt}
  /\ UNCHANGED <<registered, byAgentId, online, waiting>>

Breaks(c) == Break(c) /\ UNCHANGED <<gateway, runtime>>

Controller == Gateway!GatewaySteps /\ UNCHANGED runtime

AgentWorks ==
  /\ \/ ConnectFails \/ SendHello \/ Reconnect
     \/ \E c \in Conns :
          \/ SocketLost(c) \/ ReceiveClose(c) \/ ReceiveWelcome(c)
          \/ ReceiveReject(c) \/ ReceiveRefresh(c) \/ ReceiveCommand(c)
     \/ \E id \in Ids : Answer(id) \/ \E ok \in BOOLEAN : Execute(id, ok)
     \/ PushObservedState \/ Tick \/ Stop
  /\ UNCHANGED gateway

Next == Opens \/ Controller \/ AgentWorks \/ \E c \in Conns : Breaks(c)

Spec == Init /\ [][Next]_vars

(***************************************************************************)
(* Dials succeed again and again if they are repeated for ever; discovery  *)
(* and timers end; what has arrived or is found broken is handled; the     *)
(* sweep runs at an interval.  The agent is not stopped, and its hardware  *)
(* need not ever answer.                                                   *)
(***************************************************************************)
AgentFair ==
  /\ SF_vars(Opens)
  /\ WF_vars(SendHello /\ UNCHANGED gateway)
  /\ WF_vars(Reconnect /\ UNCHANGED gateway)
  /\ \A c \in Conns :
       WF_vars((SocketLost(c) \/ ReceiveClose(c) \/ ReceiveReject(c)) /\ UNCHANGED gateway)

GatewayFair ==
  \A c \in Conns :
    /\ WF_vars(Gateway!Handles(c) /\ UNCHANGED runtime)
    /\ WF_vars(c \in broken /\ Gateway!Sweep(c) /\ UNCHANGED runtime)

FairSpec == Spec /\ AgentFair /\ GatewayFair

-----------------------------------------------------------------------------
(* Properties of the gateway *)

(***************************************************************************)
(* An agent has one session: of the connections that said hello for it and *)
(* are not given up there is exactly one, the one commands are sent on,    *)
(* whatever the order in which its old and new sockets say hello, close,   *)
(* fail or fall silent.                                                    *)
(***************************************************************************)
OneSession ==
  \A a \in Agents :
    {c \in connections \cap registered : PeerOf[c] = a} =
      IF byAgentId[a] = None THEN {} ELSE {byAgentId[a]}

(***************************************************************************)
(* The gateway takes only the steps AgentLink allows: commands never       *)
(* outlive the presence of their agent, and a reconnection in between      *)
(* keeps both.                                                             *)
(***************************************************************************)
Presence == INSTANCE AgentLink WITH
  link <- [a \in Agents |-> IF ~Gateway!IsOnline(a) THEN "down"
                            ELSE IF Gateway!CanSend(a) THEN "up" ELSE "half"],
  waits <- waiting

KeepsPresence == Presence!Spec

(***************************************************************************)
(* An agent whose connection broke without a word is given up: the sweep   *)
(* reaches every registered connection, in whatever state its socket is.   *)
(***************************************************************************)
BrokenIsNoticed ==
  \A c \in Conns :
    (c \in broken /\ byAgentId[PeerOf[c]] = c) ~> (byAgentId[PeerOf[c]] # c)

-----------------------------------------------------------------------------
(* Properties of the agent *)

(***************************************************************************)
(* docs/protocol.md: "Re-issuing an id must never perform the action       *)
(* twice - the agent caches outcomes."  Nothing in the code keeps a        *)
(* command from being delivered again during its first execution, and then *)
(* it is performed twice.                                                  *)
(***************************************************************************)
PerformedOnce == \A id \in Ids : driven[id] <= 1

(***************************************************************************)
(* What the cache of outcomes does achieve: a command is performed no more *)
(* often than executions of it were under way at one time.  A delivery     *)
(* after the first success adds none, on whatever connection it arrives,   *)
(* and however many executions have failed before.                         *)
(***************************************************************************)
OnlyOverlapsRepeat == \A id \in Ids : driven[id] <= overlap[id]

(***************************************************************************)
(* An agent that has lost the controller, or never reached it, gets a new  *)
(* connection: no order of closes, timers and attempts under way leaves it *)
(* waiting for nothing.                                                    *)
(***************************************************************************)
Reconnects ==
  (~stopped /\ transport = None) ~>
    (stopped \/ transport # None \/ Fresh = {})
=============================================================================
