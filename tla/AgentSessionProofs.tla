------------------------- MODULE AgentSessionProofs -------------------------
(***************************************************************************)
(* What holds of an agent and the controller's gateway for any number of   *)
(* connections, ids, frames under way, readings and deliveries handled at  *)
(* the same time.                                                          *)
(***************************************************************************)
EXTENDS AgentSession, SequenceTheorems, TLAPS

(* While connectPromise is there, it is the promise of some connection. *)
DialHasAttempt == dial # "idle" => attempt \in Conns

(* Inductive for the types: what Connected opens is a connection. *)
SessionTypes == TypeOK /\ DialHasAttempt

-----------------------------------------------------------------------------
(* The gateway's operators on sockets are those of the agent: one module, instantiated twice. *)

LEMMA SameSockets ==
  /\ \A state : Gateway!Listening(state) = Listening(state)
  /\ \A kind : Gateway!Frame(kind) = Frame(kind)
  /\ \A kind, id : Gateway!FrameFor(kind, id) = FrameFor(kind, id)
  /\ \A stream, c : Gateway!Received(stream, c) = Received(stream, c)
  /\ \A ends, c : Gateway!Closing(ends, c) = Closing(ends, c)
  /\ \A stream, c, frames :
       Gateway!ControllerSends(stream, c, frames) = ControllerSends(stream, c, frames)
  /\ Gateway!sockets = sockets
  /\ Gateway!gateway = gateway
  /\ Agents = {Agent}
  /\ \A c \in Conns : PeerOf[c] = Agent
BY DEF Gateway!Listening, Listening, Gateway!Frame, Frame, Gateway!FrameFor, FrameFor,
       Gateway!Received, Received, Gateway!Closing, Closing, Gateway!ControllerSends,
       ControllerSends, Gateway!Queued, Queued, Gateway!sockets, sockets, Gateway!gateway,
       gateway, Agents, PeerOf

(* A frame of its kind is a frame of its sender. *)
LEMMA FramesAreFrames ==
  /\ \A kind \in {"hello", "beat", "close"} : Frame(kind) \in AgentFrames
  /\ \A kind \in {"ack", "result"}, id \in Ids : FrameFor(kind, id) \in AgentFrames
  /\ \A kind \in {"welcome", "reject", "refresh", "close"} : Frame(kind) \in ControllerFrames
  /\ \A id \in Ids : FrameFor("command", id) \in ControllerFrames
BY DEF AgentFrames, ControllerFrames, Frame, FrameFor

(* A frame of a command names an id. *)
LEMMA CommandFramesNameIds ==
  /\ \A f \in AgentFrames : f.kind \in {"ack", "result"} => f.id \in Ids
  /\ \A f \in ControllerFrames : f.kind = "command" => f.id \in Ids
BY DEF AgentFrames, ControllerFrames

(* Sending on a connection leaves the streams typed; the others are untouched. *)
LEMMA AgentSendsEffect ==
  ASSUME NEW stream \in [Conns -> Seq(AgentFrames)], NEW c \in Conns,
         NEW frames \in Seq(AgentFrames)
  PROVE  /\ AgentSends(stream, c, frames) \in [Conns -> Seq(AgentFrames)]
         /\ \A d \in Conns : \/ AgentSends(stream, c, frames)[d] = stream[d]
                             \/ /\ d = c /\ agentSock[c] = "open"
                                /\ AgentSends(stream, c, frames)[d] = stream[d] \o frames
<1>1. stream[c] \o frames \in Seq(AgentFrames)
  BY ConcatProperties
<1>2. QED
  BY <1>1 DEF AgentSends, Queued

LEMMA ControllerSendsType ==
  ASSUME NEW stream \in [Conns -> Seq(ControllerFrames)], NEW c \in Conns,
         NEW frames \in Seq(ControllerFrames)
  PROVE  ControllerSends(stream, c, frames) \in [Conns -> Seq(ControllerFrames)]
<1>1. stream[c] \o frames \in Seq(ControllerFrames)
  BY ConcatProperties
<1>2. QED
  BY <1>1 DEF ControllerSends, Queued

(* The next frame is one of its sender's, and taking it off leaves the rest. *)
LEMMA ReceivedType ==
  ASSUME NEW F, NEW stream \in [Conns -> Seq(F)], NEW c \in Conns, stream[c] # <<>>
  PROVE  /\ Head(stream[c]) \in F
         /\ Received(stream, c) \in [Conns -> Seq(F)]
         /\ Received(stream, c)[c] = Tail(stream[c])
         /\ \A d \in Conns \ {c} : Received(stream, c)[d] = stream[d]
<1>1. Head(stream[c]) \in F /\ Tail(stream[c]) \in Seq(F)
  BY HeadTailProperties
<1>2. QED
  BY <1>1 DEF Received

(* What is kept of a broken stream. *)
LEMMA CutType ==
  ASSUME NEW F, NEW s \in Seq(F), NEW kept \in 0..Len(s)
  PROVE  /\ SubSeq(s, 1, kept) \in Seq(F)
         /\ Len(SubSeq(s, 1, kept)) = kept
         /\ \A i \in 1..kept : SubSeq(s, 1, kept)[i] = s[i]
<1>1. Len(s) \in Nat /\ kept \in Nat /\ kept <= Len(s)
  OBVIOUS
<1>2. \A i \in 1..kept : s[i] \in F
  BY <1>1, ElementOfSeq
<1>3. 1 \in Int /\ kept \in Int
  BY <1>1
<1>4. /\ SubSeq(s, 1, kept) \in Seq(F)
      /\ Len(SubSeq(s, 1, kept)) = IF 1 <= kept THEN kept - 1 + 1 ELSE 0
      /\ \A i \in 1..kept - 1 + 1 : SubSeq(s, 1, kept)[i] = s[1 + i - 1]
  BY <1>2, <1>3, SubSeqProperties
<1>5. QED
  BY <1>1, <1>4

(* A socket that starts to close. *)
LEMMA ClosingEffect ==
  ASSUME NEW ends \in [Conns -> SocketStates], NEW c \in Conns
  PROVE  /\ Closing(ends, c) \in [Conns -> SocketStates]
         /\ \A d \in Conns : \/ Closing(ends, c)[d] = ends[d]
                             \/ d = c /\ ends[d] = "open" /\ Closing(ends, c)[d] = "closing"
BY DEF Closing, SocketStates

-----------------------------------------------------------------------------
(* Types *)

(* What an agent sends besides hello. *)
Routine == {f \in AgentFrames : f.kind # "hello"}

LEMMA RoutineFrames ==
  /\ Seq(Routine) \subseteq Seq(AgentFrames)
  /\ <<Frame("close")>> \in Seq(Routine)
  /\ \A id \in Ids : <<FrameFor("ack", id)>> \in Seq(Routine)
  /\ \A report \in Reports : report \in Seq(Routine)
  /\ \A report \in Reports, id \in Ids : report \o <<FrameFor("result", id)>> \in Seq(Routine)
<1>1. Seq(Routine) \subseteq Seq(AgentFrames)
  BY DEF Routine
<1>2. Frame("close") \in Routine /\ Frame("beat") \in Routine
  BY FramesAreFrames DEF Routine, Frame
<1>3. \A id \in Ids : FrameFor("ack", id) \in Routine /\ FrameFor("result", id) \in Routine
  BY FramesAreFrames DEF Routine, FrameFor
<1>4. <<Frame("close")>> \in Seq(Routine) /\ <<Frame("beat")>> \in Seq(Routine)
  BY <1>2
<1>5. \A id \in Ids : <<FrameFor("ack", id)>> \in Seq(Routine) /\ <<FrameFor("result", id)>> \in Seq(Routine)
  BY <1>3
<1>6. \A report \in Reports : report \in Seq(Routine)
  <2>1. <<>> \in Seq(Routine)
    OBVIOUS
  <2>2. QED
    BY <1>4, <2>1 DEF Reports
<1>7. ASSUME NEW report \in Reports, NEW id \in Ids
      PROVE  report \o <<FrameFor("result", id)>> \in Seq(Routine)
  BY <1>5, <1>6, ConcatProperties
<1>8. QED
  BY <1>1, <1>4, <1>5, <1>6, <1>7

(* Frames that the agent sends on whatever transport it has. *)
LEMMA SentEffect ==
  ASSUME SessionTypes, NEW fs \in Seq(AgentFrames)
  PROVE  /\ Sent(fs) \in [Conns -> Seq(AgentFrames)]
         /\ \A d \in Conns : \/ Sent(fs)[d] = toController[d]
                             \/ /\ d = transport /\ agentSock[d] = "open"
                                /\ Sent(fs)[d] = toController[d] \o fs
<1>1. /\ toController \in [Conns -> Seq(AgentFrames)]
      /\ transport \in Conns \cup {None}
  BY DEF SessionTypes, TypeOK, SocketsType, RuntimeType
<1>2. CASE transport = None
  BY <1>1, <1>2 DEF Sent
<1>3. CASE transport # None
  <2>1. transport \in Conns /\ toController[transport] \o fs \in Seq(AgentFrames)
    BY <1>1, <1>3, ConcatProperties
  <2>2. Sent(fs) \in {toController, [toController EXCEPT ![transport] = @ \o fs]}
    BY <1>3 DEF Sent, AgentSends, Queued
  <2>3. Sent(fs) # toController => agentSock[transport] = "open"
    BY <1>3 DEF Sent, AgentSends
  <2>4. QED
    BY <1>1, <2>1, <2>2, <2>3
<1>4. QED
  BY <1>2, <1>3

THEOREM SessionTypesInit == Init => SessionTypes
<1> SUFFICES ASSUME Init PROVE SessionTypes
  OBVIOUS
<1>1. Unused(Conns) \in Conns
  BY RuntimeAssumption DEF Unused
<1>2. SocketsType
  BY DEF Init, SocketsInit, SocketsType, SocketStates
<1>3. Gateway!GatewayType
  BY DEF Init, Gateway!GatewayInit, Gateway!GatewayType
<1>4. RuntimeType /\ DialHasAttempt
  <2>1. 0 \in Nat /\ 0 \in 0..MaxDriven
    BY RuntimeAssumption
  <2>2. RuntimeInit
    BY DEF Init
  <2>3. /\ executing \in [Ids -> Nat] /\ answering \in [Ids -> Nat]
        /\ driven \in [Ids -> 0..MaxDriven] /\ overlap \in [Ids -> Nat]
    BY <2>1, <2>2 DEF RuntimeInit
  <2>4. QED
    BY <1>1, <2>1, <2>2, <2>3 DEF RuntimeInit, RuntimeType, DialHasAttempt
<1>5. QED
  BY <1>2, <1>3, <1>4 DEF SessionTypes, TypeOK

(* The runtime's share of each step of the agent. *)
LEMMA RuntimeKeepsTypes ==
  ASSUME SessionTypes,
         \/ ConnectFails \/ SendHello \/ Reconnect \/ Connected
         \/ \E c \in Conns :
              \/ SocketLost(c) \/ ReceiveClose(c) \/ ReceiveWelcome(c)
              \/ ReceiveReject(c) \/ ReceiveRefresh(c) \/ ReceiveCommand(c)
         \/ \E id \in Ids : Answer(id) \/ \E ok \in BOOLEAN : Execute(id, ok)
         \/ PushObservedState \/ Tick \/ Stop
  PROVE  SocketsType' /\ RuntimeType' /\ DialHasAttempt'
<1>1. SocketsType /\ RuntimeType /\ DialHasAttempt
  BY DEF SessionTypes, TypeOK
<1>2. /\ MaxDriven \in Nat /\ reads \in Nat
      /\ \A id \in Ids : driven[id] \in Nat
  BY <1>1, RuntimeAssumption DEF RuntimeType
<1>3. \A fs \in Seq(AgentFrames) : Sent(fs) \in [Conns -> Seq(AgentFrames)]
  BY SentEffect
<1>4. CASE Connected
  BY <1>1, <1>4 DEF Connected, commands, SocketsType, RuntimeType, DialHasAttempt, SocketStates
<1>5. CASE ConnectFails
  BY <1>1, <1>5 DEF ConnectFails, ScheduleReconnect, commands, sockets, SocketsType, RuntimeType, DialHasAttempt
<1>6. CASE SendHello
  <2>1. <<Frame("hello")>> \in Seq(AgentFrames)
    BY FramesAreFrames
  <2>2. QED
    BY <1>1, <1>3, <1>6, <2>1 DEF SendHello, commands, SocketsType, RuntimeType, DialHasAttempt
<1>7. CASE Reconnect
  <2>1. Fresh # {} => Unused(Fresh) \in Conns
    BY DEF Fresh, Unused
  <2>2. QED
    BY <1>1, <1>7, <2>1 DEF Reconnect, commands, sockets, SocketsType, RuntimeType, DialHasAttempt
<1>8. ASSUME NEW c \in Conns, SocketLost(c)
      PROVE  SocketsType' /\ RuntimeType' /\ DialHasAttempt'
  <2>1. <<>> \in Seq(ControllerFrames)
    OBVIOUS
  <2>2. QED
    BY <1>1, <1>8, <2>1
    DEF SocketLost, OnClose, ScheduleReconnect, commands, SocketsType, RuntimeType, DialHasAttempt,
        SocketStates
<1>9. ASSUME NEW c \in Conns, NEW kind, Delivered(c, kind)
      PROVE  toAgent' \in [Conns -> Seq(ControllerFrames)] /\ Head(toAgent[c]) \in ControllerFrames
  BY <1>1, <1>9, ReceivedType DEF Delivered, SocketsType
<1>10. ASSUME NEW c \in Conns, ReceiveClose(c)
       PROVE  SocketsType' /\ RuntimeType' /\ DialHasAttempt'
  <2>1. toAgent' \in [Conns -> Seq(ControllerFrames)]
    BY <1>9, <1>10 DEF ReceiveClose
  <2>2. toController' \in [Conns -> Seq(AgentFrames)]
    <3>1. <<Frame("close")>> \in Seq(AgentFrames)
      BY FramesAreFrames
    <3>2. AgentSends(toController, c, <<Frame("close")>>) \in [Conns -> Seq(AgentFrames)]
      BY <1>1, <3>1, AgentSendsEffect DEF SocketsType
    <3>3. QED
      BY <1>10, <3>2 DEF ReceiveClose
  <2>3. SocketsType'
    BY <1>1, <1>10, <2>1, <2>2 DEF ReceiveClose, SocketsType, SocketStates
  <2>4. RuntimeType' /\ DialHasAttempt'
    BY <1>1, <1>10
    DEF ReceiveClose, OnClose, ScheduleReconnect, commands, RuntimeType, DialHasAttempt
  <2>5. QED
    BY <2>3, <2>4
<1>11. ASSUME NEW c \in Conns, ReceiveWelcome(c) \/ ReceiveRefresh(c)
       PROVE  SocketsType' /\ RuntimeType' /\ DialHasAttempt'
  <2>1. toAgent' \in [Conns -> Seq(ControllerFrames)]
    BY <1>9, <1>11 DEF ReceiveWelcome, ReceiveRefresh
  <2>2. SocketsType'
    BY <1>1, <1>11, <2>1 DEF ReceiveWelcome, ReceiveRefresh, SocketsType
  <2>3. reads' \in Nat
    BY <1>2, <1>11 DEF ReceiveWelcome, ReceiveRefresh
  <2>4. RuntimeType' /\ DialHasAttempt'
    BY <1>1, <1>11, <2>3 DEF ReceiveWelcome, ReceiveRefresh, commands, RuntimeType, DialHasAttempt
  <2>5. QED
    BY <2>2, <2>4
<1>12. ASSUME NEW c \in Conns, ReceiveReject(c)
       PROVE  SocketsType' /\ RuntimeType' /\ DialHasAttempt'
  <2>1. toAgent' \in [Conns -> Seq(ControllerFrames)]
    BY <1>9, <1>12 DEF ReceiveReject
  <2>2. toController' \in [Conns -> Seq(AgentFrames)]
    BY <1>1, <1>3, <1>12, RoutineFrames DEF ReceiveReject, SocketsType
  <2>3. agentSock' \in [Conns -> SocketStates]
    <3>1. agentSock' = agentSock \/ (transport \in Conns /\ agentSock' = Closing(agentSock, transport))
      BY <1>1, <1>12 DEF ReceiveReject, RuntimeType
    <3>2. agentSock \in [Conns -> SocketStates]
      BY <1>1 DEF SocketsType
    <3>3. transport \in Conns => Closing(agentSock, transport) \in [Conns -> SocketStates]
      BY <3>2, ClosingEffect
    <3>4. QED
      BY <3>1, <3>2, <3>3
  <2>4. SocketsType'
    BY <1>1, <1>12, <2>1, <2>2, <2>3 DEF ReceiveReject, SocketsType
  <2>5. RuntimeType' /\ DialHasAttempt'
    BY <1>1, <1>12 DEF ReceiveReject, runtime, commands, RuntimeType, DialHasAttempt
  <2>6. QED
    BY <2>4, <2>5
<1>13. ASSUME NEW c \in Conns, ReceiveCommand(c)
       PROVE  SocketsType' /\ RuntimeType' /\ DialHasAttempt'
  <2>1. Delivered(c, "command")
    BY <1>13 DEF ReceiveCommand
  <2>2. toAgent' \in [Conns -> Seq(ControllerFrames)] /\ Head(toAgent[c]).id \in Ids
    BY <1>9, <2>1, CommandFramesNameIds DEF Delivered
  <2>3. toController' \in [Conns -> Seq(AgentFrames)]
    BY <1>3, <1>13, <2>2, RoutineFrames DEF ReceiveCommand
  <2>4. SocketsType'
    BY <1>1, <1>13, <2>2, <2>3 DEF ReceiveCommand, SocketsType
  <2>5. /\ executing' \in [Ids -> Nat] /\ answering' \in [Ids -> Nat]
        /\ overlap' \in [Ids -> Nat]
    <3>1. HandleCommand(Head(toAgent[c]).id)
      BY <1>13 DEF ReceiveCommand
    <3>2. PICK id \in Ids : id = Head(toAgent[c]).id
      BY <2>2
    <3>3. executing[id] + 1 \in Nat /\ answering[id] + 1 \in Nat
      BY <1>1 DEF RuntimeType
    <3>4. Most(overlap[id], executing[id] + 1) \in Nat
      BY <1>1, <3>3 DEF Most, RuntimeType
    <3>5. CASE id \in handledCommands
      BY <1>1, <3>1, <3>2, <3>3, <3>5 DEF HandleCommand, RuntimeType
    <3>6. CASE id \notin handledCommands
      BY <1>1, <3>1, <3>2, <3>3, <3>4, <3>6 DEF HandleCommand, RuntimeType
    <3>7. QED
      BY <3>5, <3>6
  <2>6. RuntimeType' /\ DialHasAttempt'
    BY <1>1, <1>13, <2>5 DEF ReceiveCommand, RuntimeType, DialHasAttempt
  <2>7. QED
    BY <2>4, <2>6
<1>14. ASSUME NEW id \in Ids, Answer(id)
       PROVE  SocketsType' /\ RuntimeType' /\ DialHasAttempt'
  <2>1. toController' \in [Conns -> Seq(AgentFrames)]
    BY <1>3, <1>14, RoutineFrames DEF Answer
  <2>2. SocketsType'
    BY <1>1, <1>14, <2>1 DEF Answer, SocketsType
  <2>3. answering' \in [Ids -> Nat]
    BY <1>1, <1>14 DEF Answer, RuntimeType
  <2>4. RuntimeType' /\ DialHasAttempt'
    BY <1>1, <1>14, <2>3 DEF Answer, RuntimeType, DialHasAttempt
  <2>5. QED
    BY <2>2, <2>4
<1>15. ASSUME NEW id \in Ids, NEW ok \in BOOLEAN, Execute(id, ok)
       PROVE  SocketsType' /\ RuntimeType' /\ DialHasAttempt'
  <2>1. executing' \in [Ids -> Nat] /\ answering' \in [Ids -> Nat]
    BY <1>1, <1>15 DEF Execute, RuntimeType
  <2>2. ok => driven[id] + 1 \in 0..MaxDriven
    BY <1>2, <1>15 DEF Execute
  <2>3. driven' \in [Ids -> 0..MaxDriven] /\ handledCommands' \subseteq Ids
    BY <1>1, <1>15, <2>2 DEF Execute, RuntimeType
  <2>4. SocketsType'
    BY <1>1, <1>15 DEF Execute, sockets, SocketsType
  <2>5. RuntimeType' /\ DialHasAttempt'
    BY <1>1, <1>15, <2>1, <2>3 DEF Execute, RuntimeType, DialHasAttempt
  <2>6. QED
    BY <2>4, <2>5
<1>16. CASE PushObservedState
  <2>1. toController' \in [Conns -> Seq(AgentFrames)]
    BY <1>3, <1>16, RoutineFrames DEF PushObservedState
  <2>2. reads' \in Nat
    BY <1>2, <1>16 DEF PushObservedState
  <2>3. QED
    BY <1>1, <1>16, <2>1, <2>2 DEF PushObservedState, commands, SocketsType, RuntimeType, DialHasAttempt
<1>17. CASE Tick
  <2>1. reads' \in Nat
    BY <1>2, <1>17 DEF Tick
  <2>2. QED
    BY <1>1, <1>17, <2>1 DEF Tick, commands, sockets, SocketsType, RuntimeType, DialHasAttempt
<1>18. CASE Stop
  <2>1. toController' \in [Conns -> Seq(AgentFrames)]
    BY <1>1, <1>3, <1>18, RoutineFrames DEF Stop, SocketsType
  <2>2. agentSock' \in [Conns -> SocketStates]
    <3>1. agentSock' = agentSock \/ (transport \in Conns /\ agentSock' = Closing(agentSock, transport))
      BY <1>1, <1>18 DEF Stop, RuntimeType
    <3>2. agentSock \in [Conns -> SocketStates]
      BY <1>1 DEF SocketsType
    <3>3. transport \in Conns => Closing(agentSock, transport) \in [Conns -> SocketStates]
      BY <3>2, ClosingEffect
    <3>4. QED
      BY <3>1, <3>2, <3>3
  <2>3. SocketsType'
    BY <1>1, <1>18, <2>1, <2>2 DEF Stop, SocketsType
  <2>4. RuntimeType' /\ DialHasAttempt'
    BY <1>1, <1>18 DEF Stop, commands, RuntimeType, DialHasAttempt
  <2>5. QED
    BY <2>3, <2>4
<1>19. QED
  BY <1>4, <1>5, <1>6, <1>7, <1>8, <1>10, <1>11, <1>12, <1>13, <1>14, <1>15, <1>16, <1>17, <1>18

(* handleClose forgets at most a connection. *)
LEMMA HandleCloseType ==
  ASSUME Gateway!GatewayType, NEW c \in Conns, Gateway!HandleClose(c)
  PROVE  Gateway!GatewayType'
<1>1. PeerOf[c] \in Agents
  BY SameSockets
<1>2. byAgentId' \in [Agents -> Conns \cup {None}]
  BY <1>1 DEF Gateway!HandleClose, Gateway!Forget, Gateway!GatewayType
<1>3. QED
  BY <1>1, <1>2 DEF Gateway!HandleClose, Gateway!GatewayType

(* A frame that arrives at the controller is one of an agent. *)
LEMMA GatewayReceives ==
  ASSUME SocketsType, NEW c \in Conns, NEW kinds, Gateway!Receive(c, kinds)
  PROVE  /\ Listening(ctrlSock[c]) /\ toController[c] # <<>>
         /\ Head(toController[c]) \in AgentFrames /\ Head(toController[c]).kind \in kinds
         /\ toController' \in [Conns -> Seq(AgentFrames)]
         /\ toController'[c] = Tail(toController[c])
         /\ \A d \in Conns \ {c} : toController'[d] = toController[d]
<1>1. /\ Listening(ctrlSock[c]) /\ toController[c] # <<>>
      /\ Head(toController[c]).kind \in kinds
      /\ toController' = Received(toController, c)
  BY SameSockets DEF Gateway!Receive
<1>2. toController \in [Conns -> Seq(AgentFrames)]
  BY DEF SocketsType
<1>3. /\ Head(toController[c]) \in AgentFrames
      /\ Received(toController, c) \in [Conns -> Seq(AgentFrames)]
      /\ Received(toController, c)[c] = Tail(toController[c])
      /\ \A d \in Conns \ {c} : Received(toController, c)[d] = toController[d]
  BY <1>1, <1>2, ReceivedType
<1>4. QED
  BY <1>1, <1>3

(* One frame, or two, sent by the controller. *)
LEMMA GatewaySendsType ==
  ASSUME NEW stream \in [Conns -> Seq(ControllerFrames)], NEW c \in Conns
  PROVE  /\ \A f \in ControllerFrames :
              Gateway!ControllerSends(stream, c, <<f>>) \in [Conns -> Seq(ControllerFrames)]
         /\ \A f, g \in ControllerFrames :
              Gateway!ControllerSends(stream, c, <<f, g>>) \in [Conns -> Seq(ControllerFrames)]
<1>1. ASSUME NEW frames \in Seq(ControllerFrames)
      PROVE  Gateway!ControllerSends(stream, c, frames) \in [Conns -> Seq(ControllerFrames)]
  BY ControllerSendsType, SameSockets
<1>2. \A f, g \in ControllerFrames : <<f>> \in Seq(ControllerFrames) /\ <<f, g>> \in Seq(ControllerFrames)
  OBVIOUS
<1>3. QED
  BY <1>1, <1>2

LEMMA GatewayKeepsTypes ==
  ASSUME SessionTypes, Gateway!GatewaySteps, UNCHANGED runtime
  PROVE  SessionTypes'
<1>1. SocketsType /\ RuntimeType /\ Gateway!GatewayType /\ DialHasAttempt
  BY DEF SessionTypes, TypeOK
<1>2. RuntimeType' /\ DialHasAttempt'
  BY <1>1 DEF runtime, commands, RuntimeType, DialHasAttempt
<1>3. /\ ctrlSock \in [Conns -> SocketStates] /\ agentSock \in [Conns -> SocketStates]
      /\ toController \in [Conns -> Seq(AgentFrames)]
      /\ toAgent \in [Conns -> Seq(ControllerFrames)]
      /\ broken \subseteq Conns
  BY <1>1 DEF SocketsType
<1>4. \A kind \in {"welcome", "reject", "refresh", "close"} :
        Gateway!Frame(kind) \in ControllerFrames
  BY FramesAreFrames, SameSockets
<1>5. \A c \in Conns : PeerOf[c] \in Agents
  BY SameSockets
<1>6. \A c \in Conns : Gateway!Closing(ctrlSock, c) \in [Conns -> SocketStates]
  BY <1>3, ClosingEffect, SameSockets
<1>7. ASSUME NEW c \in Conns, Gateway!HandleHello(c)
      PROVE  SocketsType' /\ Gateway!GatewayType'
  <2> DEFINE previous == byAgentId[PeerOf[c]]
             welcomed == Gateway!ControllerSends(toAgent, c, <<Gateway!Frame("welcome")>>)
  <2>1. toController' \in [Conns -> Seq(AgentFrames)]
    BY <1>1, <1>7, GatewayReceives DEF Gateway!HandleHello
  <2>2. welcomed \in [Conns -> Seq(ControllerFrames)]
    BY <1>3, <1>4, GatewaySendsType
  <2>3. previous \in Conns \cup {None}
    BY <1>1, <1>5 DEF Gateway!GatewayType
  <2>4. previous # None =>
          Gateway!ControllerSends(welcomed, previous, <<Gateway!Frame("close")>>)
            \in [Conns -> Seq(ControllerFrames)]
    <3> HIDE DEF welcomed, previous
    <3>1. Gateway!Frame("close") \in ControllerFrames
      BY <1>4
    <3>2. QED
      BY <2>2, <2>3, <3>1, GatewaySendsType
  <2>5. /\ toAgent' \in {welcomed, Gateway!ControllerSends(welcomed, previous, <<Gateway!Frame("close")>>)}
        /\ previous = None => toAgent' = welcomed
    BY <1>7 DEF Gateway!HandleHello
  <2>6. toAgent' \in [Conns -> Seq(ControllerFrames)]
    BY <2>2, <2>4, <2>5
  <2>7. ctrlSock' \in [Conns -> SocketStates]
    <3>1. ctrlSock' = ctrlSock \/ (previous \in Conns /\ ctrlSock' = Gateway!Closing(ctrlSock, previous))
      BY <1>7, <2>3 DEF Gateway!HandleHello
    <3>2. QED
      BY <1>3, <1>6, <3>1
  <2>8. SocketsType'
    BY <1>3, <1>7, <2>1, <2>6, <2>7 DEF Gateway!HandleHello, SocketsType
  <2>9. Gateway!GatewayType'
    BY <1>1, <1>5, <1>7 DEF Gateway!HandleHello, Gateway!Replace, Gateway!GatewayType
  <2>10. QED
    BY <2>8, <2>9
<1>8. ASSUME NEW c \in Conns, Gateway!RejectUnknown(c)
      PROVE  SocketsType' /\ Gateway!GatewayType'
  <2>1. toController' \in [Conns -> Seq(AgentFrames)]
    BY <1>1, <1>8, GatewayReceives DEF Gateway!RejectUnknown
  <2>2. Gateway!ControllerSends(toAgent, c, <<Gateway!Frame("reject"), Gateway!Frame("close")>>)
          \in [Conns -> Seq(ControllerFrames)]
    BY <1>3, <1>4, GatewaySendsType
  <2>3. SocketsType'
    BY <1>3, <1>6, <1>8, <2>1, <2>2 DEF Gateway!RejectUnknown, SocketsType
  <2>4. Gateway!GatewayType'
    BY <1>1, <1>8 DEF Gateway!RejectUnknown, Gateway!gateway, Gateway!GatewayType
  <2>5. QED
    BY <2>3, <2>4
<1>9. ASSUME NEW c \in Conns, Gateway!HandleBeat(c)
      PROVE  SocketsType' /\ Gateway!GatewayType'
  <2>1. toController' \in [Conns -> Seq(AgentFrames)]
    BY <1>1, <1>9, GatewayReceives DEF Gateway!HandleBeat
  <2>2. QED
    BY <1>1, <1>3, <1>5, <1>9, <2>1
    DEF Gateway!HandleBeat, Gateway!MarkAgentSeen, SocketsType, Gateway!GatewayType
<1>10. ASSUME NEW c \in Conns, Gateway!HandleResult(c)
       PROVE  SocketsType' /\ Gateway!GatewayType'
  <2>1. toController' \in [Conns -> Seq(AgentFrames)]
    BY <1>1, <1>10, GatewayReceives DEF Gateway!HandleResult
  <2>2. toAgent' \in [Conns -> Seq(ControllerFrames)]
    <3>1. ASSUME NEW a \in Agents, Gateway!CanSend(a)
          PROVE  Gateway!ControllerSends(toAgent, byAgentId[a], <<Gateway!Frame("refresh")>>)
                   \in [Conns -> Seq(ControllerFrames)]
      <4>1. byAgentId[a] \in Conns
        BY <1>1, <3>1 DEF Gateway!CanSend, Gateway!GatewayType
      <4>2. Gateway!Frame("refresh") \in ControllerFrames
        BY <1>4
      <4>3. QED
        BY <1>3, <4>1, <4>2, GatewaySendsType
    <3>2. \/ toAgent' = toAgent
          \/ \E a \in Agents :
               /\ Gateway!CanSend(a)
               /\ toAgent' = Gateway!ControllerSends(toAgent, byAgentId[a], <<Gateway!Frame("refresh")>>)
      BY <1>10 DEF Gateway!HandleResult
    <3>3. QED
      BY <1>3, <3>1, <3>2
  <2>3. SocketsType'
    BY <1>3, <1>10, <2>1, <2>2 DEF Gateway!HandleResult, SocketsType
  <2>4. Gateway!GatewayType'
    BY <1>1, <1>5, <1>10 DEF Gateway!HandleResult, Gateway!MarkAgentSeen, Gateway!GatewayType
  <2>5. QED
    BY <2>3, <2>4
<1>11. ASSUME NEW c \in Conns
       PROVE  Gateway!ControllerSends(toAgent, c, <<Gateway!Frame("close")>>)
                \in [Conns -> Seq(ControllerFrames)]
  BY <1>3, <1>4, GatewaySendsType
<1>12. ASSUME NEW c \in Conns
       PROVE  [ctrlSock EXCEPT ![c] = "closed"] \in [Conns -> SocketStates]
  BY <1>3 DEF SocketStates
<1>13. ASSUME NEW c \in Conns, Gateway!SocketClosed(c)
       PROVE  SocketsType' /\ Gateway!GatewayType'
  <2>1. toController' \in [Conns -> Seq(AgentFrames)]
    BY <1>1, <1>13, GatewayReceives DEF Gateway!SocketClosed
  <2>2. SocketsType'
    BY <1>3, <1>11, <1>12, <1>13, <2>1 DEF Gateway!SocketClosed, SocketsType
  <2>3. QED
    BY <1>1, <1>13, <2>2, HandleCloseType DEF Gateway!SocketClosed
<1>14. ASSUME NEW c \in Conns, Gateway!SocketFails(c)
       PROVE  SocketsType' /\ Gateway!GatewayType'
  <2>1. SocketsType'
    BY <1>3, <1>12, <1>14 DEF Gateway!SocketFails, SocketsType
  <2>2. QED
    BY <1>1, <1>14, <2>1, HandleCloseType DEF Gateway!SocketFails
<1>15. ASSUME NEW c \in Conns, Gateway!Sweep(c)
       PROVE  SocketsType' /\ Gateway!GatewayType'
  <2>1. toController' \in [Conns -> Seq(AgentFrames)]
    BY <1>3, <1>15 DEF Gateway!Sweep
  <2>2. SocketsType'
    BY <1>3, <1>11, <1>12, <1>15, <2>1 DEF Gateway!Sweep, SocketsType
  <2>3. QED
    BY <1>1, <1>15, <2>2, HandleCloseType DEF Gateway!Sweep
<1>16. ASSUME NEW a \in Agents, NEW id \in Ids, Gateway!SendCommand(a, id)
       PROVE  SocketsType' /\ Gateway!GatewayType'
  <2>1. byAgentId[a] \in Conns
    BY <1>1, <1>16 DEF Gateway!SendCommand, Gateway!CanSend, Gateway!GatewayType
  <2>2. Gateway!FrameFor("command", id) \in ControllerFrames
    BY FramesAreFrames, SameSockets
  <2>3. toAgent' \in [Conns -> Seq(ControllerFrames)]
    BY <1>3, <1>16, <2>1, <2>2, GatewaySendsType DEF Gateway!SendCommand
  <2>4. SocketsType'
    BY <1>3, <1>16, <2>3 DEF Gateway!SendCommand, SocketsType
  <2>5. Gateway!GatewayType'
    BY <1>1, <1>16 DEF Gateway!SendCommand, Gateway!GatewayType
  <2>6. QED
    BY <2>4, <2>5
<1>17. ASSUME NEW a \in Agents, NEW id \in Ids, Gateway!CommandEnds(a, id)
       PROVE  SocketsType' /\ Gateway!GatewayType'
  <2>1. SocketsType'
    BY <1>3, <1>17 DEF Gateway!CommandEnds, Gateway!sockets, SocketsType
  <2>2. Gateway!GatewayType'
    BY <1>1, <1>17 DEF Gateway!CommandEnds, Gateway!GatewayType
  <2>3. QED
    BY <2>1, <2>2
<1>18. SocketsType' /\ Gateway!GatewayType'
  BY <1>7, <1>8, <1>9, <1>10, <1>13, <1>14, <1>15, <1>16, <1>17 DEF Gateway!GatewaySteps
<1>19. QED
  BY <1>2, <1>18 DEF SessionTypes, TypeOK

(* The network cuts both streams of a connection. *)
LEMMA BreakKeepsTypes ==
  ASSUME SessionTypes, NEW c \in Conns, Breaks(c)
  PROVE  SessionTypes'
<1>1. SocketsType /\ RuntimeType /\ Gateway!GatewayType /\ DialHasAttempt
  BY DEF SessionTypes, TypeOK
<1>2. toController' \in [Conns -> Seq(AgentFrames)]
  BY <1>1, CutType DEF Breaks, Break, SocketsType
<1>3. toAgent' \in [Conns -> Seq(ControllerFrames)]
  BY <1>1, CutType DEF Breaks, Break, SocketsType
<1>4. SocketsType'
  BY <1>1, <1>2, <1>3 DEF Breaks, Break, SocketsType
<1>5. RuntimeType' /\ DialHasAttempt'
  BY <1>1 DEF Breaks, runtime, commands, RuntimeType, DialHasAttempt
<1>6. Gateway!GatewayType'
  BY <1>1 DEF Breaks, gateway, Gateway!GatewayType
<1>7. QED
  BY <1>4, <1>5, <1>6 DEF SessionTypes, TypeOK

THEOREM SessionTypesStep == SessionTypes /\ [Next]_vars => SessionTypes'
<1> SUFFICES ASSUME SessionTypes, [Next]_vars PROVE SessionTypes'
  OBVIOUS
<1>1. SocketsType /\ RuntimeType /\ Gateway!GatewayType /\ DialHasAttempt
  BY DEF SessionTypes, TypeOK
<1>2. CASE Opens
  <2>1. attempt \in Conns
    BY <1>1, <1>2 DEF Opens, Connected, DialHasAttempt
  <2>2. SocketsType' /\ RuntimeType' /\ DialHasAttempt'
    BY <1>2, RuntimeKeepsTypes DEF Opens
  <2>3. Gateway!GatewayType'
    BY <1>1, <1>2, <2>1 DEF Opens, Gateway!GatewayType
  <2>4. QED
    BY <2>2, <2>3 DEF SessionTypes, TypeOK
<1>3. CASE Controller
  BY <1>3, GatewayKeepsTypes DEF Controller
<1>4. CASE AgentWorks
  <2>1. SocketsType' /\ RuntimeType' /\ DialHasAttempt'
    BY <1>4, RuntimeKeepsTypes DEF AgentWorks
  <2>2. Gateway!GatewayType'
    BY <1>1, <1>4 DEF AgentWorks, gateway, Gateway!GatewayType
  <2>3. QED
    BY <2>1, <2>2 DEF SessionTypes, TypeOK
<1>5. ASSUME NEW c \in Conns, Breaks(c)
      PROVE  SessionTypes'
  BY <1>5, BreakKeepsTypes
<1>6. CASE UNCHANGED vars
  BY <1>1, <1>6 DEF vars, sockets, gateway, runtime, commands, SessionTypes, TypeOK, SocketsType, RuntimeType,
     Gateway!GatewayType, DialHasAttempt
<1>7. QED
  BY <1>2, <1>3, <1>4, <1>5, <1>6 DEF Next

(* Every variable of the agent, the gateway and their connections keeps its type. *)
THEOREM SessionKeepsTypes == Spec => []TypeOK
<1>1. SessionTypes => TypeOK
  BY DEF SessionTypes
<1>2. QED
  BY <1>1, SessionTypesInit, SessionTypesStep, PTL DEF Spec

-----------------------------------------------------------------------------
(* One session: the invariant *)

HasHello(stream) == \E i \in 1..Len(stream) : stream[i].kind = "hello"
OneHello(stream) ==
  \A i, j \in 1..Len(stream) : stream[i].kind = "hello" /\ stream[j].kind = "hello" => i = j

(* A hello is said once on a connection, and none is under way once one was accepted. *)
HelloOnce ==
  \A c \in Conns : OneHello(toController[c]) /\ (HasHello(toController[c]) => c \notin registered)

(* While discovery runs, hello is still to be said on the connection just opened, if that is left. *)
HelloIsDue ==
  dial = "discovering" =>
    /\ transport \in {attempt, None}
    /\ attempt \notin registered
    /\ ~HasHello(toController[attempt])

(* The gateway knows nothing of a connection that the agent has not opened. *)
FreshIsUnknown ==
  \A c \in Conns : agentSock[c] = "fresh" =>
    ctrlSock[c] = "fresh" /\ c \notin connections \cup registered /\ toController[c] = <<>>

(* A connection that still hands over frames and never said hello was not given up. *)
StrangersAreTracked ==
  \A c \in Conns : Listening(ctrlSock[c]) /\ c \notin registered => c \in connections

(***************************************************************************)
(* Inductive for OneSession.  The gateway trusts a hello: were one read on *)
(* a connection it has given up, the agent would have a session that no    *)
(* close event ends.  That none arrives there is the agent's doing, which  *)
(* says hello once for each connection it opens, and not on a later one.   *)
(***************************************************************************)
SessionInv ==
  /\ SessionTypes
  /\ HelloOnce
  /\ HelloIsDue
  /\ FreshIsUnknown
  /\ StrangersAreTracked
  /\ OneSession

(* What OneSession says of the one agent: tracked and known is the connection byAgentId names. *)
LEMMA SessionOfAgent ==
  ASSUME NEW tracked \in SUBSET Conns, NEW known, NEW named
  PROVE  (\A a \in Agents : {c \in tracked \cap known : PeerOf[c] = a}
                              = IF named[a] = None THEN {} ELSE {named[a]})
         <=> tracked \cap known = IF named[Agent] = None THEN {} ELSE {named[Agent]}
<1>1. {c \in tracked \cap known : PeerOf[c] = Agent} = tracked \cap known
  BY SameSockets
<1>2. QED
  BY <1>1, SameSockets

LEMMA SessionIsNamed ==
  ASSUME SessionTypes, OneSession
  PROVE  connections \cap registered = IF byAgentId[Agent] = None THEN {} ELSE {byAgentId[Agent]}
<1>1. connections \in SUBSET Conns
  BY DEF SessionTypes, TypeOK, Gateway!GatewayType
<1>2. \A a \in Agents : {c \in connections \cap registered : PeerOf[c] = a}
                            = IF byAgentId[a] = None THEN {} ELSE {byAgentId[a]}
  BY DEF OneSession
<1>3. {c \in connections \cap registered : PeerOf[c] = Agent} = connections \cap registered
  BY <1>1, SameSockets
<1>4. QED
  BY <1>2, <1>3, SameSockets

-----------------------------------------------------------------------------
(* Streams and hellos *)

(* A stream that says no hello the old one did not say. *)
NoNewHello(old, new) ==
  /\ HasHello(new) => HasHello(old)
  /\ OneHello(old) => OneHello(new)

LEMMA NoNewHelloIfSame ==
  ASSUME NEW stream PROVE NoNewHello(stream, stream)
BY DEF NoNewHello

LEMMA EmptyIsSilent == ~HasHello(<<>>) /\ OneHello(<<>>)
BY DEF HasHello, OneHello

(* Other frames than a hello are sent. *)
LEMMA SendingOther ==
  ASSUME NEW stream \in Seq(AgentFrames), NEW fs \in Seq(Routine)
  PROVE  NoNewHello(stream, stream \o fs)
<1> DEFINE new == stream \o fs
<1>1. /\ fs \in Seq(AgentFrames) /\ Len(fs) \in Nat /\ Len(stream) \in Nat
      /\ \A i \in 1..Len(fs) : fs[i].kind # "hello"
  BY RoutineFrames DEF Routine
<1>2. /\ Len(new) = Len(stream) + Len(fs)
      /\ \A i \in 1..Len(stream) + Len(fs) :
           new[i] = IF i <= Len(stream) THEN stream[i] ELSE fs[i - Len(stream)]
  BY <1>1, ConcatProperties
<1> HIDE DEF new
<1>3. \A i \in 1..Len(new) : new[i].kind = "hello" => i \in 1..Len(stream) /\ new[i] = stream[i]
  BY <1>1, <1>2
<1>4. QED
  BY <1>3 DEF NoNewHello, HasHello, OneHello, new

(* The first hello is sent. *)
LEMMA SendingHello ==
  ASSUME NEW stream \in Seq(AgentFrames), NEW f \in AgentFrames, ~HasHello(stream)
  PROVE  OneHello(stream \o <<f>>)
<1> DEFINE new == stream \o <<f>>
<1>1. <<f>> \in Seq(AgentFrames) /\ Len(<<f>>) = 1 /\ <<f>>[1] = f /\ Len(stream) \in Nat
  OBVIOUS
<1>2. /\ Len(new) = Len(stream) + 1
      /\ \A i \in 1..Len(stream) + 1 :
           new[i] = IF i <= Len(stream) THEN stream[i] ELSE <<f>>[i - Len(stream)]
  BY <1>1, ConcatProperties
<1> HIDE DEF new
<1>3. \A i \in 1..Len(new) : new[i].kind = "hello" => i = Len(stream) + 1
  BY <1>1, <1>2 DEF HasHello
<1>4. QED
  BY <1>3 DEF OneHello, new

(* The next frame is read; with one hello on the way, none is left after it. *)
LEMMA ReadingNext ==
  ASSUME NEW stream \in Seq(AgentFrames), stream # <<>>
  PROVE  /\ NoNewHello(stream, Tail(stream))
         /\ OneHello(stream) /\ Head(stream).kind = "hello" => ~HasHello(Tail(stream))
<1>1. /\ Len(Tail(stream)) = Len(stream) - 1
      /\ \A i \in 1..Len(Tail(stream)) : Tail(stream)[i] = stream[i + 1]
  BY HeadTailProperties
<1>2. Len(stream) \in Nat /\ Len(stream) > 0 /\ Head(stream) = stream[1]
  OBVIOUS
<1>3. \A i \in 1..Len(Tail(stream)) :
        i + 1 \in 1..Len(stream) /\ i + 1 # 1 /\ Tail(stream)[i] = stream[i + 1]
  BY <1>1, <1>2
<1>4. 1 \in 1..Len(stream)
  BY <1>2
<1>5. NoNewHello(stream, Tail(stream))
  <2>1. HasHello(Tail(stream)) => HasHello(stream)
    BY <1>3 DEF HasHello
  <2>2. \A i, j \in 1..Len(Tail(stream)) : i + 1 = j + 1 => i = j
    BY <1>1, <1>2
  <2>3. OneHello(stream) => OneHello(Tail(stream))
    BY <1>3, <2>2 DEF OneHello
  <2>4. QED
    BY <2>1, <2>3 DEF NoNewHello
<1>6. OneHello(stream) /\ Head(stream).kind = "hello" => ~HasHello(Tail(stream))
  BY <1>2, <1>3, <1>4 DEF OneHello, HasHello
<1>7. QED
  BY <1>5, <1>6

(* A break keeps a first part of the stream. *)
LEMMA CuttingOff ==
  ASSUME NEW stream \in Seq(AgentFrames), NEW kept \in 0..Len(stream)
  PROVE  NoNewHello(stream, SubSeq(stream, 1, kept))
<1>1. /\ Len(SubSeq(stream, 1, kept)) = kept
      /\ \A i \in 1..kept : SubSeq(stream, 1, kept)[i] = stream[i]
  BY CutType
<1>2. \A i \in 1..kept : i \in 1..Len(stream)
  OBVIOUS
<1>3. QED
  BY <1>1, <1>2 DEF NoNewHello, HasHello, OneHello

(* What the agent sends besides hello. *)
LEMMA SentIsQuiet ==
  ASSUME SessionTypes, NEW fs \in Seq(Routine), NEW d \in Conns
  PROVE  /\ NoNewHello(toController[d], Sent(fs)[d])
         /\ agentSock[d] = "fresh" => Sent(fs)[d] = toController[d]
<1>1. toController[d] \in Seq(AgentFrames) /\ fs \in Seq(AgentFrames)
  BY RoutineFrames DEF SessionTypes, TypeOK, SocketsType
<1>2. \/ Sent(fs)[d] = toController[d]
      \/ agentSock[d] = "open" /\ Sent(fs)[d] = toController[d] \o fs
  BY <1>1, SentEffect
<1>3. QED
  BY <1>1, <1>2, NoNewHelloIfSame, SendingOther

-----------------------------------------------------------------------------
(* One session: the steps *)

THEOREM SessionInvInit == Init => SessionInv
<1> SUFFICES ASSUME Init PROVE SessionInv
  OBVIOUS
<1>1. SessionTypes
  BY SessionTypesInit
<1>2. /\ connections = {} /\ registered = {} /\ byAgentId = [a \in Agents |-> None]
      /\ dial = "dialing"
      /\ \A c \in Conns : ctrlSock[c] = "fresh" /\ toController[c] = <<>>
  BY DEF Init, SocketsInit, Gateway!GatewayInit, RuntimeInit
<1>3. HelloOnce /\ HelloIsDue
  BY <1>2, EmptyIsSilent DEF HelloOnce, HelloIsDue
<1>4. FreshIsUnknown /\ StrangersAreTracked /\ OneSession
  BY <1>2 DEF FreshIsUnknown, StrangersAreTracked, Listening, OneSession
<1>5. QED
  BY <1>1, <1>3, <1>4 DEF SessionInv

(***************************************************************************)
(* A step that opens no connection, says no hello and leaves the gateway's *)
(* books alone.                                                            *)
(***************************************************************************)
LEMMA QuietStep ==
  ASSUME SessionInv, SessionTypes',
         UNCHANGED <<connections, registered, byAgentId>>,
         \A c \in Conns : NoNewHello(toController[c], toController'[c]),
         \A c \in Conns : agentSock'[c] = "fresh" =>
           agentSock[c] = "fresh" /\ toController'[c] = toController[c],
         \A c \in Conns : Listening(ctrlSock'[c]) => Listening(ctrlSock[c]),
         \A c \in Conns : ctrlSock[c] = "fresh" => ctrlSock'[c] = "fresh",
         dial' = "discovering" =>
           dial = "discovering" /\ attempt' = attempt /\ transport' \in {transport, None}
  PROVE  SessionInv'
<1>1. HelloOnce'
  BY DEF SessionInv, HelloOnce, NoNewHello
<1>2. HelloIsDue'
  BY DEF SessionInv, HelloIsDue, NoNewHello, SessionTypes, DialHasAttempt
<1>3. FreshIsUnknown'
  BY DEF SessionInv, FreshIsUnknown
<1>4. StrangersAreTracked'
  BY DEF SessionInv, StrangersAreTracked
<1>5. OneSession'
  BY DEF SessionInv, OneSession
<1>6. QED
  BY <1>1, <1>2, <1>3, <1>4, <1>5 DEF SessionInv

(* The steps of the agent, but for opening a connection and saying hello. *)
LEMMA AgentIsQuiet ==
  ASSUME SessionInv, SessionTypes', UNCHANGED gateway,
         \/ ConnectFails \/ Reconnect
         \/ \E c \in Conns :
              \/ SocketLost(c) \/ ReceiveClose(c) \/ ReceiveWelcome(c)
              \/ ReceiveReject(c) \/ ReceiveRefresh(c) \/ ReceiveCommand(c)
         \/ \E id \in Ids : Answer(id) \/ \E ok \in BOOLEAN : Execute(id, ok)
         \/ PushObservedState \/ Tick \/ Stop
  PROVE  SessionInv'
<1>1. SessionTypes /\ SocketsType
  BY DEF SessionInv, SessionTypes, TypeOK
<1>2. ctrlSock' = ctrlSock
  BY DEF ConnectFails, Reconnect, SocketLost, ReceiveClose, ReceiveWelcome, ReceiveReject,
         ReceiveRefresh, ReceiveCommand, Answer, Execute, PushObservedState, Tick, Stop, sockets
<1>3. /\ agentSock \in [Conns -> SocketStates]
      /\ \A c, d \in Conns : Closing(agentSock, c)[d] = "fresh" => agentSock[d] = "fresh"
  BY <1>1 DEF SocketsType, Closing
<1>4. transport \in Conns \cup {None}
  BY <1>1 DEF SessionTypes, TypeOK, RuntimeType
<1>5. ASSUME NEW c \in Conns, agentSock'[c] = "fresh"
      PROVE  agentSock[c] = "fresh"
  <2>1. \/ agentSock' = agentSock
        \/ \E d \in Conns : agentSock' = [agentSock EXCEPT ![d] = "closed"]
        \/ \E d \in Conns : agentSock' = Closing(agentSock, d)
    BY <1>4
    DEF ConnectFails, Reconnect, SocketLost, ReceiveClose, ReceiveWelcome, ReceiveReject,
        ReceiveRefresh, ReceiveCommand, Answer, Execute, PushObservedState, Tick, Stop, sockets
  <2>2. QED
    BY <1>3, <1>5, <2>1
<1>6. ASSUME NEW c \in Conns
      PROVE  /\ NoNewHello(toController[c], toController'[c])
             /\ agentSock[c] = "fresh" => toController'[c] = toController[c]
  <2>1. ASSUME NEW fs \in Seq(Routine), toController' = Sent(fs)
        PROVE  /\ NoNewHello(toController[c], toController'[c])
               /\ agentSock[c] = "fresh" => toController'[c] = toController[c]
    BY <1>1, <2>1, SentIsQuiet
  <2>2. CASE toController' = toController
    BY <2>2, NoNewHelloIfSame
  <2>3. ASSUME NEW d \in Conns, ReceiveClose(d)
        PROVE  /\ NoNewHello(toController[c], toController'[c])
               /\ agentSock[c] = "fresh" => toController'[c] = toController[c]
    <3>1. toController[c] \in Seq(AgentFrames)
      BY <1>1 DEF SocketsType
    <3>2. <<Frame("close")>> \in Seq(Routine)
      BY RoutineFrames
    <3>3. toController' \in {toController, [toController EXCEPT ![d] = @ \o <<Frame("close")>>]}
      BY <2>3 DEF ReceiveClose, AgentSends, Queued
    <3>4. \/ toController'[c] = toController[c]
          \/ agentSock[c] = "open" /\ toController'[c] = toController[c] \o <<Frame("close")>>
      <4>1. toController' # toController => agentSock[d] = "open"
        BY <2>3 DEF ReceiveClose, AgentSends
      <4>2. toController \in [Conns -> Seq(AgentFrames)]
        BY <1>1 DEF SocketsType
      <4>3. QED
        BY <3>3, <4>1, <4>2
    <3>5. QED
      BY <3>1, <3>2, <3>4, NoNewHelloIfSame, SendingOther
  <2>4. ASSUME NEW d \in Conns, ReceiveReject(d)
        PROVE  /\ NoNewHello(toController[c], toController'[c])
               /\ agentSock[c] = "fresh" => toController'[c] = toController[c]
    <3>1. toController' = toController \/ toController' = Sent(<<Frame("close")>>)
      BY <2>4 DEF ReceiveReject
    <3>2. <<Frame("close")>> \in Seq(Routine)
      BY RoutineFrames
    <3>3. QED
      BY <2>1, <2>2, <3>1, <3>2
  <2>5. ASSUME NEW d \in Conns, ReceiveCommand(d)
        PROVE  /\ NoNewHello(toController[c], toController'[c])
               /\ agentSock[c] = "fresh" => toController'[c] = toController[c]
    <3>1. Head(toAgent[d]) \in ControllerFrames /\ Head(toAgent[d]).kind = "command"
      BY <1>1, <2>5, ReceivedType DEF ReceiveCommand, Delivered, SocketsType
    <3>2. Head(toAgent[d]).id \in Ids
      BY <3>1, CommandFramesNameIds
    <3>3. <<FrameFor("ack", Head(toAgent[d]).id)>> \in Seq(Routine)
      BY <3>2, RoutineFrames
    <3>4. toController' = Sent(<<FrameFor("ack", Head(toAgent[d]).id)>>)
      BY <2>5 DEF ReceiveCommand
    <3>5. QED
      BY <2>1, <3>3, <3>4
  <2>6. ASSUME NEW id \in Ids, Answer(id)
        PROVE  /\ NoNewHello(toController[c], toController'[c])
               /\ agentSock[c] = "fresh" => toController'[c] = toController[c]
    BY <2>1, <2>6, RoutineFrames DEF Answer
  <2>7. CASE PushObservedState
    BY <2>1, <2>7, RoutineFrames DEF PushObservedState
  <2>8. CASE Stop
    <3>1. toController' = toController \/ toController' = Sent(<<Frame("close")>>)
      BY <2>8 DEF Stop
    <3>2. <<Frame("close")>> \in Seq(Routine)
      BY RoutineFrames
    <3>3. QED
      BY <2>1, <2>2, <3>1, <3>2
  <2>9. QED
    BY <2>2, <2>3, <2>4, <2>5, <2>6, <2>7, <2>8
    DEF ConnectFails, Reconnect, SocketLost, ReceiveWelcome, ReceiveRefresh, Execute, Tick, sockets
<1>7. dial' = "discovering" =>
        dial = "discovering" /\ attempt' = attempt /\ transport' \in {transport, None}
  <2>1. CASE ConnectFails \/ Reconnect
    BY <2>1 DEF ConnectFails, Reconnect, MayDial
  <2>2. CASE ~(ConnectFails \/ Reconnect)
    BY <2>2 DEF SocketLost, ReceiveClose, ReceiveWelcome, ReceiveReject, OnClose,
       ReceiveRefresh, ReceiveCommand, Answer, Execute, PushObservedState, Tick, Stop, runtime
  <2>3. QED
    BY <2>1, <2>2
<1>8. UNCHANGED <<connections, registered, byAgentId>>
  BY DEF gateway
<1>9. QED
  BY <1>2, <1>5, <1>6, <1>7, <1>8, QuietStep

(* A connection opens: nothing is known of it yet, and it is tracked from now on. *)
LEMMA OpeningKeepsSession ==
  ASSUME SessionInv, SessionTypes', Opens
  PROVE  SessionInv'
<1>1. /\ attempt \in Conns /\ agentSock[attempt] = "fresh"
      /\ agentSock \in [Conns -> SocketStates] /\ ctrlSock \in [Conns -> SocketStates]
  BY DEF Opens, Connected, SessionInv, SessionTypes, TypeOK, SocketsType, DialHasAttempt
<1>2. /\ ctrlSock[attempt] = "fresh" /\ attempt \notin connections \cup registered
      /\ toController[attempt] = <<>>
  BY <1>1 DEF SessionInv, FreshIsUnknown
<1>3. /\ agentSock' = [agentSock EXCEPT ![attempt] = "open"]
      /\ ctrlSock' = [ctrlSock EXCEPT ![attempt] = "open"]
      /\ connections' = connections \cup {attempt}
      /\ transport' = attempt /\ attempt' = attempt
      /\ UNCHANGED <<toController, registered, byAgentId>>
  BY DEF Opens, Connected
<1>4. HelloOnce'
  BY <1>3 DEF SessionInv, HelloOnce
<1>5. HelloIsDue'
  BY <1>2, <1>3, EmptyIsSilent DEF HelloIsDue
<1>6. FreshIsUnknown' /\ StrangersAreTracked'
  BY <1>1, <1>3 DEF SessionInv, FreshIsUnknown, StrangersAreTracked
<1>7. OneSession'
  <2>1. connections' \cap registered' = connections \cap registered
    BY <1>2, <1>3
  <2>2. QED
    BY <1>3, <2>1 DEF SessionInv, OneSession
<1>8. QED
  BY <1>4, <1>5, <1>6, <1>7 DEF SessionInv

(* Hello goes out on the connection just opened, where it is the first, or nowhere. *)
LEMMA HelloKeepsSession ==
  ASSUME SessionInv, SessionTypes', SendHello, UNCHANGED gateway
  PROVE  SessionInv'
<1>1. SessionTypes
  BY DEF SessionInv
<1>2. /\ dial = "discovering" /\ dial' = "idle"
      /\ toController' = Sent(<<Frame("hello")>>)
      /\ UNCHANGED <<ctrlSock, agentSock, connections, registered, byAgentId>>
  BY DEF SendHello, gateway
<1>3. transport \in {attempt, None} /\ attempt \notin registered /\ ~HasHello(toController[attempt])
  BY <1>2 DEF SessionInv, HelloIsDue
<1>4. ASSUME NEW c \in Conns
      PROVE  \/ toController'[c] = toController[c]
             \/ /\ agentSock[c] = "open" /\ c \notin registered
                /\ OneHello(toController'[c])
  <2>1. Frame("hello") \in AgentFrames /\ <<Frame("hello")>> \in Seq(AgentFrames)
    BY FramesAreFrames
  <2>2. \/ toController'[c] = toController[c]
        \/ /\ c = transport /\ agentSock[c] = "open"
           /\ toController'[c] = toController[c] \o <<Frame("hello")>>
    BY <1>1, <1>2, <2>1, SentEffect
  <2>3. transport # None => transport = attempt
    BY <1>3
  <2>4. c # None
    BY RuntimeAssumption
  <2>5. toController[c] \in Seq(AgentFrames)
    BY <1>1 DEF SessionTypes, TypeOK, SocketsType
  <2>6. CASE /\ c = transport /\ agentSock[c] = "open"
             /\ toController'[c] = toController[c] \o <<Frame("hello")>>
    <3>1. c = attempt
      BY <2>3, <2>4, <2>6
    <3>2. c \notin registered /\ ~HasHello(toController[c])
      BY <1>3, <3>1
    <3>3. OneHello(toController'[c])
      BY <2>1, <2>5, <2>6, <3>2, SendingHello
    <3>4. QED
      BY <2>6, <3>2, <3>3
  <2>7. QED
    BY <2>2, <2>6
<1>5. HelloOnce'
  BY <1>2, <1>4 DEF SessionInv, HelloOnce
<1>6. HelloIsDue'
  BY <1>2 DEF HelloIsDue
<1>7. FreshIsUnknown'
  BY <1>2, <1>4 DEF SessionInv, FreshIsUnknown
<1>8. StrangersAreTracked' /\ OneSession'
  BY <1>2 DEF SessionInv, StrangersAreTracked, OneSession
<1>9. QED
  BY <1>5, <1>6, <1>7, <1>8 DEF SessionInv

(* What a step of the gateway leaves to the agent. *)
LEMMA GatewayLeavesAgent ==
  ASSUME Gateway!GatewaySteps, UNCHANGED runtime
  PROVE  UNCHANGED <<agentSock, dial, attempt, transport>>
BY DEF Gateway!GatewaySteps, Gateway!HandleHello, Gateway!RejectUnknown, Gateway!HandleBeat,
       Gateway!HandleResult, Gateway!SocketClosed, Gateway!SocketFails, Gateway!Sweep,
       Gateway!SendCommand, Gateway!CommandEnds, Gateway!sockets, runtime

(* The gateway reads the next frame of a connection. *)
LEMMA ReadingIsQuiet ==
  ASSUME SessionInv, NEW c \in Conns, NEW kinds, Gateway!Receive(c, kinds)
  PROVE  /\ Listening(ctrlSock[c]) /\ agentSock[c] # "fresh"
         /\ Head(toController[c]).kind \in kinds
         /\ \A d \in Conns : NoNewHello(toController[d], toController'[d])
         /\ \A d \in Conns : agentSock[d] = "fresh" => toController'[d] = toController[d]
         /\ Head(toController[c]).kind = "hello" =>
              /\ c \notin registered
              /\ ~HasHello(toController'[c])
<1>1. SocketsType
  BY DEF SessionInv, SessionTypes, TypeOK
<1>2. /\ Listening(ctrlSock[c]) /\ toController[c] # <<>>
      /\ Head(toController[c]) \in AgentFrames /\ Head(toController[c]).kind \in kinds
      /\ toController' \in [Conns -> Seq(AgentFrames)]
      /\ toController'[c] = Tail(toController[c])
      /\ \A d \in Conns \ {c} : toController'[d] = toController[d]
  BY <1>1, GatewayReceives
<1>3. agentSock[c] # "fresh"
  BY <1>2 DEF SessionInv, FreshIsUnknown
<1>4. toController[c] \in Seq(AgentFrames)
  BY <1>1 DEF SocketsType
<1>5. /\ NoNewHello(toController[c], toController'[c])
      /\ OneHello(toController[c]) /\ Head(toController[c]).kind = "hello"
           => ~HasHello(toController'[c])
  BY <1>2, <1>4, ReadingNext
<1>6. Head(toController[c]).kind = "hello" => HasHello(toController[c])
  <2>1. 1 \in 1..Len(toController[c]) /\ Head(toController[c]) = toController[c][1]
    BY <1>2, <1>4
  <2>2. QED
    BY <2>1 DEF HasHello
<1>7. OneHello(toController[c]) /\ (HasHello(toController[c]) => c \notin registered)
  BY DEF SessionInv, HelloOnce
<1>8. QED
  BY <1>2, <1>3, <1>5, <1>6, <1>7, NoNewHelloIfSame

(***************************************************************************)
(* A hello is accepted.  The connection has been tracked since it opened   *)
(* and said none before, so it is the session now; the one it replaces is  *)
(* tracked no more.                                                        *)
(***************************************************************************)
LEMMA AcceptKeepsSession ==
  ASSUME SessionInv, SessionTypes', NEW c \in Conns, Gateway!HandleHello(c),
         UNCHANGED <<agentSock, dial, attempt, transport>>
  PROVE  SessionInv'
<1> DEFINE previous == byAgentId[Agent]
<1>1. /\ connections \subseteq Conns /\ registered \subseteq Conns
      /\ byAgentId \in [Agents -> Conns \cup {None}] /\ ctrlSock \in [Conns -> SocketStates]
  BY DEF SessionInv, SessionTypes, TypeOK, SocketsType, Gateway!GatewayType
<1>2. /\ Gateway!Receive(c, {"hello"})
      /\ registered' = registered \cup {c}
      /\ byAgentId' = [byAgentId EXCEPT ![Agent] = c]
      /\ IF previous # None /\ previous # c
         THEN connections' = connections \ {previous} /\ ctrlSock' = Closing(ctrlSock, previous)
         ELSE connections' = connections /\ ctrlSock' = ctrlSock
  BY SameSockets DEF Gateway!HandleHello, Gateway!Replace
<1>3. /\ Listening(ctrlSock[c]) /\ agentSock[c] # "fresh"
      /\ c \notin registered /\ ~HasHello(toController'[c])
      /\ \A d \in Conns : NoNewHello(toController[d], toController'[d])
      /\ \A d \in Conns : agentSock[d] = "fresh" => toController'[d] = toController[d]
  <2>1. Head(toController[c]).kind = "hello"
    BY <1>2, ReadingIsQuiet
  <2>2. QED
    BY <1>2, <2>1, ReadingIsQuiet
<1>4. c \in connections
  BY <1>3 DEF SessionInv, StrangersAreTracked
<1>5. connections \cap registered = IF previous = None THEN {} ELSE {previous}
  BY SessionIsNamed DEF SessionInv
<1>6. /\ \A d \in Conns : Listening(ctrlSock'[d]) => Listening(ctrlSock[d])
      /\ \A d \in Conns : ctrlSock[d] = "fresh" => ctrlSock'[d] = "fresh"
  <2>1. previous # None => previous \in Conns
    BY <1>1, SameSockets
  <2>2. QED
    BY <1>1, <1>2, <2>1 DEF Closing, Listening
<1>7. HelloOnce'
  BY <1>2, <1>3 DEF SessionInv, HelloOnce, NoNewHello
<1>8. HelloIsDue'
  <2> SUFFICES ASSUME dial = "discovering"
               PROVE  /\ transport \in {attempt, None}
                      /\ attempt \notin registered'
                      /\ ~HasHello(toController'[attempt])
    BY DEF HelloIsDue
  <2>1. /\ transport \in {attempt, None} /\ attempt \notin registered
        /\ ~HasHello(toController[attempt]) /\ attempt \in Conns
    BY DEF SessionInv, HelloIsDue, SessionTypes, DialHasAttempt
  <2>2. ~HasHello(toController'[attempt])
    BY <1>3, <2>1 DEF NoNewHello
  <2>3. HasHello(toController[c])
    <3>1. toController[c] \in Seq(AgentFrames) /\ toController[c] # <<>>
          /\ Head(toController[c]).kind = "hello"
      BY <1>2, GatewayReceives DEF SessionInv, SessionTypes, TypeOK, SocketsType
    <3>2. 1 \in 1..Len(toController[c]) /\ Head(toController[c]) = toController[c][1]
      BY <3>1
    <3>3. QED
      BY <3>1, <3>2 DEF HasHello
  <2>4. QED
    BY <1>2, <2>1, <2>2, <2>3
<1>9. FreshIsUnknown'
  BY <1>2, <1>3, <1>6 DEF SessionInv, FreshIsUnknown
<1>10. StrangersAreTracked'
  <2>1. previous # None => previous \in registered
    BY <1>5
  <2>2. QED
    BY <1>2, <1>6, <2>1 DEF SessionInv, StrangersAreTracked
<1>11. OneSession'
  <2>1. connections' \cap registered' = {c} /\ byAgentId'[Agent] = c /\ c # None
    BY <1>1, <1>2, <1>4, <1>5, SameSockets, RuntimeAssumption
  <2>2. connections' \in SUBSET Conns
    BY <1>1, <1>2
  <2>3. QED
    BY <2>1, <2>2, SessionOfAgent DEF OneSession
<1>12. QED
  BY <1>7, <1>8, <1>9, <1>10, <1>11 DEF SessionInv

(***************************************************************************)
(* A connection ends.  If it was tracked and known it was the session, and *)
(* handleClose forgets it; otherwise the session stays what it is.         *)
(***************************************************************************)
LEMMA CloseKeepsSession ==
  ASSUME SessionInv, SessionTypes', NEW c \in Conns, Gateway!HandleClose(c),
         UNCHANGED <<agentSock, dial, attempt, transport>>,
         ctrlSock' = [ctrlSock EXCEPT ![c] = "closed"],
         agentSock[c] # "fresh",
         \A d \in Conns : NoNewHello(toController[d], toController'[d]),
         \A d \in Conns : agentSock[d] = "fresh" => toController'[d] = toController[d]
  PROVE  SessionInv'
<1> DEFINE session == byAgentId[Agent]
<1>1. /\ connections \subseteq Conns /\ registered \subseteq Conns
      /\ byAgentId \in [Agents -> Conns \cup {None}] /\ ctrlSock \in [Conns -> SocketStates]
  BY DEF SessionInv, SessionTypes, TypeOK, SocketsType, Gateway!GatewayType
<1>2. /\ connections' = connections \ {c} /\ registered' = registered
      /\ byAgentId' = IF c \in connections /\ c \in registered /\ session = c
                      THEN [byAgentId EXCEPT ![Agent] = None] ELSE byAgentId
  BY SameSockets DEF Gateway!HandleClose, Gateway!Forget
<1>3. connections \cap registered = IF session = None THEN {} ELSE {session}
  BY SessionIsNamed DEF SessionInv
<1>4. HelloOnce'
  BY <1>2 DEF SessionInv, HelloOnce, NoNewHello
<1>5. HelloIsDue'
  BY <1>2 DEF SessionInv, HelloIsDue, NoNewHello, SessionTypes, DialHasAttempt
<1>6. FreshIsUnknown'
  BY <1>1, <1>2 DEF SessionInv, FreshIsUnknown
<1>7. StrangersAreTracked'
  BY <1>1, <1>2 DEF SessionInv, StrangersAreTracked, Listening
<1>8. OneSession'
  <2>1. connections' \cap registered' =
          IF byAgentId'[Agent] = None THEN {} ELSE {byAgentId'[Agent]}
    BY <1>1, <1>2, <1>3, SameSockets, RuntimeAssumption
  <2>2. connections' \in SUBSET Conns
    BY <1>1, <1>2
  <2>3. QED
    BY <2>1, <2>2, SessionOfAgent DEF OneSession
<1>9. QED
  BY <1>4, <1>5, <1>6, <1>7, <1>8 DEF SessionInv

LEMMA GatewayKeepsSession ==
  ASSUME SessionInv, SessionTypes', Gateway!GatewaySteps, UNCHANGED runtime
  PROVE  SessionInv'
<1>1. UNCHANGED <<agentSock, dial, attempt, transport>>
  BY GatewayLeavesAgent
<1>2. ctrlSock \in [Conns -> SocketStates] /\ connections \subseteq Conns
  BY DEF SessionInv, SessionTypes, TypeOK, SocketsType, Gateway!GatewayType
<1>3. ASSUME NEW c \in Conns, Gateway!HandleHello(c) PROVE SessionInv'
  BY <1>1, <1>3, AcceptKeepsSession
<1>4. ASSUME UNCHANGED <<connections, registered, byAgentId, ctrlSock>>,
             NEW c \in Conns, NEW kinds, Gateway!Receive(c, kinds)
      PROVE  SessionInv'
  <2>1. /\ \A d \in Conns : NoNewHello(toController[d], toController'[d])
        /\ \A d \in Conns : agentSock[d] = "fresh" => toController'[d] = toController[d]
    BY <1>4, ReadingIsQuiet
  <2>2. QED
    BY <1>1, <1>4, <2>1, QuietStep
<1>5. ASSUME NEW c \in Conns, Gateway!RejectUnknown(c) PROVE SessionInv'
  <2>1. /\ Gateway!Receive(c, {"beat", "ack", "result"})
        /\ ctrlSock' = Closing(ctrlSock, c)
        /\ UNCHANGED <<connections, registered, byAgentId>>
    BY <1>5, SameSockets DEF Gateway!RejectUnknown, Gateway!gateway
  <2>2. /\ \A d \in Conns : Listening(ctrlSock'[d]) => Listening(ctrlSock[d])
        /\ \A d \in Conns : ctrlSock[d] = "fresh" => ctrlSock'[d] = "fresh"
    BY <1>2, <2>1 DEF Closing, Listening
  <2>3. /\ \A d \in Conns : NoNewHello(toController[d], toController'[d])
        /\ \A d \in Conns : agentSock[d] = "fresh" => toController'[d] = toController[d]
    BY <2>1, ReadingIsQuiet
  <2>4. QED
    BY <1>1, <2>1, <2>2, <2>3, QuietStep
<1>6. ASSUME NEW c \in Conns, Gateway!HandleBeat(c) PROVE SessionInv'
  BY <1>4, <1>6 DEF Gateway!HandleBeat
<1>7. ASSUME NEW c \in Conns, Gateway!HandleResult(c) PROVE SessionInv'
  BY <1>4, <1>7 DEF Gateway!HandleResult
<1>8. ASSUME NEW c \in Conns, Gateway!SocketClosed(c) PROVE SessionInv'
  <2>1. /\ Gateway!Receive(c, {"close"})
        /\ ctrlSock' = [ctrlSock EXCEPT ![c] = "closed"] /\ Gateway!HandleClose(c)
    BY <1>8 DEF Gateway!SocketClosed
  <2>2. /\ agentSock[c] # "fresh"
        /\ \A d \in Conns : NoNewHello(toController[d], toController'[d])
        /\ \A d \in Conns : agentSock[d] = "fresh" => toController'[d] = toController[d]
    BY <2>1, ReadingIsQuiet
  <2>3. QED
    BY <1>1, <2>1, <2>2, CloseKeepsSession
<1>9. ASSUME NEW c \in Conns, Gateway!SocketFails(c) PROVE SessionInv'
  <2>1. /\ Listening(ctrlSock[c]) /\ toController' = toController
        /\ ctrlSock' = [ctrlSock EXCEPT ![c] = "closed"] /\ Gateway!HandleClose(c)
    BY <1>9, SameSockets DEF Gateway!SocketFails
  <2>2. agentSock[c] # "fresh"
    BY <2>1 DEF SessionInv, FreshIsUnknown, Listening
  <2>3. \A d \in Conns : NoNewHello(toController[d], toController'[d])
    BY <2>1, NoNewHelloIfSame
  <2>4. QED
    BY <1>1, <2>1, <2>2, <2>3, CloseKeepsSession
<1>10. ASSUME NEW c \in Conns, Gateway!Sweep(c) PROVE SessionInv'
  <2>1. /\ c \in connections /\ toController' = [toController EXCEPT ![c] = <<>>]
        /\ ctrlSock' = [ctrlSock EXCEPT ![c] = "closed"] /\ Gateway!HandleClose(c)
    BY <1>10 DEF Gateway!Sweep, Gateway!Silent
  <2>2. agentSock[c] # "fresh"
    BY <2>1 DEF SessionInv, FreshIsUnknown
  <2>3. toController \in [Conns -> Seq(AgentFrames)]
    BY DEF SessionInv, SessionTypes, TypeOK, SocketsType
  <2>4. \A d \in Conns : NoNewHello(toController[d], toController'[d])
    <3>1. \A stream : NoNewHello(stream, <<>>)
      BY EmptyIsSilent DEF NoNewHello
    <3>2. \A d \in Conns : toController'[d] = toController[d] \/ toController'[d] = <<>>
      BY <2>1, <2>3
    <3>3. QED
      BY <3>1, <3>2, NoNewHelloIfSame
  <2>5. \A d \in Conns : agentSock[d] = "fresh" => toController'[d] = toController[d]
    BY <2>1, <2>2, <2>3
  <2>6. QED
    BY <1>1, <2>1, <2>2, <2>4, <2>5, CloseKeepsSession
<1>11. ASSUME NEW a \in Agents, NEW id \in Ids, Gateway!SendCommand(a, id) \/ Gateway!CommandEnds(a, id)
       PROVE  SessionInv'
  <2>1. UNCHANGED <<connections, registered, byAgentId, ctrlSock, toController>>
    BY <1>11 DEF Gateway!SendCommand, Gateway!CommandEnds, Gateway!sockets
  <2>2. \A d \in Conns : NoNewHello(toController[d], toController'[d])
    BY <2>1, NoNewHelloIfSame
  <2>3. QED
    BY <1>1, <2>1, <2>2, QuietStep
<1>12. QED
  BY <1>3, <1>5, <1>6, <1>7, <1>8, <1>9, <1>10, <1>11 DEF Gateway!GatewaySteps

THEOREM SessionInvStep == SessionInv /\ [Next]_vars => SessionInv'
<1> SUFFICES ASSUME SessionInv, [Next]_vars PROVE SessionInv'
  OBVIOUS
<1>1. SessionTypes'
  BY SessionTypesStep DEF SessionInv
<1>2. CASE Opens
  BY <1>1, <1>2, OpeningKeepsSession
<1>3. CASE Controller
  BY <1>1, <1>3, GatewayKeepsSession DEF Controller
<1>4. CASE AgentWorks
  BY <1>1, <1>4, HelloKeepsSession, AgentIsQuiet DEF AgentWorks
<1>5. ASSUME NEW c \in Conns, Breaks(c) PROVE SessionInv'
  <2>1. /\ Listening(agentSock[c]) \/ Listening(ctrlSock[c])
        /\ \E kept \in 0..Len(toController[c]) :
             toController' = [toController EXCEPT ![c] = SubSeq(@, 1, kept)]
        /\ UNCHANGED <<ctrlSock, agentSock, connections, registered, byAgentId, dial, attempt, transport>>
    BY <1>5 DEF Breaks, Break, gateway, runtime
  <2>2. agentSock[c] # "fresh"
    BY <2>1 DEF SessionInv, FreshIsUnknown, Listening
  <2>3. toController \in [Conns -> Seq(AgentFrames)]
    BY DEF SessionInv, SessionTypes, TypeOK, SocketsType
  <2>4. PICK kept \in 0..Len(toController[c]) :
          toController' = [toController EXCEPT ![c] = SubSeq(@, 1, kept)]
    BY <2>1
  <2>5. NoNewHello(toController[c], SubSeq(toController[c], 1, kept))
    BY <2>3, CuttingOff
  <2>6. ASSUME NEW d \in Conns
        PROVE  /\ NoNewHello(toController[d], toController'[d])
               /\ agentSock[d] = "fresh" => toController'[d] = toController[d]
    BY <2>2, <2>3, <2>4, <2>5, NoNewHelloIfSame
  <2>7. QED
    BY <1>1, <2>1, <2>6, QuietStep
<1>6. CASE UNCHANGED vars
  <2>1. \A c \in Conns : NoNewHello(toController[c], toController'[c])
    BY <1>6, NoNewHelloIfSame DEF vars, sockets
  <2>2. QED
    BY <1>1, <1>6, <2>1, QuietStep DEF vars, sockets, gateway, runtime
<1>7. QED
  BY <1>2, <1>3, <1>4, <1>5, <1>6 DEF Next

THEOREM SessionInvariant == Spec => []SessionInv
BY SessionInvInit, SessionInvStep, PTL DEF Spec

(***************************************************************************)
(* Of the connections an agent said hello on, the gateway keeps exactly    *)
(* the one it sends commands on: for any number of connections, dialed,    *)
(* replaced, closed, broken or swept in any order.                         *)
(***************************************************************************)
THEOREM SessionIsOne == Spec => []OneSession
<1>1. SessionInv => OneSession
  BY DEF SessionInv
<1>2. QED
  BY <1>1, SessionInvariant, PTL

-----------------------------------------------------------------------------
(* How often a command is performed *)

(***************************************************************************)
(* Inductive for OnlyOverlapsRepeat: once an id has succeeded no delivery  *)
(* of it starts anew, so what is still under way is all that can be added  *)
(* to what was done, and both together were once under way.                *)
(***************************************************************************)
PerformInv ==
  /\ SessionTypes
  /\ \A id \in Ids : id \notin handledCommands => driven[id] = 0
  /\ \A id \in Ids : driven[id] + executing[id] <= overlap[id]

LEMMA PerformInvInit == Init => PerformInv
<1> SUFFICES ASSUME Init PROVE PerformInv
  OBVIOUS
<1>1. /\ driven = [id \in Ids |-> 0] /\ handledCommands = {}
      /\ executing = [id \in Ids |-> 0] /\ overlap = [id \in Ids |-> 0]
  BY DEF Init, RuntimeInit
<1>2. QED
  BY <1>1, SessionTypesInit DEF PerformInv

(* What the counters are. *)
LEMMA PerformTypes ==
  ASSUME PerformInv
  PROVE  /\ executing \in [Ids -> Nat] /\ overlap \in [Ids -> Nat]
         /\ driven \in [Ids -> 0..MaxDriven] /\ \A id \in Ids : driven[id] \in Nat
BY RuntimeAssumption DEF PerformInv, SessionTypes, TypeOK, RuntimeType

(* A command arrives: it is carried out only if it never succeeded before. *)
LEMMA DeliveryCounts ==
  ASSUME PerformInv, SessionTypes', NEW c \in Conns, ReceiveCommand(c)
  PROVE  PerformInv'
<1>1. PICK id \in Ids : HandleCommand(id)
  <2>1. toAgent[c] # <<>> /\ Head(toAgent[c]).kind = "command"
    BY DEF ReceiveCommand, Delivered
  <2>2. Head(toAgent[c]) \in ControllerFrames
    BY <2>1, ReceivedType DEF PerformInv, SessionTypes, TypeOK, SocketsType
  <2>3. Head(toAgent[c]).id \in Ids
    BY <2>1, <2>2, CommandFramesNameIds
  <2>4. QED
    BY <2>3 DEF ReceiveCommand
<1>2. UNCHANGED <<handledCommands, driven>>
  BY DEF ReceiveCommand
<1>3. ASSUME NEW other \in Ids PROVE driven'[other] + executing'[other] <= overlap'[other]
  <2>1. CASE id \in handledCommands
    BY <1>1, <1>2, <2>1 DEF HandleCommand, PerformInv
  <2>2. CASE id \notin handledCommands
    <3>1. driven[id] = 0
      BY <2>2 DEF PerformInv
    <3>2. /\ executing' = [executing EXCEPT ![id] = @ + 1]
          /\ overlap' = [overlap EXCEPT ![id] = Most(@, executing[id] + 1)]
      BY <1>1, <2>2 DEF HandleCommand
    <3>3. CASE other = id
      BY <1>2, <3>1, <3>2, <3>3, PerformTypes DEF Most
    <3>4. CASE other # id
      BY <1>2, <3>2, <3>4, PerformTypes DEF PerformInv
    <3>5. QED
      BY <3>3, <3>4
  <2>3. QED
    BY <2>1, <2>2
<1>4. QED
  BY <1>2, <1>3 DEF PerformInv

(* The provider has answered: one execution less is under way, one success more at most. *)
LEMMA OutcomeCounts ==
  ASSUME PerformInv, SessionTypes', NEW id \in Ids, NEW ok \in BOOLEAN, Execute(id, ok)
  PROVE  PerformInv'
<1>1. /\ executing[id] > 0 /\ executing' = [executing EXCEPT ![id] = @ - 1]
      /\ handledCommands' = IF ok THEN handledCommands \cup {id} ELSE handledCommands
      /\ driven' = IF ok THEN [driven EXCEPT ![id] = @ + 1] ELSE driven
      /\ overlap' = overlap
  BY DEF Execute
<1>2. driven'[id] \in {driven[id], driven[id] + 1} /\ executing'[id] = executing[id] - 1
  BY <1>1, PerformTypes
<1>3. \A other \in Ids \ {id} : driven'[other] = driven[other] /\ executing'[other] = executing[other]
  BY <1>1, PerformTypes
<1>4. ASSUME NEW other \in Ids PROVE driven'[other] + executing'[other] <= overlap'[other]
  <2>1. driven[other] + executing[other] <= overlap[other]
    BY DEF PerformInv
  <2>2. CASE other = id
    BY <1>1, <1>2, <2>1, <2>2, PerformTypes
  <2>3. CASE other # id
    BY <1>1, <1>3, <2>1, <2>3
  <2>4. QED
    BY <2>2, <2>3
<1>5. \A other \in Ids : other \notin handledCommands' => driven'[other] = 0
  BY <1>1, <1>3 DEF PerformInv
<1>6. QED
  BY <1>4, <1>5 DEF PerformInv

LEMMA PerformInvStep ==
  ASSUME PerformInv, [Next]_vars
  PROVE  PerformInv'
<1>1. SessionTypes'
  BY SessionTypesStep DEF PerformInv
<1>2. ASSUME NEW c \in Conns, ReceiveCommand(c) PROVE PerformInv'
  BY <1>1, <1>2, DeliveryCounts
<1>3. ASSUME NEW id \in Ids, NEW ok \in BOOLEAN, Execute(id, ok) PROVE PerformInv'
  BY <1>1, <1>3, OutcomeCounts
<1>4. ASSUME UNCHANGED <<executing, handledCommands, driven, overlap>> PROVE PerformInv'
  BY <1>1, <1>4 DEF PerformInv
<1>5. CASE AgentWorks
  <2>1. \/ \E c \in Conns : ReceiveCommand(c)
        \/ \E id \in Ids : \E ok \in BOOLEAN : Execute(id, ok)
        \/ UNCHANGED <<executing, handledCommands, driven, overlap>>
    BY <1>5
    DEF AgentWorks, ConnectFails, SendHello, Reconnect, SocketLost, ReceiveClose, ReceiveWelcome,
        ReceiveReject, ReceiveRefresh, Answer, PushObservedState, Tick, Stop, runtime, commands
  <2>2. QED
    BY <1>2, <1>3, <1>4, <2>1
<1>6. CASE Opens \/ Controller \/ (\E c \in Conns : Breaks(c)) \/ UNCHANGED vars
  <2>1. UNCHANGED <<executing, handledCommands, driven, overlap>>
    BY <1>6 DEF Opens, Connected, Controller, Breaks, vars, runtime, commands
  <2>2. QED
    BY <1>4, <2>1
<1>7. QED
  BY <1>5, <1>6 DEF Next

(***************************************************************************)
(* A command is performed no more often than executions of it were under   *)
(* way at one time: the cache stops every delivery after the first         *)
(* success, for any number of deliveries handled side by side, whatever    *)
(* else the controller sends and however often the connection is lost.     *)
(* That the number may be two is what performed_twice shows.               *)
(***************************************************************************)
THEOREM RepeatsNeedOverlap == Spec => []OnlyOverlapsRepeat
<1>1. PerformInv => OnlyOverlapsRepeat
  <2> SUFFICES ASSUME PerformInv, NEW id \in Ids PROVE driven[id] <= overlap[id]
    BY DEF OnlyOverlapsRepeat
  <2>1. driven[id] + executing[id] <= overlap[id]
    BY DEF PerformInv
  <2>2. QED
    BY <2>1, PerformTypes
<1>2. QED
  BY <1>1, PerformInvInit, PerformInvStep, PTL DEF Spec

-----------------------------------------------------------------------------
(* The gateway implements AgentLink *)

(***************************************************************************)
(* An agent that has a connection counts as online.  AgentLink does not    *)
(* tell the two apart, so the mapping needs that no frame and no close     *)
(* event ever changes one without the other.                               *)
(***************************************************************************)
NamedIsOnline == \A a \in Agents : byAgentId[a] # None => online[a]

LinkInv == SessionInv /\ NamedIsOnline

(* The refinement mapping of Presence. *)
Link == [a \in Agents |-> IF ~Gateway!IsOnline(a) THEN "down"
                          ELSE IF Gateway!CanSend(a) THEN "up" ELSE "half"]

(* Under the invariant the link is down exactly when no connection is named. *)
LinkOver(named, ends) ==
  [a \in Agents |-> IF named[a] = None THEN "down"
                    ELSE IF ends[named[a]] = "open" THEN "up" ELSE "half"]

LEMMA LinkIsNamed ==
  /\ NamedIsOnline => Link = LinkOver(byAgentId, ctrlSock)
  /\ NamedIsOnline' => Link' = LinkOver(byAgentId', ctrlSock')
<1>1. NamedIsOnline => Link = LinkOver(byAgentId, ctrlSock)
  BY DEF NamedIsOnline, Link, LinkOver, Gateway!IsOnline, Gateway!CanSend
<1>2. NamedIsOnline' => Link' = LinkOver(byAgentId', ctrlSock')
  BY DEF NamedIsOnline, Link, LinkOver, Gateway!IsOnline, Gateway!CanSend
<1>3. QED
  BY <1>1, <1>2

(* The session has been opened by the agent, and it is tracked and known. *)
LEMMA NamedIsSession ==
  ASSUME SessionInv, byAgentId[Agent] # None
  PROVE  /\ byAgentId[Agent] \in Conns
         /\ byAgentId[Agent] \in connections /\ byAgentId[Agent] \in registered
         /\ agentSock[byAgentId[Agent]] # "fresh"
<1>1. connections \cap registered = {byAgentId[Agent]}
  BY SessionIsNamed DEF SessionInv
<1>2. connections \subseteq Conns
  BY DEF SessionInv, SessionTypes, TypeOK, Gateway!GatewayType
<1>3. QED
  BY <1>1, <1>2 DEF SessionInv, FreshIsUnknown

(* A step that leaves the session, and whether it can be sent on. *)
LEMMA LinkStays ==
  ASSUME LinkInv, byAgentId' = byAgentId, online' = online,
         byAgentId[Agent] # None =>
           (ctrlSock'[byAgentId[Agent]] = "open" <=> ctrlSock[byAgentId[Agent]] = "open")
  PROVE  NamedIsOnline' /\ Link' = Link
<1>1. NamedIsOnline'
  BY DEF LinkInv, NamedIsOnline
<1>2. LinkOver(byAgentId', ctrlSock') = LinkOver(byAgentId, ctrlSock)
  BY SameSockets DEF LinkOver
<1>3. QED
  BY <1>1, <1>2, LinkIsNamed DEF LinkInv

(* A hello makes the agent present, over a socket that may already be closing. *)
LEMMA HelloIsGreet ==
  ASSUME LinkInv, SessionInv', NEW c \in Conns, Gateway!HandleHello(c)
  PROVE  NamedIsOnline' /\ Presence!Greet(Agent)
<1>1. /\ byAgentId \in [Agents -> Conns \cup {None}] /\ online \in [Agents -> BOOLEAN]
  BY DEF LinkInv, SessionInv, SessionTypes, TypeOK, Gateway!GatewayType
<1>2. /\ byAgentId' = [byAgentId EXCEPT ![Agent] = c]
      /\ online' = [online EXCEPT ![Agent] = TRUE]
      /\ waiting' = waiting
  BY SameSockets DEF Gateway!HandleHello
<1>3. NamedIsOnline'
  BY <1>1, <1>2, SameSockets DEF NamedIsOnline
<1>4. \E state \in {"up", "half"} : Link' = [Link EXCEPT ![Agent] = state]
  <2>1. byAgentId'[Agent] = c /\ c # None
    BY <1>1, <1>2, SameSockets, RuntimeAssumption
  <2>2. Link' = [a \in Agents |-> IF ctrlSock'[c] = "open" THEN "up" ELSE "half"]
    BY <1>3, <2>1, LinkIsNamed, SameSockets DEF LinkOver
  <2>3. \A state : [Link EXCEPT ![Agent] = state] = [a \in Agents |-> state]
    BY SameSockets DEF Link
  <2>4. QED
    BY <2>2, <2>3
<1>5. QED
  BY <1>2, <1>3, <1>4 DEF Presence!Greet, Link

(* The end of the session loses the agent and what waits for it; no other end is noticed. *)
LEMMA CloseIsLose ==
  ASSUME LinkInv, SessionInv', NEW c \in Conns, Gateway!HandleClose(c),
         ctrlSock' = [ctrlSock EXCEPT ![c] = "closed"]
  PROVE  /\ NamedIsOnline'
         /\ Presence!Lose(Agent) \/ UNCHANGED <<Link, waiting>>
<1>1. /\ byAgentId \in [Agents -> Conns \cup {None}] /\ online \in [Agents -> BOOLEAN]
      /\ ctrlSock \in [Conns -> SocketStates]
  BY DEF LinkInv, SessionInv, SessionTypes, TypeOK, SocketsType, Gateway!GatewayType
<1>2. CASE c \in connections /\ c \in registered
  <2>1. byAgentId[Agent] = c /\ c # None
    BY <1>2, SessionIsNamed, RuntimeAssumption DEF LinkInv, SessionInv
  <2>2. /\ byAgentId' = [byAgentId EXCEPT ![Agent] = None]
        /\ waiting' = [waiting EXCEPT ![Agent] = {}]
    BY <1>2, <2>1, SameSockets DEF Gateway!HandleClose, Gateway!Forget
  <2>3. byAgentId'[Agent] = None
    BY <1>1, <2>2, SameSockets
  <2>4. NamedIsOnline'
    BY <2>3, SameSockets DEF NamedIsOnline
  <2>5. Link[Agent] # "down" /\ Link' = [Link EXCEPT ![Agent] = "down"]
    <3>1. Link = LinkOver(byAgentId, ctrlSock) /\ Link' = LinkOver(byAgentId', ctrlSock')
      BY <2>4, LinkIsNamed DEF LinkInv
    <3>2. Link[Agent] # "down"
      BY <2>1, <3>1, SameSockets DEF LinkOver
    <3>3. Link' = [a \in Agents |-> "down"]
      BY <2>3, <3>1, SameSockets DEF LinkOver
    <3>4. QED
      BY <3>2, <3>3, SameSockets DEF Link
  <2>6. Presence!Lose(Agent)
    BY <2>2, <2>5 DEF Presence!Lose, Link
  <2>7. QED
    BY <2>4, <2>6
<1>3. CASE ~(c \in connections /\ c \in registered)
  <2>1. UNCHANGED <<byAgentId, online, waiting>>
    BY <1>3 DEF Gateway!HandleClose
  <2>2. byAgentId[Agent] # None => byAgentId[Agent] # c
    BY <1>3, NamedIsSession DEF LinkInv
  <2>3. byAgentId[Agent] # None =>
          (ctrlSock'[byAgentId[Agent]] = "open" <=> ctrlSock[byAgentId[Agent]] = "open")
    BY <1>1, <2>2, SameSockets
  <2>4. QED
    BY <2>1, <2>3, LinkStays
<1>4. QED
  BY <1>2, <1>3

(* A frame proves the agent alive: nothing new of one that has a connection. *)
LEMMA SeenIsNothingNew ==
  ASSUME LinkInv, ctrlSock' = ctrlSock, byAgentId' = byAgentId,
         online' = [online EXCEPT ![Agent] = TRUE]
  PROVE  NamedIsOnline' /\ Link' = Link
<1>1. online \in [Agents -> BOOLEAN]
  BY DEF LinkInv, SessionInv, SessionTypes, TypeOK, Gateway!GatewayType
<1>2. NamedIsOnline'
  BY <1>1, SameSockets DEF NamedIsOnline
<1>3. QED
  BY <1>2, LinkIsNamed DEF LinkInv

LEMMA GatewayImplements ==
  ASSUME LinkInv, SessionInv', Gateway!GatewaySteps, UNCHANGED runtime
  PROVE  /\ NamedIsOnline'
         /\ Presence!Next \/ UNCHANGED <<Link, waiting>>
<1>1. /\ ctrlSock \in [Conns -> SocketStates]
      /\ byAgentId \in [Agents -> Conns \cup {None}] /\ waiting \in [Agents -> SUBSET Ids]
  BY DEF LinkInv, SessionInv, SessionTypes, TypeOK, SocketsType, Gateway!GatewayType
<1>2. Agent \in Agents
  BY SameSockets
<1>3. ASSUME NEW c \in Conns, Gateway!HandleHello(c)
      PROVE  NamedIsOnline' /\ Presence!Next
  BY <1>2, <1>3, HelloIsGreet DEF Presence!Next
<1>4. ASSUME NEW c \in Conns, Gateway!RejectUnknown(c)
      PROVE  NamedIsOnline' /\ UNCHANGED <<Link, waiting>>
  <2>1. /\ c \notin registered /\ ctrlSock' = Closing(ctrlSock, c)
        /\ UNCHANGED <<byAgentId, online, waiting>>
    BY <1>4, SameSockets DEF Gateway!RejectUnknown, Gateway!gateway
  <2>2. byAgentId[Agent] # None => byAgentId[Agent] # c
    BY <2>1, NamedIsSession DEF LinkInv
  <2>3. byAgentId[Agent] # None =>
          (ctrlSock'[byAgentId[Agent]] = "open" <=> ctrlSock[byAgentId[Agent]] = "open")
    BY <1>1, <1>2, <2>1, <2>2 DEF Closing
  <2>4. QED
    BY <2>1, <2>3, LinkStays
<1>5. ASSUME NEW c \in Conns, Gateway!HandleBeat(c)
      PROVE  NamedIsOnline' /\ UNCHANGED <<Link, waiting>>
  BY <1>5, SeenIsNothingNew, SameSockets DEF Gateway!HandleBeat, Gateway!MarkAgentSeen
<1>6. ASSUME NEW c \in Conns, Gateway!HandleResult(c)
      PROVE  NamedIsOnline' /\ Presence!Next
  <2>1. Gateway!Receive(c, {"result"})
    BY <1>6 DEF Gateway!HandleResult
  <2>2. Head(toController[c]).id \in Ids
    BY <2>1, GatewayReceives, CommandFramesNameIds DEF LinkInv, SessionInv, SessionTypes, TypeOK
  <2>3. NamedIsOnline' /\ Link' = Link
    BY <1>6, SeenIsNothingNew, SameSockets DEF Gateway!HandleResult, Gateway!MarkAgentSeen
  <2>4. Presence!Settle(Head(toController[c]).id)
    BY <1>6, <2>3 DEF Gateway!HandleResult, Presence!Settle, Link
  <2>5. QED
    BY <2>2, <2>3, <2>4 DEF Presence!Next
<1>7. ASSUME NEW c \in Conns, Gateway!SocketClosed(c) \/ Gateway!SocketFails(c) \/ Gateway!Sweep(c)
      PROVE  NamedIsOnline' /\ (Presence!Next \/ UNCHANGED <<Link, waiting>>)
  <2>1. Gateway!HandleClose(c) /\ ctrlSock' = [ctrlSock EXCEPT ![c] = "closed"]
    BY <1>7 DEF Gateway!SocketClosed, Gateway!SocketFails, Gateway!Sweep
  <2>2. QED
    BY <1>2, <2>1, CloseIsLose DEF Presence!Next
<1>8. ASSUME NEW a \in Agents, NEW id \in Ids, Gateway!SendCommand(a, id)
      PROVE  NamedIsOnline' /\ Presence!Next
  <2>1. /\ Gateway!IsOnline(a) /\ Gateway!CanSend(a)
        /\ UNCHANGED <<ctrlSock, byAgentId, online>>
        /\ waiting' = [other \in Agents |-> IF other = a THEN waiting[a] \cup {id}
                                            ELSE waiting[other] \ {id}]
    BY <1>8 DEF Gateway!SendCommand
  <2>2. NamedIsOnline' /\ Link' = Link
    BY <2>1, LinkStays
  <2>3. Presence!Send(a, id)
    BY <2>1, <2>2 DEF Presence!Send, Link
  <2>4. QED
    BY <2>2, <2>3 DEF Presence!Next
<1>9. ASSUME NEW a \in Agents, NEW id \in Ids, Gateway!CommandEnds(a, id)
      PROVE  NamedIsOnline' /\ Presence!Next
  <2>1. /\ UNCHANGED <<ctrlSock, byAgentId, online>>
        /\ waiting' = [waiting EXCEPT ![a] = @ \ {id}]
    BY <1>9 DEF Gateway!CommandEnds, Gateway!sockets
  <2>2. NamedIsOnline' /\ Link' = Link
    BY <2>1, LinkStays
  <2>3. waiting' = [other \in Agents |-> waiting[other] \ {id}]
    BY <1>1, <2>1, SameSockets
  <2>4. Presence!Settle(id)
    BY <2>2, <2>3 DEF Presence!Settle, Link
  <2>5. QED
    BY <2>2, <2>4 DEF Presence!Next
<1>10. QED
  BY <1>3, <1>4, <1>5, <1>6, <1>7, <1>8, <1>9 DEF Gateway!GatewaySteps

LEMMA StepImplements ==
  ASSUME LinkInv, SessionInv', [Next]_vars
  PROVE  /\ NamedIsOnline'
         /\ Presence!Next \/ UNCHANGED <<Link, waiting>>
<1>1. CASE Opens
  <2>1. /\ attempt \in Conns /\ agentSock[attempt] = "fresh"
        /\ ctrlSock' = [ctrlSock EXCEPT ![attempt] = "open"]
        /\ UNCHANGED <<byAgentId, online, waiting>>
    BY <1>1 DEF Opens, Connected, LinkInv, SessionInv, SessionTypes, DialHasAttempt
  <2>2. byAgentId[Agent] # None => byAgentId[Agent] # attempt /\ byAgentId[Agent] \in Conns
    BY <2>1, NamedIsSession DEF LinkInv
  <2>3. ctrlSock \in [Conns -> SocketStates]
    BY DEF LinkInv, SessionInv, SessionTypes, TypeOK, SocketsType
  <2>4. byAgentId[Agent] # None =>
          (ctrlSock'[byAgentId[Agent]] = "open" <=> ctrlSock[byAgentId[Agent]] = "open")
    BY <2>1, <2>2, <2>3
  <2>5. QED
    BY <2>1, <2>4, LinkStays
<1>2. CASE Controller
  BY <1>2, GatewayImplements DEF Controller
<1>3. CASE AgentWorks \/ (\E c \in Conns : Breaks(c)) \/ UNCHANGED vars
  <2>1. UNCHANGED <<ctrlSock, byAgentId, online, waiting>>
    BY <1>3
    DEF AgentWorks, Breaks, Break, vars, gateway, ConnectFails, SendHello, Reconnect, SocketLost,
        ReceiveClose, ReceiveWelcome, ReceiveReject, ReceiveRefresh, ReceiveCommand, Answer, Execute,
        PushObservedState, Tick, Stop, sockets
  <2>2. QED
    BY <2>1, LinkStays
<1>4. QED
  BY <1>1, <1>2, <1>3 DEF Next

(***************************************************************************)
(* The gateway implements AgentLink, for any number of connections in any  *)
(* state: an agent leaves only with every command that waits for it, and   *)
(* no frame of an old or unknown connection changes who is present.        *)
(***************************************************************************)
THEOREM GatewayKeepsPresence == Spec => KeepsPresence
<1>1. Init => Presence!Init
  BY DEF Init, Gateway!GatewayInit, Gateway!IsOnline, Presence!Init
<1>2. Init => LinkInv
  <2>1. Init => NamedIsOnline
    BY DEF Init, Gateway!GatewayInit, NamedIsOnline
  <2>2. QED
    BY <2>1, SessionInvInit DEF LinkInv
<1>3. LinkInv /\ [Next]_vars => LinkInv'
  <2>1. LinkInv /\ [Next]_vars => SessionInv'
    BY SessionInvStep DEF LinkInv
  <2>2. QED
    BY <2>1, StepImplements DEF LinkInv
<1>4. LinkInv /\ [Next]_vars => [Presence!Next]_<<Link, waiting>>
  <2>1. LinkInv /\ [Next]_vars => SessionInv'
    BY SessionInvStep DEF LinkInv
  <2>2. QED
    BY <2>1, StepImplements
<1>5. QED
  BY <1>1, <1>2, <1>3, <1>4, PTL DEF Spec, KeepsPresence, Presence!Spec, Link

-----------------------------------------------------------------------------
(* No side waits for a connection that is over *)

HasClose(stream) == \E i \in 1..Len(stream) : stream[i].kind = "close"

Ending == {"closing", "closed"}

(* handleConnection and the end of transport.connect come together. *)
OpenedTogether == \A c \in Conns : ctrlSock[c] = "fresh" <=> agentSock[c] = "fresh"

(***************************************************************************)
(* A side that has closed or terminated its end of a connection has told   *)
(* the other: unless the connection broke, a close frame is on its way to  *)
(* every end that still listens.                                           *)
(***************************************************************************)
AgentIsTold ==
  \A c \in Conns \ broken :
    Listening(agentSock[c]) /\ ctrlSock[c] \in Ending => HasClose(toAgent[c])

GatewayIsTold ==
  \A c \in Conns \ broken :
    Listening(ctrlSock[c]) /\ agentSock[c] \in Ending => HasClose(toController[c])

(* The runtime's transport can still hand it the close event that clears it. *)
TransportListens == transport # None => Listening(agentSock[transport])

(* Without a transport, a reconnect is scheduled or a dial under way that will end. *)
AwaitsConnection ==
  ~SlowDiscovery /\ ~stopped /\ transport = None =>
    reconnectTimer \/ dial = "dialing" \/ Fresh = {}

(***************************************************************************)
(* The agent is never left waiting for nothing.  One that believes itself  *)
(* connected is, or is going to learn otherwise: the connection has broken *)
(* or the controller's close is on its way.  One without a connection has  *)
(* a timer or a dial that will give it one.                                *)
(***************************************************************************)
NeverStranded ==
  /\ AwaitsConnection
  /\ transport # None =>
       /\ Listening(agentSock[transport])
       /\ \/ ctrlSock[transport] = "open"
          \/ transport \in broken
          \/ HasClose(toAgent[transport])

StreamsTell == OpenedTogether /\ AgentIsTold /\ GatewayIsTold
HopeInv == SessionInv /\ StreamsTell /\ TransportListens /\ AwaitsConnection

LEMMA HopeInit == Init => HopeInv
<1>1. SUFFICES ASSUME Init PROVE HopeInv
  OBVIOUS
<1>2. /\ \A c \in Conns : ctrlSock[c] = "fresh" /\ agentSock[c] = "fresh"
      /\ transport = None /\ dial = "dialing"
  BY <1>1 DEF Init, SocketsInit, RuntimeInit
<1>3. StreamsTell
  BY <1>2 DEF StreamsTell, OpenedTogether, AgentIsTold, GatewayIsTold, Listening
<1>4. QED
  BY <1>1, <1>2, <1>3, SessionInvInit DEF HopeInv, TransportListens, AwaitsConnection

(* Streams keep their close frame: nothing overtakes it, and reading it is the end. *)
LEMMA AppendingTells ==
  ASSUME NEW F, NEW s \in Seq(F), NEW t \in Seq(F)
  PROVE  HasClose(s) \/ HasClose(t) => HasClose(s \o t)
<1> DEFINE new == s \o t
<1>1. /\ Len(s) \in Nat /\ Len(t) \in Nat /\ Len(new) = Len(s) + Len(t)
      /\ \A i \in 1..Len(s) + Len(t) :
           new[i] = IF i <= Len(s) THEN s[i] ELSE t[i - Len(s)]
  BY ConcatProperties
<1> HIDE DEF new
<1>2. ASSUME NEW i \in 1..Len(s) PROVE i \in 1..Len(new) /\ new[i] = s[i]
  BY <1>1
<1>3. ASSUME NEW i \in 1..Len(t) PROVE i + Len(s) \in 1..Len(new) /\ new[i + Len(s)] = t[i]
  BY <1>1
<1>4. HasClose(s) => HasClose(new)
  BY <1>2 DEF HasClose
<1>5. HasClose(t) => HasClose(new)
  BY <1>3 DEF HasClose
<1>6. QED
  BY <1>4, <1>5 DEF new

LEMMA ReadingTells ==
  ASSUME NEW F, NEW s \in Seq(F), s # <<>>, Head(s).kind # "close", HasClose(s)
  PROVE  HasClose(Tail(s))
<1>1. /\ Len(Tail(s)) = Len(s) - 1 /\ Len(s) \in Nat
      /\ \A i \in 1..Len(Tail(s)) : Tail(s)[i] = s[i + 1]
  BY HeadTailProperties
<1>2. Head(s) = s[1]
  OBVIOUS
<1>3. PICK i \in 1..Len(s) : s[i].kind = "close"
  BY DEF HasClose
<1>4. i # 1
  BY <1>2, <1>3
<1>5. i - 1 \in 1..Len(Tail(s)) /\ Tail(s)[i - 1] = s[i]
  BY <1>1, <1>4
<1>6. QED
  BY <1>3, <1>5 DEF HasClose

LEMMA CloseTells ==
  /\ HasClose(<<Frame("close")>>)
  /\ HasClose(<<Frame("reject"), Frame("close")>>)
<1>1. 1 \in 1..Len(<<Frame("close")>>) /\ <<Frame("close")>>[1].kind = "close"
  BY DEF Frame
<1>2. /\ 2 \in 1..Len(<<Frame("reject"), Frame("close")>>)
      /\ <<Frame("reject"), Frame("close")>>[2].kind = "close"
  BY DEF Frame
<1>3. QED
  BY <1>1, <1>2 DEF HasClose

(* What an end sends keeps the close frames under way, and its own goes out. *)
LEMMA AgentTells ==
  ASSUME SocketsType, NEW c \in Conns, NEW frames \in Seq(AgentFrames)
  PROVE  LET sent == AgentSends(toController, c, frames)
         IN  /\ \A d \in Conns : HasClose(toController[d]) => HasClose(sent[d])
             /\ c \notin broken /\ agentSock[c] = "open" /\ ctrlSock[c] # "closed"
                  /\ HasClose(frames) => HasClose(sent[c])
<1> DEFINE sent == AgentSends(toController, c, frames)
<1>1. toController \in [Conns -> Seq(AgentFrames)]
  BY DEF SocketsType
<1>2. \A d \in Conns : \/ sent[d] = toController[d]
                       \/ d = c /\ sent[d] = toController[c] \o frames
  BY <1>1 DEF AgentSends, Queued
<1>3. c \notin broken /\ agentSock[c] = "open" /\ ctrlSock[c] # "closed"
        => sent[c] = toController[c] \o frames
  BY <1>1 DEF AgentSends, Queued
<1> HIDE DEF sent
<1>4. toController[c] \in Seq(AgentFrames)
  BY <1>1
<1>5. HasClose(toController[c]) \/ HasClose(frames) => HasClose(toController[c] \o frames)
  BY <1>4, AppendingTells
<1>6. /\ \A d \in Conns : HasClose(toController[d]) => HasClose(sent[d])
      /\ c \notin broken /\ agentSock[c] = "open" /\ ctrlSock[c] # "closed"
           /\ HasClose(frames) => HasClose(sent[c])
  BY <1>2, <1>3, <1>5
<1>7. QED
  BY <1>6 DEF sent

LEMMA ControllerTells ==
  ASSUME NEW stream \in [Conns -> Seq(ControllerFrames)], NEW c \in Conns,
         NEW frames \in Seq(ControllerFrames)
  PROVE  LET sent == ControllerSends(stream, c, frames)
         IN  /\ \A d \in Conns : HasClose(stream[d]) => HasClose(sent[d])
             /\ c \notin broken /\ ctrlSock[c] = "open" /\ agentSock[c] # "closed"
                  /\ HasClose(frames) => HasClose(sent[c])
<1> DEFINE sent == ControllerSends(stream, c, frames)
<1>1. \A d \in Conns : \/ sent[d] = stream[d]
                       \/ d = c /\ sent[d] = stream[c] \o frames
  BY DEF ControllerSends, Queued
<1>2. c \notin broken /\ ctrlSock[c] = "open" /\ agentSock[c] # "closed"
        => sent[c] = stream[c] \o frames
  BY DEF ControllerSends, Queued
<1> HIDE DEF sent
<1>3. HasClose(stream[c]) \/ HasClose(frames) => HasClose(stream[c] \o frames)
  BY AppendingTells
<1>4. /\ \A d \in Conns : HasClose(stream[d]) => HasClose(sent[d])
      /\ c \notin broken /\ ctrlSock[c] = "open" /\ agentSock[c] # "closed"
           /\ HasClose(frames) => HasClose(sent[c])
  BY <1>1, <1>2, <1>3
<1>5. QED
  BY <1>4 DEF sent

(* What the agent sends on its transport, if it has one. *)
LEMMA SentTells ==
  ASSUME SessionTypes, NEW fs \in Seq(AgentFrames)
  PROVE  /\ \A d \in Conns : HasClose(toController[d]) => HasClose(Sent(fs)[d])
         /\ transport \in Conns /\ transport \notin broken /\ agentSock[transport] = "open"
              /\ ctrlSock[transport] # "closed" /\ HasClose(fs)
              => HasClose(Sent(fs)[transport])
<1>1. SocketsType /\ transport \in Conns \cup {None}
  BY DEF SessionTypes, TypeOK, RuntimeType
<1>2. CASE transport = None
  BY <1>2, RuntimeAssumption DEF Sent
<1>3. CASE transport # None
  <2>1. transport \in Conns
    BY <1>1, <1>3
  <2>2. Sent(fs) = AgentSends(toController, transport, fs)
    BY <1>3 DEF Sent
  <2>3. QED
    BY <1>1, <2>1, <2>2, AgentTells
<1>4. QED
  BY <1>2, <1>3

(***************************************************************************)
(* A step of one end: it opens no connection, takes no close frame off and *)
(* goes on listening, and puts a close frame on the way where it closes.   *)
(***************************************************************************)
LEMMA AgentEndStep ==
  ASSUME StreamsTell, UNCHANGED <<ctrlSock, broken>>,
         \A c \in Conns : agentSock'[c] = "fresh" <=> agentSock[c] = "fresh",
         \A c \in Conns : Listening(agentSock'[c]) =>
           Listening(agentSock[c]) /\ (HasClose(toAgent[c]) => HasClose(toAgent'[c])),
         \A c \in Conns \ broken :
           /\ HasClose(toController[c]) => HasClose(toController'[c])
           /\ agentSock'[c] \in Ending /\ agentSock[c] \notin Ending /\ Listening(ctrlSock[c])
                => HasClose(toController'[c])
  PROVE  StreamsTell'
<1>1. OpenedTogether'
  BY DEF StreamsTell, OpenedTogether
<1>2. AgentIsTold'
  BY DEF StreamsTell, AgentIsTold
<1>3. GatewayIsTold'
  BY DEF StreamsTell, GatewayIsTold
<1>4. QED
  BY <1>1, <1>2, <1>3 DEF StreamsTell

LEMMA GatewayEndStep ==
  ASSUME StreamsTell, UNCHANGED <<agentSock, broken>>,
         \A c \in Conns : ctrlSock'[c] = "fresh" <=> ctrlSock[c] = "fresh",
         \A c \in Conns : Listening(ctrlSock'[c]) =>
           Listening(ctrlSock[c]) /\ (HasClose(toController[c]) => HasClose(toController'[c])),
         \A c \in Conns \ broken :
           /\ HasClose(toAgent[c]) => HasClose(toAgent'[c])
           /\ ctrlSock'[c] \in Ending /\ ctrlSock[c] \notin Ending /\ Listening(agentSock[c])
                => HasClose(toAgent'[c])
  PROVE  StreamsTell'
<1>1. OpenedTogether'
  BY DEF StreamsTell, OpenedTogether
<1>2. AgentIsTold'
  BY DEF StreamsTell, AgentIsTold
<1>3. GatewayIsTold'
  BY DEF StreamsTell, GatewayIsTold
<1>4. QED
  BY <1>1, <1>2, <1>3 DEF StreamsTell

(* A frame of the controller that is not its close. *)
LEMMA DeliveredTells ==
  ASSUME SocketsType, NEW c \in Conns, NEW kind, kind # "close", Delivered(c, kind)
  PROVE  \A d \in Conns : HasClose(toAgent[d]) => HasClose(toAgent'[d])
<1>1. toAgent \in [Conns -> Seq(ControllerFrames)]
  BY DEF SocketsType
<1>2. /\ toAgent[c] \in Seq(ControllerFrames) /\ toAgent[c] # <<>>
      /\ Head(toAgent[c]).kind # "close"
      /\ toAgent'[c] = Tail(toAgent[c])
      /\ \A d \in Conns \ {c} : toAgent'[d] = toAgent[d]
  BY <1>1, ReceivedType DEF Delivered
<1>3. HasClose(toAgent[c]) => HasClose(toAgent'[c])
  BY <1>2, ReadingTells
<1>4. QED
  BY <1>2, <1>3

(* The steps of the agent that close nothing and receive nothing. *)
LEMMA WorkTells ==
  ASSUME HopeInv,
         \/ ConnectFails \/ SendHello \/ Reconnect \/ PushObservedState \/ Tick
         \/ \E id \in Ids : Answer(id) \/ \E ok \in BOOLEAN : Execute(id, ok)
  PROVE  StreamsTell'
<1>1. SessionTypes /\ StreamsTell /\ RuntimeType
  BY DEF HopeInv, SessionInv, SessionTypes, TypeOK
<1>2. UNCHANGED <<ctrlSock, agentSock, toAgent, broken>>
  BY DEF ConnectFails, SendHello, Reconnect, PushObservedState, Tick, Answer, Execute, sockets
<1>3. \/ toController' = toController
      \/ \E fs \in Seq(AgentFrames) : toController' = Sent(fs)
  <2>1. CASE ConnectFails \/ Reconnect \/ Tick
    BY <2>1 DEF ConnectFails, Reconnect, Tick, sockets
  <2>2. CASE SendHello
    <3>1. <<Frame("hello")>> \in Seq(AgentFrames)
      BY FramesAreFrames
    <3>2. QED
      BY <2>2, <3>1 DEF SendHello
  <2>3. CASE PushObservedState
    BY <2>3, RoutineFrames DEF PushObservedState
  <2>4. CASE \E id \in Ids : Answer(id) \/ \E ok \in BOOLEAN : Execute(id, ok)
    <3>1. PICK id \in Ids : Answer(id) \/ \E ok \in BOOLEAN : Execute(id, ok)
      BY <2>4
    <3>2. CASE Answer(id)
      BY <3>2, RoutineFrames DEF Answer
    <3>3. CASE \E ok \in BOOLEAN : Execute(id, ok)
      BY <3>3 DEF Execute, sockets
    <3>4. QED
      BY <3>1, <3>2, <3>3
  <2>5. QED
    BY <2>1, <2>2, <2>3, <2>4
<1>4. \A d \in Conns : HasClose(toController[d]) => HasClose(toController'[d])
  BY <1>1, <1>3, SentTells
<1>5. QED
  BY <1>1, <1>2, <1>4, AgentEndStep

(* The agent reads a frame that closes nothing. *)
LEMMA ReceivingTells ==
  ASSUME HopeInv, NEW c \in Conns, ReceiveWelcome(c) \/ ReceiveRefresh(c) \/ ReceiveCommand(c)
  PROVE  StreamsTell'
<1>1. SessionTypes /\ StreamsTell /\ SocketsType
  BY DEF HopeInv, SessionInv, SessionTypes, TypeOK
<1>2. PICK kind \in {"welcome", "refresh", "command"} : Delivered(c, kind)
  BY DEF ReceiveWelcome, ReceiveRefresh, ReceiveCommand
<1>3. UNCHANGED <<ctrlSock, agentSock, broken>>
  BY DEF ReceiveWelcome, ReceiveRefresh, ReceiveCommand
<1>4. \/ toController' = toController
      \/ \E fs \in Seq(AgentFrames) : toController' = Sent(fs)
  <2>1. CASE ReceiveWelcome(c) \/ ReceiveRefresh(c)
    BY <2>1 DEF ReceiveWelcome, ReceiveRefresh
  <2>2. CASE ReceiveCommand(c)
    <3>1. toAgent[c] # <<>> /\ Head(toAgent[c]).kind = "command"
      BY <2>2 DEF ReceiveCommand, Delivered
    <3>2. Head(toAgent[c]) \in ControllerFrames
      BY <1>1, <3>1, ReceivedType DEF SocketsType
    <3>3. Head(toAgent[c]).id \in Ids
      BY <3>1, <3>2, CommandFramesNameIds
    <3>4. QED
      BY <2>2, <3>3, RoutineFrames DEF ReceiveCommand
  <2>3. QED
    BY <2>1, <2>2
<1>5. \A d \in Conns : HasClose(toController[d]) => HasClose(toController'[d])
  BY <1>1, <1>4, SentTells
<1>6. \A d \in Conns : HasClose(toAgent[d]) => HasClose(toAgent'[d])
  BY <1>1, <1>2, DeliveredTells
<1>7. QED
  BY <1>1, <1>3, <1>5, <1>6, AgentEndStep

(* The agent closes the transport it has: after a rejection, or when it is stopped. *)
LEMMA ClosingTells ==
  ASSUME HopeInv, ctrlSock' = ctrlSock, broken' = broken,
         \A d \in Conns : HasClose(toAgent[d]) => HasClose(toAgent'[d]),
         IF transport = None
         THEN UNCHANGED <<agentSock, toController>>
         ELSE /\ agentSock' = Closing(agentSock, transport)
              /\ toController' = Sent(<<Frame("close")>>)
  PROVE  StreamsTell'
<1>1. SessionTypes /\ StreamsTell /\ agentSock \in [Conns -> SocketStates]
      /\ transport \in Conns \cup {None}
  BY DEF HopeInv, SessionInv, SessionTypes, TypeOK, SocketsType, RuntimeType
<1>2. CASE transport = None
  BY <1>1, <1>2, AgentEndStep
<1>3. CASE transport # None
  <2>1. transport \in Conns
    BY <1>1, <1>3
  <2>2. \A d \in Conns : \/ agentSock'[d] = agentSock[d]
                         \/ d = transport /\ agentSock[d] = "open" /\ agentSock'[d] = "closing"
    BY <1>1, <1>3, <2>1, ClosingEffect
  <2>3. <<Frame("close")>> \in Seq(AgentFrames) /\ HasClose(<<Frame("close")>>)
    BY RoutineFrames, CloseTells
  <2>4. /\ \A d \in Conns : HasClose(toController[d]) => HasClose(toController'[d])
        /\ transport \notin broken /\ agentSock[transport] = "open" /\ ctrlSock[transport] # "closed"
             => HasClose(toController'[transport])
    BY <1>1, <1>3, <2>1, <2>3, SentTells
  <2>5. \A d \in Conns : agentSock'[d] = "fresh" <=> agentSock[d] = "fresh"
    BY <2>2
  <2>6. \A d \in Conns : Listening(agentSock'[d]) => Listening(agentSock[d])
    BY <2>2 DEF Listening
  <2>7. ASSUME NEW d \in Conns \ broken, agentSock'[d] \in Ending, agentSock[d] \notin Ending,
               Listening(ctrlSock[d])
        PROVE  HasClose(toController'[d])
    BY <2>2, <2>4, <2>7 DEF Listening
  <2>8. QED
    BY <1>1, <2>4, <2>5, <2>6, <2>7, AgentEndStep
<1>4. QED
  BY <1>2, <1>3

(* The agent's end closes for good: the controller has closed, or the connection is broken. *)
LEMMA EndingTells ==
  ASSUME HopeInv, NEW c \in Conns, ReceiveClose(c) \/ SocketLost(c)
  PROVE  StreamsTell'
<1>1. SessionTypes /\ StreamsTell /\ SocketsType /\ agentSock \in [Conns -> SocketStates]
  BY DEF HopeInv, SessionInv, SessionTypes, TypeOK, SocketsType
<1>2. /\ agentSock' = [agentSock EXCEPT ![c] = "closed"] /\ Listening(agentSock[c])
      /\ UNCHANGED <<ctrlSock, broken>>
  BY DEF ReceiveClose, SocketLost, Delivered
<1>3. agentSock'[c] = "closed" /\ \A d \in Conns \ {c} : agentSock'[d] = agentSock[d]
  BY <1>1, <1>2
<1>4. \A d \in Conns : agentSock'[d] = "fresh" <=> agentSock[d] = "fresh"
  BY <1>2, <1>3 DEF Listening
<1>5. \A d \in Conns \ {c} : toAgent'[d] = toAgent[d]
  <2>1. CASE ReceiveClose(c)
    <3>1. toAgent' = Received(toAgent, c) /\ toAgent \in [Conns -> Seq(ControllerFrames)]
      BY <1>1, <2>1 DEF ReceiveClose, Delivered, SocketsType
    <3>2. QED
      BY <3>1 DEF Received
  <2>2. CASE SocketLost(c)
    BY <2>2 DEF SocketLost
  <2>3. QED
    BY <2>1, <2>2
<1>6. \A d \in Conns : Listening(agentSock'[d]) =>
        Listening(agentSock[d]) /\ (HasClose(toAgent[d]) => HasClose(toAgent'[d]))
  BY <1>3, <1>5 DEF Listening
<1>7. CASE ReceiveClose(c)
  <2>1. toController' = AgentSends(toController, c, <<Frame("close")>>)
    BY <1>7 DEF ReceiveClose
  <2>2. <<Frame("close")>> \in Seq(AgentFrames)
    BY FramesAreFrames
  <2>3. /\ \A d \in Conns : HasClose(toController[d]) => HasClose(toController'[d])
        /\ c \notin broken /\ agentSock[c] = "open" /\ ctrlSock[c] # "closed"
             => HasClose(toController'[c])
    BY <1>1, <2>1, <2>2, AgentTells, CloseTells
  <2>4. ASSUME NEW d \in Conns \ broken, agentSock'[d] \in Ending, agentSock[d] \notin Ending,
               Listening(ctrlSock[d])
        PROVE  HasClose(toController'[d])
    <3>1. d = c /\ agentSock[c] = "open" /\ ctrlSock[c] # "closed"
      BY <1>2, <1>3, <2>4 DEF Listening, Ending
    <3>2. QED
      BY <2>3, <2>4, <3>1
  <2>5. QED
    BY <1>1, <1>2, <1>4, <1>6, <2>3, <2>4, AgentEndStep
<1>8. CASE SocketLost(c)
  <2>1. toController' = toController /\ c \in broken
    BY <1>8 DEF SocketLost
  <2>2. \A d \in Conns \ broken : agentSock'[d] = agentSock[d]
    BY <1>3, <2>1
  <2>3. QED
    BY <1>1, <1>2, <1>4, <1>6, <2>1, <2>2, AgentEndStep
<1>9. QED
  BY <1>7, <1>8

(* A connection that opens is open at both ends. *)
LEMMA OpeningTells ==
  ASSUME HopeInv, Connected
  PROVE  StreamsTell'
<1>1. /\ attempt \in Conns
      /\ agentSock \in [Conns -> SocketStates] /\ ctrlSock \in [Conns -> SocketStates]
  BY DEF HopeInv, SessionInv, SessionTypes, TypeOK, SocketsType, DialHasAttempt, Connected
<1>2. /\ agentSock'[attempt] = "open" /\ ctrlSock'[attempt] = "open"
      /\ \A d \in Conns \ {attempt} : agentSock'[d] = agentSock[d] /\ ctrlSock'[d] = ctrlSock[d]
      /\ UNCHANGED <<toController, toAgent, broken>>
  BY <1>1 DEF Connected
<1>3. OpenedTogether'
  BY <1>2 DEF HopeInv, StreamsTell, OpenedTogether
<1>4. AgentIsTold'
  BY <1>2 DEF HopeInv, StreamsTell, AgentIsTold, Ending
<1>5. GatewayIsTold'
  BY <1>2 DEF HopeInv, StreamsTell, GatewayIsTold, Ending
<1>6. QED
  BY <1>3, <1>4, <1>5 DEF StreamsTell

LEMMA AgentTellsGateway ==
  ASSUME HopeInv, AgentWorks
  PROVE  StreamsTell'
<1>1. SessionTypes /\ SocketsType
  BY DEF HopeInv, SessionInv, SessionTypes, TypeOK
<1>2. ASSUME NEW c \in Conns, ReceiveReject(c) PROVE StreamsTell'
  <2>1. Delivered(c, "reject")
    BY <1>2 DEF ReceiveReject
  <2>2. \A d \in Conns : HasClose(toAgent[d]) => HasClose(toAgent'[d])
    BY <1>1, <2>1, DeliveredTells
  <2>3. QED
    BY <1>2, <2>2, ClosingTells DEF ReceiveReject
<1>3. CASE Stop
  BY <1>3, ClosingTells DEF Stop
<1>4. QED
  BY <1>2, <1>3, WorkTells, ReceivingTells, EndingTells DEF AgentWorks

(* The controller takes the next frame of a connection, another than a close. *)
LEMMA ReceiveTells ==
  ASSUME SocketsType, NEW c \in Conns, NEW kinds, "close" \notin kinds, Gateway!Receive(c, kinds)
  PROVE  Listening(ctrlSock[c]) /\ \A d \in Conns : HasClose(toController[d]) => HasClose(toController'[d])
<1>1. /\ Listening(ctrlSock[c]) /\ toController[c] # <<>>
      /\ Head(toController[c]).kind \in kinds
      /\ toController'[c] = Tail(toController[c])
      /\ \A d \in Conns \ {c} : toController'[d] = toController[d]
      /\ toController[c] \in Seq(AgentFrames)
  BY GatewayReceives DEF SocketsType
<1>2. Head(toController[c]).kind # "close"
  BY <1>1
<1>3. HasClose(toController[c]) => HasClose(toController'[c])
  BY <1>1, <1>2, ReadingTells
<1>4. QED
  BY <1>1, <1>3

(* The controller closes a connection: its close goes out before the end is closing. *)
LEMMA ControllerCloses ==
  ASSUME SocketsType, StreamsTell, UNCHANGED <<agentSock, broken>>, NEW c \in Conns,
         ctrlSock' = Closing(ctrlSock, c),
         \A d \in Conns : HasClose(toController[d]) => HasClose(toController'[d]),
         \A d \in Conns : HasClose(toAgent[d]) => HasClose(toAgent'[d]),
         c \notin broken /\ ctrlSock[c] = "open" /\ agentSock[c] # "closed" => HasClose(toAgent'[c])
  PROVE  StreamsTell'
<1>1. ctrlSock \in [Conns -> SocketStates]
  BY DEF SocketsType
<1>2. \A d \in Conns : \/ ctrlSock'[d] = ctrlSock[d]
                       \/ d = c /\ ctrlSock[d] = "open" /\ ctrlSock'[d] = "closing"
  BY <1>1, ClosingEffect
<1>3. \A d \in Conns : ctrlSock'[d] = "fresh" <=> ctrlSock[d] = "fresh"
  BY <1>2
<1>4. \A d \in Conns : Listening(ctrlSock'[d]) => Listening(ctrlSock[d])
  BY <1>2 DEF Listening
<1>5. ASSUME NEW d \in Conns \ broken, ctrlSock'[d] \in Ending, ctrlSock[d] \notin Ending,
             Listening(agentSock[d])
      PROVE  HasClose(toAgent'[d])
  BY <1>2, <1>5 DEF Listening
<1>6. QED
  BY <1>3, <1>4, <1>5, GatewayEndStep

(* The controller's end of a connection closes for good. *)
LEMMA ControllerEnds ==
  ASSUME SocketsType, StreamsTell, UNCHANGED <<agentSock, broken>>, NEW c \in Conns,
         ctrlSock[c] # "fresh", ctrlSock' = [ctrlSock EXCEPT ![c] = "closed"],
         \A d \in Conns \ {c} : HasClose(toController[d]) => HasClose(toController'[d]),
         \A d \in Conns : HasClose(toAgent[d]) => HasClose(toAgent'[d]),
         c \notin broken /\ ctrlSock[c] = "open" /\ agentSock[c] # "closed" => HasClose(toAgent'[c])
  PROVE  StreamsTell'
<1>1. ctrlSock \in [Conns -> SocketStates]
  BY DEF SocketsType
<1>2. ctrlSock'[c] = "closed" /\ \A d \in Conns \ {c} : ctrlSock'[d] = ctrlSock[d]
  BY <1>1
<1>3. \A d \in Conns : ctrlSock'[d] = "fresh" <=> ctrlSock[d] = "fresh"
  BY <1>2
<1>4. \A d \in Conns : Listening(ctrlSock'[d]) =>
        Listening(ctrlSock[d]) /\ (HasClose(toController[d]) => HasClose(toController'[d]))
  BY <1>2 DEF Listening
<1>5. ASSUME NEW d \in Conns \ broken, ctrlSock'[d] \in Ending, ctrlSock[d] \notin Ending,
             Listening(agentSock[d])
      PROVE  HasClose(toAgent'[d])
  <2>1. d = c
    BY <1>2, <1>5
  <2>2. ctrlSock[c] = "open"
    BY <1>1, <1>5, <2>1 DEF SocketStates, Ending
  <2>3. QED
    BY <1>5, <2>1, <2>2 DEF Listening
<1>6. QED
  BY <1>3, <1>4, <1>5, GatewayEndStep

(* What the controller sends, as the gateway's module names it. *)
LEMMA GatewaySendTells ==
  ASSUME NEW stream \in [Conns -> Seq(ControllerFrames)], NEW c \in Conns
  PROVE  /\ \A f \in ControllerFrames, d \in Conns :
              HasClose(stream[d]) => HasClose(Gateway!ControllerSends(stream, c, <<f>>)[d])
         /\ c \notin broken /\ ctrlSock[c] = "open" /\ agentSock[c] # "closed" =>
              HasClose(Gateway!ControllerSends(stream, c, <<Gateway!Frame("close")>>)[c])
<1>1. ASSUME NEW f \in ControllerFrames, NEW d \in Conns, HasClose(stream[d])
      PROVE  HasClose(Gateway!ControllerSends(stream, c, <<f>>)[d])
  <2>1. <<f>> \in Seq(ControllerFrames)
    OBVIOUS
  <2>2. HasClose(ControllerSends(stream, c, <<f>>)[d])
    BY <1>1, <2>1, ControllerTells
  <2>3. QED
    BY <2>2, SameSockets
<1>2. ASSUME c \notin broken, ctrlSock[c] = "open", agentSock[c] # "closed"
      PROVE  HasClose(Gateway!ControllerSends(stream, c, <<Gateway!Frame("close")>>)[c])
  <2>1. <<Frame("close")>> \in Seq(ControllerFrames)
    BY FramesAreFrames
  <2>2. HasClose(ControllerSends(stream, c, <<Frame("close")>>)[c])
    BY <1>2, <2>1, ControllerTells, CloseTells
  <2>3. QED
    BY <2>2, SameSockets
<1>3. QED
  BY <1>1, <1>2

LEMMA HelloTells ==
  ASSUME HopeInv, NEW c \in Conns, Gateway!HandleHello(c)
  PROVE  StreamsTell'
<1>1. /\ SocketsType /\ StreamsTell /\ toAgent \in [Conns -> Seq(ControllerFrames)]
      /\ byAgentId \in [Agents -> Conns \cup {None}]
  BY DEF HopeInv, SessionInv, SessionTypes, TypeOK, SocketsType, Gateway!GatewayType
<1> DEFINE previous == byAgentId[PeerOf[c]]
           welcomed == Gateway!ControllerSends(toAgent, c, <<Gateway!Frame("welcome")>>)
<1>2. Gateway!Receive(c, {"hello"}) /\ UNCHANGED <<agentSock, broken>>
  BY DEF Gateway!HandleHello
<1>3. \A d \in Conns : HasClose(toController[d]) => HasClose(toController'[d])
  BY <1>1, <1>2, ReceiveTells
<1>4. Gateway!Frame("welcome") \in ControllerFrames /\ Gateway!Frame("close") \in ControllerFrames
  BY FramesAreFrames, SameSockets
<1>5. /\ welcomed \in [Conns -> Seq(ControllerFrames)]
      /\ \A d \in Conns : HasClose(toAgent[d]) => HasClose(welcomed[d])
  BY <1>1, <1>4, GatewaySendsType, GatewaySendTells
<1>6. previous \in Conns \cup {None}
  BY <1>1, SameSockets
<1>7. CASE previous # None /\ previous # c
  <2>1. /\ ctrlSock' = Gateway!Closing(ctrlSock, previous)
        /\ toAgent' = Gateway!ControllerSends(welcomed, previous, <<Gateway!Frame("close")>>)
    BY <1>7 DEF Gateway!HandleHello
  <2> HIDE DEF welcomed
  <2>2. previous \in Conns /\ ctrlSock' = Closing(ctrlSock, previous)
    BY <1>6, <1>7, <2>1, SameSockets
  <2> HIDE DEF previous
  <2>3. /\ \A d \in Conns : HasClose(welcomed[d]) => HasClose(toAgent'[d])
        /\ previous \notin broken /\ ctrlSock[previous] = "open" /\ agentSock[previous] # "closed"
             => HasClose(toAgent'[previous])
    BY <1>4, <1>5, <2>1, <2>2, GatewaySendTells
  <2>4. \A d \in Conns : HasClose(toAgent[d]) => HasClose(toAgent'[d])
    BY <1>5, <2>3
  <2>5. QED
    BY <1>1, <1>2, <1>3, <2>2, <2>3, <2>4, ControllerCloses
<1>8. CASE ~(previous # None /\ previous # c)
  <2>1. toAgent' = welcomed /\ ctrlSock' = ctrlSock
    BY <1>8 DEF Gateway!HandleHello
  <2>2. QED
    BY <1>1, <1>2, <1>3, <1>5, <2>1, GatewayEndStep
<1>9. QED
  BY <1>7, <1>8

LEMMA RejectTells ==
  ASSUME HopeInv, NEW c \in Conns, Gateway!RejectUnknown(c)
  PROVE  StreamsTell'
<1>1. SocketsType /\ StreamsTell /\ toAgent \in [Conns -> Seq(ControllerFrames)]
  BY DEF HopeInv, SessionInv, SessionTypes, TypeOK, SocketsType
<1>2. Gateway!Receive(c, {"beat", "ack", "result"}) /\ UNCHANGED <<agentSock, broken>>
  BY SameSockets DEF Gateway!RejectUnknown
<1>3. \A d \in Conns : HasClose(toController[d]) => HasClose(toController'[d])
  BY <1>1, <1>2, ReceiveTells
<1>4. /\ ctrlSock' = Closing(ctrlSock, c)
      /\ toAgent' = ControllerSends(toAgent, c, <<Frame("reject"), Frame("close")>>)
  BY SameSockets DEF Gateway!RejectUnknown
<1>5. <<Frame("reject"), Frame("close")>> \in Seq(ControllerFrames)
  BY FramesAreFrames
<1>6. /\ \A d \in Conns : HasClose(toAgent[d]) => HasClose(toAgent'[d])
      /\ c \notin broken /\ ctrlSock[c] = "open" /\ agentSock[c] # "closed" => HasClose(toAgent'[c])
  BY <1>1, <1>4, <1>5, CloseTells, ControllerTells
<1>7. QED
  BY <1>1, <1>2, <1>3, <1>4, <1>6, ControllerCloses

LEMMA EndTells ==
  ASSUME HopeInv, NEW c \in Conns,
         Gateway!SocketClosed(c) \/ Gateway!SocketFails(c) \/ Gateway!Sweep(c)
  PROVE  StreamsTell'
<1>1. SocketsType /\ StreamsTell /\ toAgent \in [Conns -> Seq(ControllerFrames)]
  BY DEF HopeInv, SessionInv, SessionTypes, TypeOK, SocketsType
<1>2. /\ ctrlSock' = [ctrlSock EXCEPT ![c] = "closed"]
      /\ UNCHANGED <<agentSock, broken>>
  BY DEF Gateway!SocketClosed, Gateway!SocketFails, Gateway!Sweep
<1>3. ctrlSock[c] # "fresh"
  <2>1. CASE Gateway!SocketClosed(c)
    BY <1>1, <2>1, GatewayReceives DEF Gateway!SocketClosed, Listening
  <2>2. CASE Gateway!SocketFails(c)
    BY <2>2, SameSockets DEF Gateway!SocketFails, Listening
  <2>3. CASE Gateway!Sweep(c)
    <3>1. c \in connections
      BY <2>3 DEF Gateway!Sweep, Gateway!Silent
    <3>2. QED
      BY <3>1 DEF HopeInv, SessionInv, FreshIsUnknown, StreamsTell, OpenedTogether
  <2>4. QED
    BY <2>1, <2>2, <2>3
<1>4. \A d \in Conns \ {c} : toController'[d] = toController[d]
  <2>1. CASE Gateway!SocketClosed(c)
    BY <1>1, <2>1, GatewayReceives DEF Gateway!SocketClosed
  <2>2. CASE Gateway!SocketFails(c)
    BY <2>2 DEF Gateway!SocketFails
  <2>3. CASE Gateway!Sweep(c)
    BY <1>1, <2>3 DEF Gateway!Sweep, SocketsType
  <2>4. QED
    BY <2>1, <2>2, <2>3
<1>5. CASE Gateway!SocketClosed(c) \/ Gateway!Sweep(c)
  <2>1. toAgent' = ControllerSends(toAgent, c, <<Frame("close")>>)
    BY <1>5, SameSockets DEF Gateway!SocketClosed, Gateway!Sweep
  <2>2. <<Frame("close")>> \in Seq(ControllerFrames)
    BY FramesAreFrames
  <2>3. /\ \A d \in Conns : HasClose(toAgent[d]) => HasClose(toAgent'[d])
        /\ c \notin broken /\ ctrlSock[c] = "open" /\ agentSock[c] # "closed" => HasClose(toAgent'[c])
    BY <1>1, <2>1, <2>2, CloseTells, ControllerTells
  <2>4. QED
    BY <1>1, <1>2, <1>3, <1>4, <2>3, ControllerEnds
<1>6. CASE Gateway!SocketFails(c)
  <2>1. c \in broken /\ toAgent' = toAgent
    BY <1>6 DEF Gateway!SocketFails
  <2>2. QED
    BY <1>1, <1>2, <1>3, <1>4, <2>1, ControllerEnds
<1>7. QED
  BY <1>5, <1>6

(* The steps of the gateway that close nothing. *)
LEMMA RoutineTells ==
  ASSUME HopeInv,
         \/ \E c \in Conns : Gateway!HandleBeat(c) \/ Gateway!HandleResult(c)
         \/ \E a \in Agents, id \in Ids : Gateway!SendCommand(a, id) \/ Gateway!CommandEnds(a, id)
  PROVE  StreamsTell'
<1>1. /\ SocketsType /\ StreamsTell /\ toAgent \in [Conns -> Seq(ControllerFrames)]
      /\ byAgentId \in [Agents -> Conns \cup {None}]
  BY DEF HopeInv, SessionInv, SessionTypes, TypeOK, SocketsType, Gateway!GatewayType
<1>2. UNCHANGED <<ctrlSock, agentSock, broken>>
  BY DEF Gateway!HandleBeat, Gateway!HandleResult, Gateway!SendCommand, Gateway!CommandEnds,
     Gateway!sockets
<1>3. \A d \in Conns : HasClose(toController[d]) => HasClose(toController'[d])
  <2>1. ASSUME NEW c \in Conns, Gateway!HandleBeat(c) \/ Gateway!HandleResult(c)
        PROVE  \A d \in Conns : HasClose(toController[d]) => HasClose(toController'[d])
    <3>1. PICK kinds \in {{"beat", "ack"}, {"result"}} : Gateway!Receive(c, kinds)
      BY <2>1 DEF Gateway!HandleBeat, Gateway!HandleResult
    <3>2. QED
      BY <1>1, <3>1, ReceiveTells
  <2>2. QED
    BY <2>1 DEF Gateway!SendCommand, Gateway!CommandEnds, Gateway!sockets
<1>4. \/ toAgent' = toAgent
      \/ \E c \in Conns, f \in ControllerFrames :
           toAgent' = Gateway!ControllerSends(toAgent, c, <<f>>)
  <2>1. ASSUME NEW a \in Agents, byAgentId[a] # None
        PROVE  byAgentId[a] \in Conns
    BY <1>1, <2>1
  <2>2. ASSUME NEW c \in Conns, Gateway!HandleResult(c)
        PROVE  \/ toAgent' = toAgent
               \/ \E d \in Conns, f \in ControllerFrames :
                    toAgent' = Gateway!ControllerSends(toAgent, d, <<f>>)
    <3>1. \/ toAgent' = toAgent
          \/ \E a \in Agents : /\ Gateway!CanSend(a)
                               /\ toAgent' = Gateway!ControllerSends(toAgent, byAgentId[a],
                                                                     <<Gateway!Frame("refresh")>>)
      BY <2>2 DEF Gateway!HandleResult
    <3>2. Gateway!Frame("refresh") \in ControllerFrames
      BY FramesAreFrames, SameSockets
    <3>3. QED
      BY <2>1, <3>1, <3>2 DEF Gateway!CanSend
  <2>3. ASSUME NEW a \in Agents, NEW id \in Ids, Gateway!SendCommand(a, id)
        PROVE  \E d \in Conns, f \in ControllerFrames :
                 toAgent' = Gateway!ControllerSends(toAgent, d, <<f>>)
    <3>1. /\ byAgentId[a] # None
          /\ toAgent' = Gateway!ControllerSends(toAgent, byAgentId[a],
                                                <<Gateway!FrameFor("command", id)>>)
      BY <2>3 DEF Gateway!SendCommand, Gateway!IsOnline
    <3>2. Gateway!FrameFor("command", id) \in ControllerFrames
      BY FramesAreFrames, SameSockets
    <3>3. QED
      BY <2>1, <3>1, <3>2
  <2>4. (\E c \in Conns : Gateway!HandleBeat(c))
          \/ (\E a \in Agents, id \in Ids : Gateway!CommandEnds(a, id)) => toAgent' = toAgent
    BY DEF Gateway!HandleBeat, Gateway!CommandEnds, Gateway!sockets
  <2>5. QED
    BY <2>2, <2>3, <2>4
<1>5. \A d \in Conns : HasClose(toAgent[d]) => HasClose(toAgent'[d])
  BY <1>1, <1>4, GatewaySendTells
<1>6. QED
  BY <1>1, <1>2, <1>3, <1>5, GatewayEndStep

LEMMA GatewayTellsAgent ==
  ASSUME HopeInv, Gateway!GatewaySteps
  PROVE  StreamsTell'
BY HelloTells, RejectTells, EndTells, RoutineTells DEF Gateway!GatewaySteps

LEMMA BreakTells ==
  ASSUME HopeInv, NEW c \in Conns, Breaks(c)
  PROVE  StreamsTell'
<1>1. StreamsTell /\ SocketsType
  BY DEF HopeInv, SessionInv, SessionTypes, TypeOK
<1>2. /\ broken' = broken \cup {c} /\ UNCHANGED <<ctrlSock, agentSock>>
      /\ \A d \in Conns \ {c} : toController'[d] = toController[d] /\ toAgent'[d] = toAgent[d]
  BY <1>1 DEF Breaks, Break, SocketsType
<1>3. QED
  BY <1>1, <1>2 DEF StreamsTell, OpenedTogether, AgentIsTold, GatewayIsTold

(* The transport, the timer and the dial. *)
LEMMA AgentKeepsHope ==
  ASSUME HopeInv, AgentWorks
  PROVE  TransportListens' /\ AwaitsConnection'
<1>1. /\ agentSock \in [Conns -> SocketStates] /\ transport \in Conns \cup {None}
      /\ stopped \in BOOLEAN /\ reconnectTimer \in BOOLEAN
      /\ dial \in {"idle", "dialing", "discovering"}
      /\ TransportListens /\ AwaitsConnection
  BY DEF HopeInv, SessionInv, SessionTypes, TypeOK, SocketsType, RuntimeType
<1>2. CASE SendHello \/ PushObservedState \/ Tick
            \/ \E id \in Ids : Answer(id) \/ \E ok \in BOOLEAN : Execute(id, ok)
  <2>1. /\ UNCHANGED <<agentSock, stopped, transport, reconnectTimer>>
        /\ dial' = dial \/ (dial = "discovering" /\ dial' = "idle")
    BY <1>2 DEF SendHello, PushObservedState, Tick, Answer, Execute, sockets
  <2>2. QED
    BY <1>1, <2>1 DEF TransportListens, AwaitsConnection, Fresh
<1>3. CASE ConnectFails
  BY <1>1, <1>3 DEF ConnectFails, ScheduleReconnect, TransportListens, AwaitsConnection, Fresh, sockets
<1>4. CASE Reconnect
  BY <1>1, <1>4 DEF Reconnect, MayDial, TransportListens, AwaitsConnection, Fresh, sockets
<1>5. ASSUME NEW c \in Conns, ReceiveWelcome(c) \/ ReceiveRefresh(c) \/ ReceiveCommand(c)
      PROVE  TransportListens' /\ AwaitsConnection'
  <2>1. UNCHANGED <<agentSock, stopped, transport, reconnectTimer, dial>>
    BY <1>5 DEF ReceiveWelcome, ReceiveRefresh, ReceiveCommand
  <2>2. QED
    BY <1>1, <2>1 DEF TransportListens, AwaitsConnection, Fresh
<1>6. ASSUME NEW c \in Conns, SocketLost(c) \/ ReceiveClose(c)
      PROVE  TransportListens' /\ AwaitsConnection'
  <2>1. /\ agentSock' = [agentSock EXCEPT ![c] = "closed"] /\ OnClose(c)
        /\ UNCHANGED <<stopped, dial>>
    BY <1>6 DEF SocketLost, ReceiveClose
  <2>2. \A d \in Conns : /\ d # c => agentSock'[d] = agentSock[d]
                         /\ agentSock'[d] = "fresh" => agentSock[d] = "fresh"
    BY <1>1, <2>1
  <2>3. CASE transport = c
    <3>1. transport' = None /\ reconnectTimer' = (reconnectTimer \/ ~stopped)
      BY <2>1, <2>3 DEF OnClose, ScheduleReconnect
    <3>2. QED
      BY <2>1, <3>1 DEF TransportListens, AwaitsConnection
  <2>4. CASE transport # c
    <3>1. transport' = transport /\ reconnectTimer' = reconnectTimer
      BY <2>1, <2>4 DEF OnClose
    <3>2. TransportListens'
      BY <1>1, <2>2, <2>4, <3>1 DEF TransportListens
    <3>3. Fresh = {} => Fresh' = {}
      BY <2>2 DEF Fresh
    <3>4. AwaitsConnection'
      BY <1>1, <2>1, <3>1, <3>3 DEF AwaitsConnection
    <3>5. QED
      BY <3>2, <3>4
  <2>5. QED
    BY <2>3, <2>4
<1>7. ASSUME (\E c \in Conns : ReceiveReject(c)) \/ Stop
      PROVE  TransportListens' /\ AwaitsConnection'
  <2>1. agentSock' = agentSock \/ (transport \in Conns /\ agentSock' = Closing(agentSock, transport))
    BY <1>1, <1>7 DEF ReceiveReject, Stop
  <2>2. \A d \in Conns : \/ agentSock'[d] = agentSock[d]
                         \/ agentSock[d] = "open" /\ agentSock'[d] = "closing"
    BY <1>1, <2>1, ClosingEffect
  <2>3. CASE Stop
    BY <2>3 DEF Stop, TransportListens, AwaitsConnection
  <2>4. CASE \E c \in Conns : ReceiveReject(c)
    <3>1. UNCHANGED <<stopped, transport, reconnectTimer, dial>>
      BY <2>4 DEF ReceiveReject, runtime
    <3>2. TransportListens'
      BY <1>1, <2>2, <3>1 DEF TransportListens, Listening
    <3>3. Fresh = {} => Fresh' = {}
      BY <2>2 DEF Fresh
    <3>4. AwaitsConnection'
      BY <1>1, <3>1, <3>3 DEF AwaitsConnection
    <3>5. QED
      BY <3>2, <3>4
  <2>5. QED
    BY <1>7, <2>3, <2>4
<1>8. QED
  BY <1>2, <1>3, <1>4, <1>5, <1>6, <1>7 DEF AgentWorks

LEMMA HopeStep ==
  ASSUME HopeInv, [Next]_vars
  PROVE  HopeInv'
<1>1. SessionInv'
  BY SessionInvStep DEF HopeInv
<1>2. CASE Opens
  <2>1. Connected
    BY <1>2 DEF Opens
  <2>2. /\ attempt \in Conns /\ transport' = attempt /\ agentSock'[attempt] = "open"
    BY <2>1 DEF Connected, HopeInv, SessionInv, SessionTypes, TypeOK, SocketsType, DialHasAttempt
  <2>3. TransportListens' /\ AwaitsConnection'
    BY <2>2, RuntimeAssumption DEF TransportListens, AwaitsConnection, Listening
  <2>4. QED
    BY <1>1, <2>1, <2>3, OpeningTells DEF HopeInv
<1>3. CASE Controller
  <2>1. Gateway!GatewaySteps /\ UNCHANGED runtime
    BY <1>3 DEF Controller
  <2>2. UNCHANGED <<agentSock, dial, transport, stopped, reconnectTimer>>
    BY <2>1, GatewayLeavesAgent DEF runtime
  <2>3. TransportListens' /\ AwaitsConnection'
    BY <2>2 DEF HopeInv, TransportListens, AwaitsConnection, Fresh
  <2>4. QED
    BY <1>1, <2>1, <2>3, GatewayTellsAgent DEF HopeInv
<1>4. CASE AgentWorks
  BY <1>1, <1>4, AgentTellsGateway, AgentKeepsHope DEF HopeInv
<1>5. ASSUME NEW c \in Conns, Breaks(c) PROVE HopeInv'
  <2>1. UNCHANGED <<agentSock, dial, transport, stopped, reconnectTimer>>
    BY <1>5 DEF Breaks, Break, runtime
  <2>2. TransportListens' /\ AwaitsConnection'
    BY <2>1 DEF HopeInv, TransportListens, AwaitsConnection, Fresh
  <2>3. QED
    BY <1>1, <1>5, <2>2, BreakTells DEF HopeInv
<1>6. CASE UNCHANGED vars
  BY <1>1, <1>6 DEF vars, sockets, runtime, HopeInv, StreamsTell, OpenedTogether, AgentIsTold,
     GatewayIsTold, TransportListens, AwaitsConnection, Fresh
<1>7. QED
  BY <1>2, <1>3, <1>4, <1>5, <1>6 DEF Next

(***************************************************************************)
(* The safety half of Reconnects: however closes, breaks, timers, dials    *)
(* and rejections interleave, the agent is connected, or about to learn    *)
(* that it is not, or about to dial again (a discovery that outlasts the   *)
(* reconnect delay excepted, which is what agent_stuck shows).             *)
(***************************************************************************)
THEOREM AgentIsNeverStranded == Spec => []NeverStranded
<1>1. ASSUME HopeInv PROVE NeverStranded
  <2>1. ASSUME transport # None
        PROVE  \/ ctrlSock[transport] = "open"
               \/ transport \in broken
               \/ HasClose(toAgent[transport])
    <3>1. transport \in Conns /\ ctrlSock[transport] \in SocketStates
      BY <1>1, <2>1 DEF HopeInv, SessionInv, SessionTypes, TypeOK, SocketsType, RuntimeType
    <3>2. Listening(agentSock[transport]) /\ ctrlSock[transport] # "fresh"
      BY <1>1, <2>1, <3>1 DEF HopeInv, TransportListens, StreamsTell, OpenedTogether, Listening
    <3>3. QED
      BY <1>1, <3>1, <3>2 DEF HopeInv, StreamsTell, AgentIsTold, SocketStates, Ending
  <2>2. QED
    BY <1>1, <2>1 DEF HopeInv, NeverStranded, TransportListens
<1>2. QED
  BY <1>1, HopeInit, HopeStep, PTL DEF Spec

(***************************************************************************)
(* The same for the gateway: an end that still listens on a connection the *)
(* agent has closed has the agent's close coming, unless the network lost  *)
(* it; then only the sweep is left, and that is why there is one.          *)
(***************************************************************************)
THEOREM ClosesAreToldToGateway == Spec => []GatewayIsTold
<1>1. HopeInv => GatewayIsTold
  BY DEF HopeInv, StreamsTell
<1>2. QED
  BY <1>1, HopeInit, HopeStep, PTL DEF Spec
=============================================================================
