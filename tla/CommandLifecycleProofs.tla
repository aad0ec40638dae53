----------------------- MODULE CommandLifecycleProofs -----------------------
(***************************************************************************)
(* CommandService implements CommandLifecycle, and a concluded command     *)
(* keeps its verdict: what every step does to the command store, for every *)
(* desk, every set of ids and every number of requests.                    *)
(***************************************************************************)
EXTENDS CommandServiceProofs

Verdicts == {"succeeded", "failed", "timed-out"}

(* A step that issues id for target t. *)
Issues(id, t) ==
  /\ commands' \in [Ids -> Command \cup {NoCommand}]
  /\ commands'[id].status \in {"dispatched", "failed"}
  /\ commands'[id].target = t
  /\ commands'[id].issuedAt = issued + 1
  /\ \A j \in Ids \ {id} :
       commands'[j] \in {WithStatus(InFlightForTarget(t), "superseded")[j], NoCommand}

(* A step that gives commands in flight the same new status, possibly none of them. *)
Moves(ids, status) ==
  /\ \A id \in ids : InFlight(id)
  /\ commands' = WithStatus(ids, status)

-----------------------------------------------------------------------------
(* A request leaves the store in one of the two ways its dispatch can go. *)
LEMMA RequestIssues ==
  ASSUME ServiceInv, NEW id \in Ids, NEW t \in Targets, NEW v \in Payloads(t),
         IssueAndDispatch(id, t, v) \/ IssueAndFail(id, t, v)
  PROVE  Issues(id, t)
<1>1. issued < MaxIssues
  BY DEF IssueAndDispatch, IssueAndFail, Request
<1>2. \E status \in {"dispatched", "failed"}, agent \in Agents \cup {None} :
        commands' = Created(id, t, v, status, agent)
  BY PathIsAgent DEF IssueAndDispatch, IssueAndFail
<1>3. PICK status \in {"dispatched", "failed"}, agent \in Agents \cup {None} :
        commands' = Created(id, t, v, status, agent)
  BY <1>2
<1>4. status \in Statuses
  BY DEF Statuses, InFlightStatuses, TerminalStatuses
<1>5. /\ commands' \in [Ids -> Command \cup {NoCommand}]
      /\ commands'[id] = [target |-> t, value |-> v, status |-> status,
                          agent |-> agent, issuedAt |-> issued + 1]
      /\ \A j \in Ids \ {id} :
           commands'[j] \in {WithStatus(InFlightForTarget(t), "superseded")[j], NoCommand}
  BY <1>1, <1>3, <1>4, CreatedEffect
<1>6. QED
  BY <1>5 DEF Issues

(***************************************************************************)
(* A step issues one command, acknowledges one in flight, gives some in    *)
(* flight one verdict, or leaves the store as it is.                       *)
(***************************************************************************)
LEMMA EveryStep ==
  ASSUME ServiceInv, [Next]_vars
  PROVE  \/ \E id \in Ids, t \in Targets : Issues(id, t)
         \/ \E id \in Ids : Moves({id}, "acked")
         \/ \E ids \in SUBSET Ids, verdict \in Verdicts : Moves(ids, verdict)
         \/ commands' = commands
<1>1. ASSUME NEW id \in Ids, NEW t \in Targets, NEW v \in Payloads(t),
             IssueAndDispatch(id, t, v) \/ IssueAndFail(id, t, v)
      PROVE  Issues(id, t)
  BY <1>1, RequestIssues
<1>2. ASSUME NEW id \in Ids, OnAgentAck(id)
      PROVE  Moves({id}, "acked")
  BY <1>2 DEF OnAgentAck, Awaited, Moves
<1>3. ASSUME NEW id \in Ids, NEW ok \in BOOLEAN, OnAgentResult(id, ok)
      PROVE  \E verdict \in Verdicts : Moves({id}, verdict)
  <2>1. (IF ok THEN "succeeded" ELSE "failed") \in Verdicts
    BY DEF Verdicts
  <2>2. Moves({id}, IF ok THEN "succeeded" ELSE "failed")
    BY <1>3 DEF OnAgentResult, Awaited, Moves
  <2>3. QED
    BY <2>1, <2>2
<1>4. ASSUME NEW entry \in running, Timeout(entry[1], entry[2])
      PROVE  \/ \E verdict \in Verdicts : Moves({entry[1]}, verdict)
             \/ commands' = commands
  <2>1. "timed-out" \in Verdicts
    BY DEF Verdicts
  <2>2. CASE InFlight(entry[1])
    BY <1>4, <2>1, <2>2 DEF Timeout, Overdue, Moves
  <2>3. CASE ~InFlight(entry[1])
    BY <1>4, <2>3 DEF Timeout, Overdue
  <2>4. QED
    BY <2>2, <2>3
<1>5. ASSUME NEW a \in Agents, AgentLost(a)
      PROVE  \E ids \in SUBSET Ids, verdict \in Verdicts : Moves(ids, verdict)
  <2>1. CommandsOf(a) \in SUBSET Ids /\ "failed" \in Verdicts
    BY DEF CommandsOf, Verdicts
  <2>2. Moves(CommandsOf(a), "failed")
    BY <1>5 DEF AgentLost, Moves, CommandsOf
  <2>3. QED
    BY <2>1, <2>2
<1>6. ASSUME NEW m \in Monitors,
             \/ \E i \in Inputs : Observe(m, i)
             \/ \E i \in Inputs \cup {None} : LoseSight(m, i)
      PROVE  commands' = commands
  BY <1>6 DEF Observe, LoseSight
<1>7. ASSUME NEW a \in Agents, AgentHello(a) \/ SocketDrops(a)
      PROVE  commands' = commands
  BY <1>7 DEF AgentHello, SocketDrops
<1>8. CASE UNCHANGED vars
  BY <1>8 DEF vars
<1>9. ASSUME NEW entry \in running
      PROVE  entry[1] \in Ids
  BY <1>9 DEF ServiceInv, TypeOK
<1>10. ASSUME NEW id \in Ids, NEW verdict \in Verdicts, Moves({id}, verdict)
       PROVE  \E ids \in SUBSET Ids : Moves(ids, verdict)
  BY <1>10
<1>11. QED
  BY <1>1, <1>2, <1>3, <1>4, <1>5, <1>6, <1>7, <1>8, <1>9, <1>10 DEF Next

-----------------------------------------------------------------------------
(* Verdicts are final *)

(* One step: a concluded command is issued again, forgotten, or left alone. *)
LEMMA StepKeepsVerdicts ==
  ASSUME ServiceInv, [Next]_vars, NEW id \in Ids, IsTerminal(commands[id].status),
         commands'[id].issuedAt = commands[id].issuedAt
  PROVE  commands'[id] = commands[id]
<1>1. ~InFlight(id)
  BY DEF InFlight, IsInFlight, IsTerminal, InFlightStatuses, TerminalStatuses
<1>2. commands[id] \in Command
  BY DEF ServiceInv, TypeOK, IsTerminal, TerminalStatuses, NoCommand, Unknown
<1>3. commands[id].issuedAt \in 1..MaxIssues /\ commands[id].issuedAt <= issued
  BY <1>2 DEF Command, ServiceInv, IssuedInOrder
<1>4. ASSUME NEW other \in Ids, NEW t \in Targets, Issues(other, t)
      PROVE  commands'[id] = commands[id]
  <2>1. issued \in Nat
    BY CommandAssumption DEF ServiceInv, TypeOK
  <2>2. id # other
    BY <1>3, <1>4, <2>1 DEF Issues
  <2>3. commands'[id] # NoCommand
    BY <1>3 DEF NoCommand
  <2>4. commands'[id] = WithStatus(InFlightForTarget(t), "superseded")[id]
    BY <1>4, <2>2, <2>3 DEF Issues
  <2>5. id \notin InFlightForTarget(t)
    BY <1>1 DEF InFlightForTarget
  <2>6. QED
    BY <2>4, <2>5 DEF WithStatus
<1>5. ASSUME NEW ids \in SUBSET Ids, NEW status, Moves(ids, status)
      PROVE  commands'[id] = commands[id]
  BY <1>1, <1>5 DEF Moves, WithStatus
<1>6. ASSUME NEW other \in Ids, Moves({other}, "acked")
      PROVE  commands'[id] = commands[id]
  BY <1>1, <1>6 DEF Moves, WithStatus
<1>7. QED
  BY <1>4, <1>5, <1>6, EveryStep

(***************************************************************************)
(* A late acknowledgement, a repeated result, a timer that fires late or   *)
(* the loss of an agent never changes a verdict that onAgentResult,        *)
(* supersede, failCommand or a timeout has written.                        *)
(***************************************************************************)
THEOREM VerdictsAreFinal == Spec => TerminalIsFinal
<1>1. ServiceInv /\ [Next]_vars =>
        [\A id \in Ids :
           IsTerminal(commands[id].status) /\ commands'[id].issuedAt = commands[id].issuedAt
             => commands'[id] = commands[id]]_vars
  BY StepKeepsVerdicts
<1>2. QED
  BY <1>1, ServiceInvariant, PTL DEF Spec, TerminalIsFinal

-----------------------------------------------------------------------------
(* The service implements the lifecycle *)

LifeOf(c) == [status |-> c.status, target |-> c.target]
life == [id \in Ids |-> [status |-> commands[id].status, target |-> commands[id].target]]

LEMMA LifeInit == Init => Lifecycle!Init
BY DEF Init, Lifecycle!Init, Lifecycle!Nothing, NoCommand, Lifecycle!Unknown, Unknown

(* The records of the store are lives of the right type. *)
LEMMA LifeIsTyped ==
  ASSUME NEW cmds \in [Ids -> Command \cup {NoCommand}]
  PROVE  [id \in Ids |-> LifeOf(cmds[id])] \in Lifecycle!LifeType
<1>1. ASSUME NEW c \in Command \cup {NoCommand}
      PROVE  LifeOf(c) \in [status : Statuses \cup {Unknown}, target : Targets \cup {None}]
  BY DEF LifeOf, Command, NoCommand
<1>2. QED
  BY <1>1 DEF Lifecycle!LifeType, Lifecycle!Statuses, Lifecycle!Unknown, Lifecycle!InFlightStatuses,
              Lifecycle!TerminalStatuses, Statuses, Unknown, InFlightStatuses, TerminalStatuses

LEMMA LifeAt ==
  ASSUME NEW id \in Ids
  PROVE  /\ life[id] = LifeOf(commands[id])
         /\ life'[id] = LifeOf(commands'[id])
         /\ Lifecycle!Active(id) <=> InFlight(id)
BY DEF life, LifeOf, Lifecycle!Active, Lifecycle!IsInFlight, Lifecycle!InFlightStatuses,
       InFlight, IsInFlight, InFlightStatuses

(* What becomes of a command in one step of WithStatus, seen as a life. *)
LEMMA StatusOfLife ==
  ASSUME NEW ids \in SUBSET Ids, NEW status, NEW id \in Ids,
         commands[id] \in Command \cup {NoCommand}
  PROVE  LifeOf(WithStatus(ids, status)[id]) =
           IF id \in ids THEN [LifeOf(commands[id]) EXCEPT !.status = status]
           ELSE LifeOf(commands[id])
<1>1. CASE id \in ids
  <2>1. WithStatus(ids, status)[id] = [commands[id] EXCEPT !.status = status]
    BY <1>1 DEF WithStatus
  <2>2. /\ [commands[id] EXCEPT !.status = status].status = status
        /\ [commands[id] EXCEPT !.status = status].target = commands[id].target
    BY DEF Command, NoCommand
  <2>3. [LifeOf(commands[id]) EXCEPT !.status = status] =
          [status |-> status, target |-> commands[id].target]
    BY DEF LifeOf
  <2>4. QED
    BY <1>1, <2>1, <2>2, <2>3 DEF LifeOf
<1>2. CASE id \notin ids
  BY <1>2 DEF WithStatus
<1>3. QED
  BY <1>1, <1>2

(* A request is an Issue: what createCommand retires is what the lifecycle retires. *)
LEMMA IssuesIsIssue ==
  ASSUME ServiceInv, NEW id \in Ids, NEW t \in Targets, Issues(id, t)
  PROVE  Lifecycle!Issue(id, t)
<1>1. life' \in Lifecycle!LifeType
  BY LifeIsTyped DEF Issues, life, LifeOf
<1>2. life'[id].status \in {"pending", "dispatched", "failed"} /\ life'[id].target = t
  BY DEF Issues, life
<1>3. ASSUME NEW other \in Ids \ {id}
      PROVE  life'[other] \in {Lifecycle!Retired(other, t), Lifecycle!Nothing}
  <2>1. CASE commands'[other] = NoCommand
    <3>1. life'[other] = [status |-> Unknown, target |-> None]
      BY <2>1 DEF life, NoCommand
    <3>2. Lifecycle!Nothing = [status |-> Unknown, target |-> None]
      BY DEF Lifecycle!Nothing, Lifecycle!Unknown, Unknown
    <3>3. QED
      BY <3>1, <3>2
  <2>2. CASE commands'[other] = WithStatus(InFlightForTarget(t), "superseded")[other]
    <3>1. other \in InFlightForTarget(t) <=> InFlight(other) /\ commands[other].target = t
      BY SupersedesAll DEF ServiceInv
    <3>2. InFlightForTarget(t) \in SUBSET Ids
      BY SupersedesAll DEF ServiceInv
    <3>3. commands[other] \in Command \cup {NoCommand}
      BY DEF ServiceInv, TypeOK
    <3>4. life'[other] = IF other \in InFlightForTarget(t)
                         THEN [life[other] EXCEPT !.status = "superseded"]
                         ELSE life[other]
      BY <2>2, <3>2, <3>3, StatusOfLife, LifeAt
    <3>5. life[other].target = commands[other].target
      BY DEF life
    <3>6. Lifecycle!Retired(other, t) =
            IF Lifecycle!Active(other) /\ life[other].target = t
            THEN [life[other] EXCEPT !.status = "superseded"]
            ELSE life[other]
      BY DEF Lifecycle!Retired, life
    <3>7. QED
      BY <3>1, <3>4, <3>5, <3>6, LifeAt
  <2>3. QED
    BY <1>3, <2>1, <2>2 DEF Issues
<1>4. QED
  BY <1>1, <1>2, <1>3 DEF Lifecycle!Issue, life

(* Giving commands in flight a status gives their lives that status. *)
LEMMA MovesLives ==
  ASSUME ServiceInv, NEW ids \in SUBSET Ids, NEW status, Moves(ids, status)
  PROVE  /\ \A id \in ids : Lifecycle!Active(id)
         /\ life' = [id \in Ids |-> IF id \in ids THEN [life[id] EXCEPT !.status = status]
                                    ELSE life[id]]
<1>1. \A id \in ids : Lifecycle!Active(id)
  BY LifeAt DEF Moves
<1>2. ASSUME NEW id \in Ids
      PROVE  life'[id] = IF id \in ids THEN [life[id] EXCEPT !.status = status] ELSE life[id]
  <2>1. commands[id] \in Command \cup {NoCommand}
    BY DEF ServiceInv, TypeOK
  <2>2. commands'[id] = WithStatus(ids, status)[id]
    BY DEF Moves
  <2>3. LifeOf(WithStatus(ids, status)[id]) =
          IF id \in ids THEN [LifeOf(commands[id]) EXCEPT !.status = status]
          ELSE LifeOf(commands[id])
    BY <2>1, StatusOfLife
  <2>4. life[id] = LifeOf(commands[id]) /\ life'[id] = LifeOf(commands'[id])
    BY LifeAt
  <2>5. QED
    BY <2>2, <2>3, <2>4, Zenon
<1>3. QED
  BY <1>1, <1>2 DEF life

(* Every step of the service is a step of the lifecycle or leaves it alone. *)
LEMMA LifeStep == ServiceInv /\ [Next]_vars => [Lifecycle!Next]_life
<1> SUFFICES ASSUME ServiceInv, [Next]_vars PROVE Lifecycle!Next \/ UNCHANGED life
  OBVIOUS
<1>1. ASSUME NEW id \in Ids, NEW t \in Targets, Issues(id, t)
      PROVE  Lifecycle!Next
  BY <1>1, IssuesIsIssue DEF Lifecycle!Next
<1>2. ASSUME NEW id \in Ids, Moves({id}, "acked")
      PROVE  Lifecycle!Next
  <2>1. /\ Lifecycle!Active(id)
        /\ life' = [i \in Ids |-> IF i \in {id} THEN [life[i] EXCEPT !.status = "acked"]
                                  ELSE life[i]]
    BY <1>2, MovesLives
  <2>2. life' = [life EXCEPT ![id] = [life[id] EXCEPT !.status = "acked"]]
    BY <2>1 DEF life
  <2>3. Lifecycle!Acknowledge(id)
    BY <2>1, <2>2 DEF Lifecycle!Acknowledge, life
  <2>4. QED
    BY <2>3 DEF Lifecycle!Next
<1>3. ASSUME NEW ids \in SUBSET Ids, NEW verdict \in Verdicts, Moves(ids, verdict)
      PROVE  Lifecycle!Next
  <2>1. /\ \A id \in ids : Lifecycle!Active(id)
        /\ life' = [id \in Ids |-> IF id \in ids THEN [life[id] EXCEPT !.status = verdict]
                                   ELSE life[id]]
    BY <1>3, MovesLives
  <2>2. Lifecycle!Conclude(ids)
    BY <2>1 DEF Lifecycle!Conclude, Verdicts, life
  <2>3. QED
    BY <2>2 DEF Lifecycle!Next
<1>4. CASE commands' = commands
  BY <1>4 DEF life
<1>5. QED
  BY <1>1, <1>2, <1>3, <1>4, EveryStep

(***************************************************************************)
(* The command service implements the lifecycle that docs/protocol.md      *)
(* gives a command: requests, acknowledgements, answers, timeouts and lost *)
(* agents are its steps, supersession included, and nothing else moves a   *)
(* command.                                                                *)
(***************************************************************************)
THEOREM ImplementsLifecycle == Spec => KeepsLifecycle
<1>1. Init => Lifecycle!Init
  BY LifeInit
<1>2. ServiceInv /\ [Next]_vars =>
        [Lifecycle!Next]_([id \in Ids |-> [status |-> commands[id].status,
                                           target |-> commands[id].target]])
  BY LifeStep DEF life
<1>3. QED
  BY <1>1, <1>2, ServiceInvariant, PTL DEF Spec, KeepsLifecycle, Lifecycle!Spec
=============================================================================
