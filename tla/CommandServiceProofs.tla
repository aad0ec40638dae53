------------------------ MODULE CommandServiceProofs ------------------------
(***************************************************************************)
(* What holds of CommandService for every desk, every set of command ids   *)
(* and every number of requests.                                           *)
(***************************************************************************)
EXTENDS CommandService, FiniteSetTheorems, WellFoundedInduction, TLAPS

(***************************************************************************)
(* No record, no handle and no timer is newer than the last issue.         *)
(***************************************************************************)
IssuedInOrder ==
  /\ \A id \in Ids : commands[id].issuedAt <= issued
  /\ \A id \in Ids : timers[id] <= issued

(* A command in flight carries a value of its kind: an input for an input switch. *)
PayloadFitsTarget ==
  \A id \in Ids : InFlight(id) => commands[id].value \in Payloads(commands[id].target)

(***************************************************************************)
(* The inductive invariant of the service.  OneInFlightPerTarget needs the *)
(* order of issues (a prune must not touch the new command), and the       *)
(* desired state needs OneInFlightPerTarget.                               *)
(***************************************************************************)
ServiceInv ==
  /\ TypeOK
  /\ IssuedInOrder
  /\ PayloadFitsTarget
  /\ OneInFlightPerTarget
  /\ InFlightIsTimed
  /\ WaitsForPresentAgent
  /\ DesiredNamesInFlight

-----------------------------------------------------------------------------
(* Lemmas on the operators of the service *)

(* A non-empty set of positions has a first one, and Min names it. *)
LEMMA MinIsMember ==
  ASSUME NEW S \in SUBSET Nat, S # {}
  PROVE  Min(S) \in S
<1>1. \E n \in S : \A m \in S : n <= m
  <2>1. PICK n \in S : \A m \in S : ~(<<m, n>> \in OpToRel(<, Nat))
    BY NatLessThanWellFounded, WFMin
  <2>2. \A m \in S : <<m, n>> \in OpToRel(<, Nat) <=> m < n
    BY DEF OpToRel
  <2>3. \A m \in S : ~(m < n)
    BY <2>1, <2>2, Zenon
  <2>4. QED
    BY <2>3, n \in Nat
<1>2. QED
  BY <1>1 DEF Min

(* selectControlPath finds an agent of the desk or nothing. *)
LEMMA PathIsAgent ==
  ASSUME NEW t \in Targets
  PROVE  SelectControlPath(t) \in Agents \cup {None}
<1> DEFINE paths == ControlPaths[MonitorOf(t)]
<1>1. MonitorOf(t) \in Monitors
  BY DEF Targets, MonitorOf
<1>2. paths \in Seq(Path)
  BY <1>1, CommandAssumption
<1>3. ASSUME NEW S \in SUBSET (DOMAIN paths), S # {}
      PROVE  paths[Min(S)].agent \in Agents
  <2>1. DOMAIN paths \subseteq Nat
    BY <1>2
  <2>2. Min(S) \in DOMAIN paths
    BY <2>1, <1>3, MinIsMember
  <2>3. paths[Min(S)] \in Path
    BY <1>2, <2>2
  <2>4. QED
    BY <2>3 DEF Path
<1>4. QED
  BY <1>3 DEF SelectControlPath

(* The record of a command in flight is a real one. *)
LEMMA InFlightIsCommand ==
  ASSUME TypeOK, NEW id \in Ids, InFlight(id)
  PROVE  commands[id] \in Command
BY DEF TypeOK, InFlight, IsInFlight, InFlightStatuses, NoCommand, Unknown

(* Giving commands in flight a status changes their status only. *)
LEMMA WithStatusEffect ==
  ASSUME TypeOK, NEW ids \in SUBSET Ids, \A id \in ids : InFlight(id),
         NEW status \in Statuses
  PROVE  /\ WithStatus(ids, status) \in [Ids -> Command \cup {NoCommand}]
         /\ \A id \in Ids :
              /\ WithStatus(ids, status)[id].status
                   = IF id \in ids THEN status ELSE commands[id].status
              /\ WithStatus(ids, status)[id].target = commands[id].target
              /\ WithStatus(ids, status)[id].value = commands[id].value
              /\ WithStatus(ids, status)[id].agent = commands[id].agent
              /\ WithStatus(ids, status)[id].issuedAt = commands[id].issuedAt
              /\ id \notin ids => WithStatus(ids, status)[id] = commands[id]
<1>1. ASSUME NEW id \in ids
      PROVE  commands[id] \in Command
  BY <1>1, InFlightIsCommand
<1>2. \A id \in Ids : commands[id] \in Command \cup {NoCommand}
  BY DEF TypeOK
<1>3. ASSUME NEW c \in Command
      PROVE  /\ [c EXCEPT !.status = status] \in Command
             /\ [c EXCEPT !.status = status].status = status
             /\ [c EXCEPT !.status = status].target = c.target
             /\ [c EXCEPT !.status = status].value = c.value
             /\ [c EXCEPT !.status = status].agent = c.agent
             /\ [c EXCEPT !.status = status].issuedAt = c.issuedAt
  BY DEF Command
<1>4. QED
  BY <1>1, <1>2, <1>3 DEF WithStatus

(* With one command per target in flight, supersede retires every one of the target. *)
LEMMA SupersedesAll ==
  ASSUME OneInFlightPerTarget, NEW t
  PROVE  InFlightForTarget(t) = {id \in Ids : InFlight(id) /\ commands[id].target = t}
BY DEF InFlightForTarget, OneInFlightPerTarget

(* A payload is a value a command record can hold. *)
LEMMA PayloadIsValue ==
  ASSUME NEW t \in Targets, NEW v \in Payloads(t)
  PROVE  v \in Inputs \cup Levels
BY DEF Payloads

(***************************************************************************)
(* createCommand leaves a record for the new command that the prune keeps, *)
(* and of every other command its record, perhaps superseded, or nothing.  *)
(* Another command that is still in flight was in flight before, is        *)
(* unchanged, and has another target.                                      *)
(***************************************************************************)
LEMMA CreatedEffect ==
  ASSUME ServiceInv, NEW id \in Ids, NEW t \in Targets, NEW v \in Payloads(t),
         issued < MaxIssues, NEW status \in Statuses, NEW agent \in Agents \cup {None}
  PROVE  LET new == Created(id, t, v, status, agent)
         IN  /\ new \in [Ids -> Command \cup {NoCommand}]
             /\ new[id] = [target |-> t, value |-> v, status |-> status,
                           agent |-> agent, issuedAt |-> issued + 1]
             /\ \A j \in Ids \ {id} :
                  /\ new[j] \in {WithStatus(InFlightForTarget(t), "superseded")[j], NoCommand}
                  /\ new[j].issuedAt <= issued
                  /\ IsInFlight(new[j].status) =>
                       /\ new[j] = commands[j]
                       /\ commands[j].target # t
                       /\ j \notin InFlightForTarget(t)
<1> DEFINE fresh == [target |-> t, value |-> v, status |-> status,
                     agent |-> agent, issuedAt |-> issued + 1]
           base == WithStatus(InFlightForTarget(t), "superseded")
           put == [base EXCEPT ![id] = fresh]
           newer(i) == {other \in Ids : put[other].issuedAt > put[i].issuedAt}
           new == Created(id, t, v, status, agent)
<1>1. InFlightForTarget(t) = {i \in Ids : InFlight(i) /\ commands[i].target = t}
  BY SupersedesAll DEF ServiceInv
<1>2. /\ base \in [Ids -> Command \cup {NoCommand}]
      /\ \A j \in Ids :
           /\ base[j].issuedAt = commands[j].issuedAt
           /\ base[j].status
                = IF j \in InFlightForTarget(t) THEN "superseded" ELSE commands[j].status
           /\ j \notin InFlightForTarget(t) => base[j] = commands[j]
  <2>1. InFlightForTarget(t) \in SUBSET Ids /\ \A j \in InFlightForTarget(t) : InFlight(j)
    BY <1>1
  <2>2. TypeOK /\ "superseded" \in Statuses
    BY DEF ServiceInv, Statuses, TerminalStatuses
  <2>3. QED
    BY <2>1, <2>2, WithStatusEffect
<1>3. fresh \in Command
  <2>1. issued + 1 \in 1..MaxIssues
    BY CommandAssumption DEF ServiceInv, TypeOK
  <2>2. QED
    BY <2>1, PayloadIsValue DEF Command
<1>4. /\ put \in [Ids -> Command \cup {NoCommand}]
      /\ put[id] = fresh
      /\ \A j \in Ids \ {id} : put[j] = base[j]
  BY <1>2, <1>3
<1>5. \A j \in Ids : commands[j].issuedAt <= issued /\ commands[j].issuedAt \in Nat
  BY DEF ServiceInv, IssuedInOrder, TypeOK, Command, NoCommand
<1>6. Cardinality(newer(id)) < MaxRetained
  <2>1. \A j \in Ids : ~(put[j].issuedAt > put[id].issuedAt)
    BY <1>2, <1>4, <1>5 DEF ServiceInv, TypeOK
  <2>2. newer(id) = {}
    BY <2>1
  <2>3. Cardinality(newer(id)) = 0
    BY <2>2, FS_EmptySet
  <2>4. QED
    BY <2>3, CommandAssumption
<1>7. new = [i \in Ids |-> IF Cardinality(newer(i)) < MaxRetained THEN put[i] ELSE NoCommand]
  BY DEF Created, Prune
<1>8. /\ new \in [Ids -> Command \cup {NoCommand}]
      /\ new[id] = fresh
      /\ \A j \in Ids \ {id} : new[j] \in {base[j], NoCommand}
  <2> HIDE DEF newer, put, base, fresh, new
  <2>1. \A j \in Ids : new[j] \in {put[j], NoCommand}
    BY <1>7
  <2>2. new[id] = put[id]
    BY <1>6, <1>7
  <2>3. new \in [Ids -> Command \cup {NoCommand}]
    BY <1>4, <1>7
  <2>4. QED
    BY <1>4, <2>1, <2>2, <2>3
<1>9. ASSUME NEW j \in Ids \ {id}
      PROVE  /\ new[j].issuedAt <= issued
             /\ IsInFlight(new[j].status) =>
                  /\ new[j] = commands[j]
                  /\ commands[j].target # t
                  /\ j \notin InFlightForTarget(t)
  <2>1. ~IsInFlight("superseded") /\ ~IsInFlight(NoCommand.status)
    BY DEF IsInFlight, InFlightStatuses, NoCommand, Unknown
  <2>2. NoCommand.issuedAt <= issued
    BY DEF NoCommand, ServiceInv, TypeOK
  <2>3. new[j].issuedAt <= issued
    BY <1>2, <1>5, <1>8, <2>2
  <2>4. IsInFlight(new[j].status) => new[j] = base[j] /\ j \notin InFlightForTarget(t)
    BY <1>2, <1>8, <2>1
  <2>5. QED
    BY <1>1, <1>2, <2>3, <2>4 DEF InFlight
<1>10. QED
  BY <1>8, <1>9

-----------------------------------------------------------------------------
(* The invariant holds at the start and every step keeps it *)

THEOREM ServiceInvInit == Init => ServiceInv
<1> SUFFICES ASSUME Init PROVE ServiceInv
  OBVIOUS
<1>1. ~IsInFlight(NoCommand.status)
  BY DEF IsInFlight, InFlightStatuses, NoCommand, Unknown
<1>2. \A id \in Ids : ~InFlight(id)
  BY <1>1 DEF Init, InFlight
<1>3. TypeOK
  BY CommandAssumption DEF Init, TypeOK
<1>4. IssuedInOrder
  BY DEF Init, IssuedInOrder, NoCommand
<1>5. QED
  BY <1>2, <1>3, <1>4
  DEF ServiceInv, PayloadFitsTarget, OneInFlightPerTarget, InFlightIsTimed,
      WaitsForPresentAgent, DesiredNamesInFlight

(***************************************************************************)
(* A step that only concludes commands.  touched are the ids whose timers  *)
(* it clears; those of them that were in flight get a verdict.  An agent   *)
(* that goes offline takes all its commands with it.                       *)
(***************************************************************************)
LEMMA ConcludeStep ==
  ASSUME ServiceInv,
         NEW touched \in SUBSET Ids, NEW verdict \in TerminalStatuses,
         commands' = WithStatus({id \in touched : InFlight(id)}, verdict),
         timers' = TimersWithout(touched),
         running' \subseteq running,
         \A entry \in running : entry[1] \notin touched => entry \in running',
         UNCHANGED <<desired, sent, issued>>,
         lastKnown' \in [Monitors -> Inputs \cup {None}],
         UNCHANGED seen,
         link' \in [Agents -> {"up", "half", "down"}],
         \A a \in Agents : IsOnline(a) => IsOnline(a)' \/ CommandsOf(a) \subseteq touched
  PROVE  ServiceInv'
<1> DEFINE ids == {id \in touched : InFlight(id)}
<1>1. /\ commands' \in [Ids -> Command \cup {NoCommand}]
      /\ \A j \in Ids :
           /\ commands'[j].issuedAt = commands[j].issuedAt
           /\ commands'[j].status = IF j \in ids THEN verdict ELSE commands[j].status
           /\ j \notin ids => commands'[j] = commands[j]
  <2>1. ids \in SUBSET Ids /\ \A j \in ids : InFlight(j)
    OBVIOUS
  <2>2. TypeOK /\ verdict \in Statuses
    BY DEF ServiceInv, Statuses
  <2>3. QED
    BY <2>1, <2>2, WithStatusEffect
<1>2. \A j \in Ids : InFlight(j)' => InFlight(j) /\ j \notin touched /\ commands'[j] = commands[j]
  <2>1. ~IsInFlight(verdict)
    BY DEF IsInFlight, InFlightStatuses, TerminalStatuses
  <2>2. QED
    BY <1>1, <2>1 DEF InFlight
<1>3. /\ timers' \in [Ids -> 0..MaxIssues]
      /\ \A j \in Ids : timers'[j] <= issued
      /\ \A j \in Ids \ touched : timers'[j] = timers[j]
  BY CommandAssumption DEF TimersWithout, ServiceInv, TypeOK, IssuedInOrder
<1>4. TypeOK'
  BY <1>1, <1>3 DEF ServiceInv, TypeOK
<1>5. IssuedInOrder'
  BY <1>1, <1>3 DEF ServiceInv, IssuedInOrder
<1>6. OneInFlightPerTarget'
  BY <1>2 DEF ServiceInv, OneInFlightPerTarget
<1>7. InFlightIsTimed'
  BY <1>2, <1>3 DEF ServiceInv, InFlightIsTimed
<1>8. WaitsForPresentAgent'
  BY <1>2 DEF ServiceInv, WaitsForPresentAgent, CommandsOf
<1>9. DesiredNamesInFlight'
  BY <1>2 DEF ServiceInv, DesiredNamesInFlight
<1>10. PayloadFitsTarget'
  BY <1>2 DEF ServiceInv, PayloadFitsTarget, Payloads
<1>11. QED
  BY <1>4, <1>5, <1>6, <1>7, <1>8, <1>9, <1>10 DEF ServiceInv

(* A request, whichever way its dispatch goes. *)
LEMMA IssueStep ==
  ASSUME ServiceInv, NEW id \in Ids, NEW t \in Targets, NEW v \in Payloads(t),
         IssueAndDispatch(id, t, v) \/ IssueAndFail(id, t, v)
  PROVE  ServiceInv'
<1> DEFINE stale == InFlightForTarget(t)
           agent == SelectControlPath(t)
<1>1. /\ issued < MaxIssues /\ issued' = issued + 1 /\ RecordIntent(id, t, v)
      /\ UNCHANGED <<lastKnown, seen, link>>
  BY DEF IssueAndDispatch, IssueAndFail, Request
<1>2. /\ issued \in Nat /\ issued' \in 1..MaxIssues /\ issued <= issued'
  BY <1>1, CommandAssumption DEF ServiceInv, TypeOK
<1>3. stale \in SUBSET Ids
  BY DEF InFlightForTarget
<1>4. /\ desired' \in [Monitors -> [input : Inputs, command : Ids] \cup {None}]
      /\ KindOf(t) = "input" => desired'[MonitorOf(t)] = [input |-> v, command |-> id]
      /\ \A m \in Monitors : KindOf(t) # "input" \/ m # MonitorOf(t) => desired'[m] = desired[m]
  <2>1. MonitorOf(t) \in Monitors
    BY DEF Targets, MonitorOf
  <2>2. KindOf(t) = "input" => v \in Inputs
    BY DEF Payloads
  <2>3. desired \in [Monitors -> [input : Inputs, command : Ids] \cup {None}]
    BY DEF ServiceInv, TypeOK
  <2>4. QED
    BY <1>1, <2>1, <2>2, <2>3 DEF RecordIntent
<1>5. \E status \in {"dispatched", "failed"}, a \in Agents \cup {None} :
        /\ commands' = Created(id, t, v, status, a)
        /\ status = "dispatched" =>
             /\ a \in Agents /\ IsOnline(a)
             /\ timers' = [TimersWithout(stale) EXCEPT ![id] = issued + 1]
             /\ running' = (running \ Handles(stale)) \cup {<<id, issued + 1>>}
             /\ sent' = sent \cup {id}
        /\ status = "failed" =>
             /\ timers' = TimersWithout(stale \cup {id})
             /\ running' = running \ Handles(stale \cup {id})
             /\ sent' = sent
  <2>1. CASE IssueAndDispatch(id, t, v)
    BY <2>1, PathIsAgent DEF IssueAndDispatch, CanSend, IsOnline
  <2>2. CASE IssueAndFail(id, t, v)
    BY <2>2 DEF IssueAndFail, ClearTimers
  <2>3. QED
    BY <2>1, <2>2
<1>6. PICK status \in {"dispatched", "failed"}, a \in Agents \cup {None} :
        /\ commands' = Created(id, t, v, status, a)
        /\ status = "dispatched" =>
             /\ a \in Agents /\ IsOnline(a)
             /\ timers' = [TimersWithout(stale) EXCEPT ![id] = issued + 1]
             /\ running' = (running \ Handles(stale)) \cup {<<id, issued + 1>>}
             /\ sent' = sent \cup {id}
        /\ status = "failed" =>
             /\ timers' = TimersWithout(stale \cup {id})
             /\ running' = running \ Handles(stale \cup {id})
             /\ sent' = sent
  BY <1>5
<1>7. /\ commands' \in [Ids -> Command \cup {NoCommand}]
      /\ commands'[id] = [target |-> t, value |-> v, status |-> status,
                          agent |-> a, issuedAt |-> issued + 1]
      /\ \A j \in Ids \ {id} :
           /\ commands'[j].issuedAt <= issued
           /\ IsInFlight(commands'[j].status) =>
                /\ commands'[j] = commands[j]
                /\ commands[j].target # t
                /\ j \notin stale
  <2>1. status \in Statuses
    BY DEF Statuses, InFlightStatuses, TerminalStatuses
  <2>2. QED
    BY <1>1, <1>6, <2>1, CreatedEffect
<1>8. /\ timers' \in [Ids -> 0..MaxIssues]
      /\ \A j \in Ids : timers'[j] <= issued'
      /\ \A j \in Ids \ ({id} \cup stale) : timers'[j] = timers[j]
      /\ status = "dispatched" => timers'[id] = issued + 1
  <2>1. TimersWithout(stale) \in [Ids -> 0..MaxIssues]
        /\ TimersWithout(stale \cup {id}) \in [Ids -> 0..MaxIssues]
    BY CommandAssumption DEF TimersWithout, ServiceInv, TypeOK
  <2>2. \A j \in Ids : TimersWithout(stale)[j] <= issued
                       /\ TimersWithout(stale \cup {id})[j] <= issued
    BY <1>2 DEF TimersWithout, ServiceInv, TypeOK, IssuedInOrder
  <2>3. \A j \in Ids \ ({id} \cup stale) :
          TimersWithout(stale)[j] = timers[j] /\ TimersWithout(stale \cup {id})[j] = timers[j]
    BY DEF TimersWithout
  <2>4. issued + 1 \in 0..MaxIssues /\ issued' = issued + 1
    BY <1>1, <1>2
  <2>5. CASE status = "dispatched"
    <3>1. timers' = [TimersWithout(stale) EXCEPT ![id] = issued + 1]
      BY <1>6, <2>5
    <3>2. timers'[id] = issued + 1 /\ \A j \in Ids \ {id} : timers'[j] = TimersWithout(stale)[j]
      BY <2>1, <3>1
    <3>3. timers' \in [Ids -> 0..MaxIssues]
      BY <2>1, <2>4, <3>1
    <3>4. ASSUME NEW j \in Ids PROVE timers'[j] <= issued'
      <4>1. TimersWithout(stale)[j] \in Nat /\ TimersWithout(stale)[j] <= issued
        BY <2>1, <2>2
      <4>2. timers'[j] \in {issued + 1, TimersWithout(stale)[j]}
        BY <3>2
      <4>3. QED
        BY <1>2, <2>4, <4>1, <4>2
    <3>5. QED
      BY <2>3, <3>2, <3>3, <3>4
  <2>6. CASE status = "failed"
    <3>1. timers' = TimersWithout(stale \cup {id})
      BY <1>6, <2>6
    <3>2. ASSUME NEW j \in Ids PROVE timers'[j] <= issued'
      <4>1. timers'[j] \in Nat /\ timers'[j] <= issued
        BY <2>1, <2>2, <3>1
      <4>2. QED
        BY <1>2, <2>4, <4>1
    <3>3. QED
      BY <2>1, <2>3, <2>6, <3>1, <3>2
  <2>7. QED
    BY <1>6, <2>5, <2>6
<1>9. /\ running' \subseteq Ids \X (1..MaxIssues)
      /\ \A entry \in running : entry[1] \notin {id} \cup stale => entry \in running'
      /\ status = "dispatched" => <<id, issued + 1>> \in running'
  BY <1>1, <1>2, <1>3, <1>6 DEF Handles, ServiceInv, TypeOK
<1>10. ASSUME NEW j \in Ids \ {id}, InFlight(j)'
       PROVE  /\ InFlight(j) /\ commands'[j] = commands[j]
              /\ commands[j].target # t /\ j \notin stale
  BY <1>7, <1>10 DEF InFlight
<1>11. InFlight(id)' => status = "dispatched"
  BY <1>6, <1>7 DEF InFlight, IsInFlight, InFlightStatuses
<1>12. TypeOK'
  BY <1>1, <1>2, <1>4, <1>6, <1>7, <1>8, <1>9 DEF ServiceInv, TypeOK
<1>13. IssuedInOrder'
  <2>1. \A j \in Ids : commands'[j].issuedAt \in Nat
    BY <1>7 DEF Command, NoCommand
  <2>2. \A j \in Ids : commands'[j].issuedAt <= issued'
    BY <1>1, <1>2, <1>7, <2>1
  <2>3. QED
    BY <1>8, <2>2 DEF IssuedInOrder
<1>14. OneInFlightPerTarget'
  BY <1>7, <1>10 DEF ServiceInv, OneInFlightPerTarget
<1>15. InFlightIsTimed'
  <2> SUFFICES ASSUME NEW j \in Ids, InFlight(j)'
               PROVE  timers'[j] = commands'[j].issuedAt /\ <<j, commands'[j].issuedAt>> \in running'
    BY DEF InFlightIsTimed
  <2>1. CASE j = id
    BY <1>7, <1>8, <1>9, <1>11, <2>1
  <2>2. CASE j # id
    BY <1>8, <1>9, <1>10, <2>2 DEF ServiceInv, InFlightIsTimed
  <2>3. QED
    BY <2>1, <2>2
<1>16. WaitsForPresentAgent'
  BY <1>1, <1>6, <1>7, <1>10, <1>11 DEF ServiceInv, WaitsForPresentAgent, IsOnline
<1>17. DesiredNamesInFlight'
  <2> SUFFICES ASSUME NEW j \in Ids, InFlight(j)', KindOf(commands'[j].target) = "input"
               PROVE  desired'[MonitorOf(commands'[j].target)]
                        = [input |-> commands'[j].value, command |-> j]
    BY DEF DesiredNamesInFlight
  <2>1. CASE j = id
    BY <1>4, <1>7, <2>1
  <2>2. CASE j # id
    <3>1. /\ commands'[j] = commands[j] /\ commands[j].target # t
          /\ desired[MonitorOf(commands[j].target)] = [input |-> commands[j].value, command |-> j]
      BY <1>10, <2>2 DEF ServiceInv, DesiredNamesInFlight
    <3>2. commands[j].target \in Targets
      BY <1>10, <2>2, InFlightIsCommand DEF ServiceInv, Command
    <3>3. KindOf(t) = "input" => MonitorOf(commands[j].target) # MonitorOf(t)
      BY <3>1, <3>2 DEF Targets, MonitorOf, KindOf
    <3>4. MonitorOf(commands[j].target) \in Monitors
      BY <3>2 DEF Targets, MonitorOf
    <3>5. QED
      BY <1>4, <3>1, <3>3, <3>4
  <2>3. QED
    BY <2>1, <2>2
<1>18. PayloadFitsTarget'
  BY <1>7, <1>10 DEF ServiceInv, PayloadFitsTarget, Payloads
<1>19. QED
  BY <1>12, <1>13, <1>14, <1>15, <1>16, <1>17, <1>18 DEF ServiceInv

(* Every other step. *)
LEMMA OtherStep ==
  ASSUME ServiceInv
  PROVE  /\ \A id \in Ids : OnAgentAck(id) => ServiceInv'
         /\ \A id \in Ids, ok \in BOOLEAN : OnAgentResult(id, ok) => ServiceInv'
         /\ \A id \in Ids, handle \in 1..MaxIssues : Timeout(id, handle) => ServiceInv'
         /\ \A m \in Monitors, i \in Inputs : Observe(m, i) => ServiceInv'
         /\ \A m \in Monitors, i \in Inputs \cup {None} : LoseSight(m, i) => ServiceInv'
         /\ \A a \in Agents : AgentHello(a) \/ SocketDrops(a) \/ AgentLost(a) => ServiceInv'
<1>1. ASSUME NEW id \in Ids, OnAgentAck(id) PROVE ServiceInv'
  <2>1. /\ commands' \in [Ids -> Command \cup {NoCommand}]
        /\ \A j \in Ids :
             /\ commands'[j].status = IF j = id THEN "acked" ELSE commands[j].status
             /\ commands'[j].target = commands[j].target
             /\ commands'[j].value = commands[j].value
             /\ commands'[j].agent = commands[j].agent
             /\ commands'[j].issuedAt = commands[j].issuedAt
    <3>1. TypeOK /\ "acked" \in Statuses
      BY DEF ServiceInv, Statuses, InFlightStatuses
    <3>2. InFlight(id) /\ commands' = WithStatus({id}, "acked")
      BY <1>1 DEF OnAgentAck, Awaited
    <3>3. {id} \in SUBSET Ids /\ \A j \in {id} : InFlight(j)
      BY <3>2
    <3>4. \A j \in Ids : j \in {id} <=> j = id
      OBVIOUS
    <3>5. QED
      BY <3>1, <3>2, <3>3, <3>4, WithStatusEffect
  <2>2. \A j \in Ids : InFlight(j)' <=> InFlight(j)
    BY <1>1, <2>1 DEF OnAgentAck, Awaited, InFlight, IsInFlight, InFlightStatuses
  <2>3. UNCHANGED <<desired, timers, running, lastKnown, seen, link, sent, issued>>
    BY <1>1 DEF OnAgentAck
  <2>4. TypeOK' /\ IssuedInOrder'
    BY <2>1, <2>3 DEF ServiceInv, TypeOK, IssuedInOrder
  <2>5. OneInFlightPerTarget' /\ InFlightIsTimed'
    BY <2>1, <2>2, <2>3 DEF ServiceInv, OneInFlightPerTarget, InFlightIsTimed
  <2>6. WaitsForPresentAgent' /\ DesiredNamesInFlight'
    BY <2>1, <2>2, <2>3 DEF ServiceInv, WaitsForPresentAgent, IsOnline, DesiredNamesInFlight
  <2>7. PayloadFitsTarget'
    BY <2>1, <2>2 DEF ServiceInv, PayloadFitsTarget, Payloads
  <2>8. QED
    BY <2>4, <2>5, <2>6, <2>7 DEF ServiceInv
<1>2. ASSUME NEW id \in Ids, NEW ok \in BOOLEAN, OnAgentResult(id, ok) PROVE ServiceInv'
  <2>1. /\ InFlight(id) /\ ClearTimers({id})
        /\ commands' = WithStatus({id}, IF ok THEN "succeeded" ELSE "failed")
        /\ UNCHANGED <<desired, seen, link, sent, issued>>
    BY <1>2 DEF OnAgentResult, Awaited
  <2>2. {i \in {id} : InFlight(i)} = {id}
    BY <2>1
  <2>3. (IF ok THEN "succeeded" ELSE "failed") \in TerminalStatuses
    BY DEF TerminalStatuses
  <2>4. /\ timers' = TimersWithout({id})
        /\ running' \subseteq running
        /\ \A entry \in running : entry[1] \notin {id} => entry \in running'
    BY <2>1 DEF ClearTimers, Handles
  <2>5. lastKnown' \in [Monitors -> Inputs \cup {None}]
    <3>1. commands[id] \in Command
      BY <2>1, InFlightIsCommand DEF ServiceInv
    <3>2. CASE ok /\ KindOf(commands[id].target) = "input"
      <4>1. lastKnown' = [lastKnown EXCEPT ![MonitorOf(commands[id].target)] = commands[id].value]
        BY <1>2, <3>2 DEF OnAgentResult
      <4>2. MonitorOf(commands[id].target) \in Monitors
        BY <3>1 DEF Command, Targets, MonitorOf
      <4>3. commands[id].value \in Inputs
        BY <2>1, <3>2 DEF ServiceInv, PayloadFitsTarget, Payloads
      <4>4. QED
        BY <4>1, <4>2, <4>3 DEF ServiceInv, TypeOK
    <3>3. CASE ~(ok /\ KindOf(commands[id].target) = "input")
      BY <1>2, <3>3 DEF OnAgentResult, ServiceInv, TypeOK
    <3>4. QED
      BY <3>2, <3>3
  <2>6. /\ link' \in [Agents -> {"up", "half", "down"}]
        /\ \A b \in Agents : IsOnline(b) => IsOnline(b)' \/ CommandsOf(b) \subseteq {id}
    BY <2>1 DEF ServiceInv, TypeOK, IsOnline
  <2>7. QED
    BY <2>1, <2>2, <2>3, <2>4, <2>5, <2>6, ConcludeStep
<1>3. ASSUME NEW id \in Ids, NEW handle \in 1..MaxIssues, Timeout(id, handle) PROVE ServiceInv'
  <2>1. /\ running' = running \ {<<id, handle>>}
        /\ timers' = TimersWithout({id})
        /\ UNCHANGED <<desired, lastKnown, seen, link, sent, issued>>
    BY <1>3 DEF Timeout
  <2>2. commands' = WithStatus({i \in {id} : InFlight(i)}, "timed-out")
    <3>1. CASE InFlight(id)
      <4>1. {i \in {id} : InFlight(i)} = {id}
        BY <3>1
      <4>2. QED
        BY <1>3, <3>1, <4>1 DEF Timeout, Overdue
    <3>2. CASE ~InFlight(id)
      <4>1. {i \in {id} : InFlight(i)} = {}
        BY <3>2
      <4>2. WithStatus({}, "timed-out") = commands
        BY DEF WithStatus, ServiceInv, TypeOK
      <4>3. QED
        BY <1>3, <3>2, <4>1, <4>2 DEF Timeout, Overdue
    <3>3. QED
      BY <3>1, <3>2
  <2>3. "timed-out" \in TerminalStatuses
    BY DEF TerminalStatuses
  <2>4. /\ running' \subseteq running
        /\ \A entry \in running : entry[1] \notin {id} => entry \in running'
    BY <2>1
  <2>5. /\ lastKnown' \in [Monitors -> Inputs \cup {None}]
        /\ link' \in [Agents -> {"up", "half", "down"}]
        /\ \A b \in Agents : IsOnline(b) => IsOnline(b)' \/ CommandsOf(b) \subseteq {id}
    BY <2>1 DEF ServiceInv, TypeOK, IsOnline
  <2>6. QED
    BY <2>1, <2>2, <2>3, <2>4, <2>5, ConcludeStep
<1>4. ASSUME UNCHANGED <<commands, desired, timers, running, sent, issued>>,
             lastKnown' \in [Monitors -> Inputs \cup {None}],
             seen' \in [Monitors -> Inputs \cup {None}],
             link' \in [Agents -> {"up", "half", "down"}],
             \A b \in Agents : IsOnline(b) => IsOnline(b)'
      PROVE  ServiceInv'
  <2>1. TypeOK' /\ IssuedInOrder'
    BY <1>4 DEF ServiceInv, TypeOK, IssuedInOrder
  <2>2. \A j \in Ids : InFlight(j)' <=> InFlight(j)
    BY <1>4 DEF InFlight
  <2>3. OneInFlightPerTarget' /\ InFlightIsTimed' /\ DesiredNamesInFlight'
    BY <1>4, <2>2 DEF ServiceInv, OneInFlightPerTarget, InFlightIsTimed, DesiredNamesInFlight
  <2>4. WaitsForPresentAgent'
    BY <1>4, <2>2 DEF ServiceInv, WaitsForPresentAgent
  <2>5. PayloadFitsTarget'
    BY <1>4, <2>2 DEF ServiceInv, PayloadFitsTarget, Payloads
  <2>6. QED
    BY <2>1, <2>3, <2>4, <2>5 DEF ServiceInv
<1>5. ASSUME NEW m \in Monitors, NEW i \in Inputs, Observe(m, i) PROVE ServiceInv'
  BY <1>4, <1>5 DEF Observe, ServiceInv, TypeOK, IsOnline
<1>6. ASSUME NEW m \in Monitors, NEW i \in Inputs \cup {None}, LoseSight(m, i) PROVE ServiceInv'
  BY <1>4, <1>6 DEF LoseSight, ServiceInv, TypeOK, IsOnline
<1>7. ASSUME NEW a \in Agents, AgentHello(a) PROVE ServiceInv'
  BY <1>4, <1>7 DEF AgentHello, ServiceInv, TypeOK, IsOnline
<1>8. ASSUME NEW a \in Agents, SocketDrops(a) PROVE ServiceInv'
  BY <1>4, <1>8 DEF SocketDrops, ServiceInv, TypeOK, IsOnline
<1>9. ASSUME NEW a \in Agents, AgentLost(a) PROVE ServiceInv'
  <2>1. /\ link' = [link EXCEPT ![a] = "down"]
        /\ commands' = WithStatus(CommandsOf(a), "failed")
        /\ timers' = TimersWithout(CommandsOf(a))
        /\ running' = running \ Handles(CommandsOf(a))
        /\ UNCHANGED <<desired, lastKnown, seen, sent, issued>>
    BY <1>9 DEF AgentLost, ClearTimers
  <2>2. CommandsOf(a) \in SUBSET Ids /\ {i \in CommandsOf(a) : InFlight(i)} = CommandsOf(a)
    BY DEF CommandsOf
  <2>3. "failed" \in TerminalStatuses
    BY DEF TerminalStatuses
  <2>4. /\ running' \subseteq running
        /\ \A entry \in running : entry[1] \notin CommandsOf(a) => entry \in running'
    BY <2>1 DEF Handles
  <2>5. /\ lastKnown' \in [Monitors -> Inputs \cup {None}]
        /\ link' \in [Agents -> {"up", "half", "down"}]
        /\ \A b \in Agents : IsOnline(b) => IsOnline(b)' \/ CommandsOf(b) \subseteq CommandsOf(a)
    BY <2>1 DEF ServiceInv, TypeOK, IsOnline
  <2>6. QED
    BY <2>1, <2>2, <2>3, <2>4, <2>5, ConcludeStep
<1>10. QED
  BY <1>1, <1>2, <1>3, <1>5, <1>6, <1>7, <1>8, <1>9

THEOREM ServiceInvStep == ServiceInv /\ [Next]_vars => ServiceInv'
<1> SUFFICES ASSUME ServiceInv, [Next]_vars PROVE ServiceInv'
  OBVIOUS
<1>1. ASSUME NEW id \in Ids, NEW t \in Targets, NEW v \in Payloads(t),
             IssueAndDispatch(id, t, v) \/ IssueAndFail(id, t, v)
      PROVE  ServiceInv'
  BY <1>1, IssueStep
<1>2. ASSUME NEW id \in Ids, OnAgentAck(id) \/ \E ok \in BOOLEAN : OnAgentResult(id, ok)
      PROVE  ServiceInv'
  BY <1>2, OtherStep
<1>3. ASSUME NEW m \in Monitors,
             \/ \E i \in Inputs : Observe(m, i)
             \/ \E i \in Inputs \cup {None} : LoseSight(m, i)
      PROVE  ServiceInv'
  BY <1>3, OtherStep
<1>4. ASSUME NEW entry \in running, Timeout(entry[1], entry[2])
      PROVE  ServiceInv'
  <2>1. entry[1] \in Ids /\ entry[2] \in 1..MaxIssues
    BY <1>4 DEF ServiceInv, TypeOK
  <2>2. QED
    BY <1>4, <2>1, OtherStep
<1>5. ASSUME NEW a \in Agents, AgentHello(a) \/ SocketDrops(a) \/ AgentLost(a)
      PROVE  ServiceInv'
  BY <1>5, OtherStep
<1>6. CASE UNCHANGED vars
  BY <1>6 DEF vars, ServiceInv, TypeOK, IssuedInOrder, PayloadFitsTarget, OneInFlightPerTarget,
              InFlightIsTimed, WaitsForPresentAgent, DesiredNamesInFlight, InFlight, IsOnline
<1>7. QED
  BY <1>1, <1>2, <1>3, <1>4, <1>5, <1>6 DEF Next

-----------------------------------------------------------------------------
(* Theorems *)

(* The inductive invariant holds in every behaviour of the service. *)
THEOREM ServiceInvariant == Spec => []ServiceInv
BY ServiceInvInit, ServiceInvStep, PTL DEF Spec

(* Every variable of the command service keeps its type. *)
THEOREM ServiceTypes == Spec => []TypeOK
<1>1. ServiceInv => TypeOK
  BY DEF ServiceInv
<1>2. QED
  BY <1>1, ServiceInvariant, PTL

(***************************************************************************)
(* createCommand retires at most one command and that is always enough:    *)
(* no two commands in flight share a target, for any desk, any re-use of   *)
(* ids and any order of answers, timeouts, prunes and disconnections.      *)
(***************************************************************************)
THEOREM AtMostOneInFlight == Spec => []OneInFlightPerTarget
<1>1. ServiceInv => OneInFlightPerTarget
  BY DEF ServiceInv
<1>2. QED
  BY <1>1, ServiceInvariant, PTL

(* No command in flight is without a timer of its own that is still to fire. *)
THEOREM InFlightKeepsTimer == Spec => []InFlightIsTimed
<1>1. ServiceInv => InFlightIsTimed
  BY DEF ServiceInv
<1>2. QED
  BY <1>1, ServiceInvariant, PTL

(* No command in flight waits for an agent that the gateway has given up. *)
THEOREM NoWaitForLostAgent == Spec => []WaitsForPresentAgent
<1>1. ServiceInv => WaitsForPresentAgent
  BY DEF ServiceInv
<1>2. QED
  BY <1>1, ServiceInvariant, PTL

(* The input switch in flight for a monitor is the one the desired state names. *)
THEOREM DesiredIsInFlight == Spec => []DesiredNamesInFlight
<1>1. ServiceInv => DesiredNamesInFlight
  BY DEF ServiceInv
<1>2. QED
  BY <1>1, ServiceInvariant, PTL

(***************************************************************************)
(* One step: the belief about a monitor moves when an agent reads it, or   *)
(* when a switch in flight succeeds, and that switch is the one desired.   *)
(***************************************************************************)
LEMMA StepMovesBelief ==
  ASSUME ServiceInv, [Next]_vars, NEW m \in Monitors, lastKnown'[m] # lastKnown[m]
  PROVE  \/ seen'[m] = lastKnown'[m]
         \/ desired[m] # None /\ desired[m].input = lastKnown'[m]
<1>1. ASSUME NEW other \in Monitors, NEW i \in Inputs, Observe(other, i)
      PROVE  seen'[m] = lastKnown'[m]
  BY <1>1 DEF Observe, ServiceInv, TypeOK
<1>2. ASSUME NEW id \in Ids, NEW ok \in BOOLEAN, OnAgentResult(id, ok)
      PROVE  desired[m] # None /\ desired[m].input = lastKnown'[m]
  <2>1. InFlight(id) /\ commands[id] \in Command
    BY <1>2, InFlightIsCommand DEF OnAgentResult, Awaited, ServiceInv
  <2>2. /\ KindOf(commands[id].target) = "input"
        /\ MonitorOf(commands[id].target) = m
        /\ lastKnown'[m] = commands[id].value
    BY <1>2 DEF OnAgentResult, ServiceInv, TypeOK
  <2>3. desired[m] = [input |-> commands[id].value, command |-> id]
    BY <2>1, <2>2 DEF ServiceInv, DesiredNamesInFlight
  <2>4. desired[m] # None
    <3>1. commands[id].value \in Inputs
      BY <2>1, <2>2 DEF ServiceInv, PayloadFitsTarget, Payloads
    <3>2. [input |-> commands[id].value, command |-> id] \in [input : Inputs, command : Ids]
      BY <3>1
    <3>3. QED
      BY <2>3, <3>2, CommandAssumption
  <2>5. QED
    BY <2>2, <2>3, <2>4
<1>3. QED
  BY <1>1, <1>2 DEF Next, vars, IssueAndDispatch, IssueAndFail, Request, OnAgentAck, LoseSight,
     Timeout, AgentHello, SocketDrops, AgentLost

(***************************************************************************)
(* Routing never learns an input from a command nobody wants any more: the *)
(* late success of a superseded switch does not move the belief.           *)
(***************************************************************************)
THEOREM BeliefFollowsIntent == Spec => BeliefMovesWithIntent
<1>1. ServiceInv /\ [Next]_vars =>
        [\A m \in Monitors : lastKnown'[m] # lastKnown[m] =>
           \/ seen'[m] = lastKnown'[m]
           \/ desired[m] # None /\ desired[m].input = lastKnown'[m]]_vars
  BY StepMovesBelief
<1>2. QED
  BY <1>1, ServiceInvariant, PTL DEF Spec, BeliefMovesWithIntent
-----------------------------------------------------------------------------
(* Timers: what holds whatever ids callers use and whatever the store prunes *)

(* No timer still to fire is newer than the last issue. *)
ArmedInOrder == \A entry \in running : entry[2] <= issued

StrayInv == ServiceInv /\ ArmedInOrder /\ NoStrayTimer

(* A step that gives commands in flight a verdict and cancels what the Map holds for them. *)
LEMMA ConcludeLeavesNoTimer ==
  ASSUME StrayInv, NEW ids \in SUBSET Ids, \A id \in ids : InFlight(id),
         NEW verdict \in Statuses,
         commands' = WithStatus(ids, verdict),
         running' = running \ Handles(ids)
  PROVE  NoStrayTimer'
<1>1. \A j \in Ids :
        /\ commands'[j].issuedAt = commands[j].issuedAt
        /\ j \notin ids => commands'[j] = commands[j]
  BY WithStatusEffect DEF StrayInv, ServiceInv
<1>2. ASSUME NEW entry \in running', commands'[entry[1]].issuedAt = entry[2]
      PROVE  InFlight(entry[1])' \/ commands'[entry[1]].status = "timed-out"
  <2>1. entry \in running /\ entry[1] \in Ids /\ entry = <<entry[1], entry[2]>>
    BY <1>2 DEF StrayInv, ServiceInv, TypeOK
  <2>2. commands[entry[1]].issuedAt = entry[2]
    BY <1>1, <1>2, <2>1
  <2>3. InFlight(entry[1]) => timers[entry[1]] = entry[2]
    BY <2>1, <2>2 DEF StrayInv, ServiceInv, InFlightIsTimed
  <2>4. entry[1] \notin ids
    BY <1>2, <2>1, <2>3 DEF Handles
  <2>5. QED
    BY <1>1, <2>1, <2>2, <2>4 DEF StrayInv, NoStrayTimer, InFlight
<1>3. QED
  BY <1>2 DEF NoStrayTimer

(* A request: an older timer of the id is of an earlier issue, that of the command it retires goes. *)
LEMMA IssueLeavesNoTimer ==
  ASSUME StrayInv,
         NEW id \in Ids, NEW t \in Targets, NEW v \in Payloads(t),
         IssueAndDispatch(id, t, v) \/ IssueAndFail(id, t, v)
  PROVE  NoStrayTimer' /\ ArmedInOrder'
<1> DEFINE stale == InFlightForTarget(t)
<1>1. issued < MaxIssues /\ issued' = issued + 1 /\ issued \in Nat
  BY CommandAssumption DEF IssueAndDispatch, IssueAndFail, Request, StrayInv, ServiceInv, TypeOK
<1>2. PICK status \in {"dispatched", "failed"}, a \in Agents \cup {None} :
        /\ commands' = Created(id, t, v, status, a)
        /\ status = "dispatched" => running' = (running \ Handles(stale)) \cup {<<id, issued + 1>>}
        /\ status = "failed" => running' = running \ Handles(stale \cup {id})
  <2>1. CASE IssueAndDispatch(id, t, v)
    BY <2>1, PathIsAgent DEF IssueAndDispatch
  <2>2. CASE IssueAndFail(id, t, v)
    BY <2>2 DEF IssueAndFail, ClearTimers
  <2>3. QED
    BY <2>1, <2>2
<1>3. /\ commands'[id] = [target |-> t, value |-> v, status |-> status,
                          agent |-> a, issuedAt |-> issued + 1]
      /\ \A j \in Ids \ {id} : commands'[j] \in {WithStatus(stale, "superseded")[j], NoCommand}
  <2>1. status \in Statuses
    BY DEF Statuses, InFlightStatuses, TerminalStatuses
  <2>2. QED
    BY <1>1, <1>2, <2>1, CreatedEffect DEF StrayInv
<1>4. \A j \in stale : InFlight(j)
  BY SupersedesAll DEF StrayInv, ServiceInv
<1>5. \A j \in Ids : j \notin stale => WithStatus(stale, "superseded")[j] = commands[j]
  BY DEF WithStatus
<1>6. \A j \in Ids : WithStatus(stale, "superseded")[j].issuedAt = commands[j].issuedAt
  <2>1. "superseded" \in Statuses /\ stale \in SUBSET Ids
    BY SupersedesAll DEF Statuses, TerminalStatuses, StrayInv, ServiceInv
  <2> HIDE DEF stale
  <2>2. QED
    BY <1>4, <2>1, WithStatusEffect DEF StrayInv, ServiceInv
<1>7. ASSUME NEW entry \in running, entry \in running', commands'[entry[1]].issuedAt = entry[2]
      PROVE  InFlight(entry[1])' \/ commands'[entry[1]].status = "timed-out"
  <2>1. /\ entry[1] \in Ids /\ entry = <<entry[1], entry[2]>>
        /\ entry[2] \in Nat \ {0} /\ entry[2] <= issued
    BY CommandAssumption DEF StrayInv, ServiceInv, TypeOK, ArmedInOrder
  <2>2. entry[1] # id
    BY <1>1, <1>3, <1>7, <2>1
  <2>3. commands'[entry[1]] # NoCommand
    BY <1>7, <2>1 DEF NoCommand
  <2>4. commands'[entry[1]] = WithStatus(stale, "superseded")[entry[1]]
    BY <1>3, <2>1, <2>2, <2>3
  <2>5. commands[entry[1]].issuedAt = entry[2]
    BY <1>6, <1>7, <2>1, <2>4
  <2>6. entry # <<id, issued + 1>>
    BY <1>1, <2>1
  <2>7. entry \notin Handles(stale)
    BY <1>2, <1>7, <2>6 DEF Handles
  <2>8. InFlight(entry[1]) => timers[entry[1]] = entry[2]
    BY <2>1, <2>5 DEF StrayInv, ServiceInv, InFlightIsTimed
  <2>9. entry[1] \notin stale
    BY <1>4, <2>1, <2>7, <2>8 DEF Handles
  <2>10. QED
    BY <1>5, <2>1, <2>4, <2>5, <2>9 DEF StrayInv, NoStrayTimer, InFlight
<1>8. status = "dispatched" => InFlight(id)'
  BY <1>3 DEF InFlight, IsInFlight, InFlightStatuses
<1>9. ASSUME NEW entry \in running', entry \notin running
      PROVE  status = "dispatched" /\ entry = <<id, issued + 1>>
  BY <1>2, <1>9
<1>10. ASSUME NEW entry \in running', commands'[entry[1]].issuedAt = entry[2]
       PROVE  InFlight(entry[1])' \/ commands'[entry[1]].status = "timed-out"
  <2>1. CASE entry \in running
    BY <1>7, <1>10, <2>1
  <2>2. CASE entry \notin running
    <3>1. status = "dispatched" /\ entry[1] = id
      BY <1>9, <1>10, <2>2
    <3>2. QED
      BY <1>8, <3>1
  <2>3. QED
    BY <2>1, <2>2
<1>11. ASSUME NEW entry \in running'
       PROVE  entry[2] <= issued'
  <2>1. CASE entry \in running
    <3>1. entry[2] \in Nat /\ entry[2] <= issued
      BY <2>1, CommandAssumption DEF StrayInv, ServiceInv, TypeOK, ArmedInOrder
    <3>2. QED
      BY <1>1, <3>1
  <2>2. CASE entry \notin running
    <3>1. entry[2] = issued + 1
      BY <1>9, <1>11, <2>2
    <3>2. QED
      BY <1>1, <3>1
  <2>3. QED
    BY <2>1, <2>2
<1>12. QED
  BY <1>10, <1>11 DEF NoStrayTimer, ArmedInOrder

LEMMA StepLeavesNoTimer ==
  ASSUME StrayInv, [Next]_vars
  PROVE  StrayInv'
<1>1. ServiceInv'
  BY ServiceInvStep DEF StrayInv
<1>2. ASSUME NEW id \in Ids, NEW t \in Targets, NEW v \in Payloads(t),
             IssueAndDispatch(id, t, v) \/ IssueAndFail(id, t, v)
      PROVE  NoStrayTimer' /\ ArmedInOrder'
  BY <1>2, IssueLeavesNoTimer
<1>3. ASSUME running' \subseteq running, issued' = issued
      PROVE  ArmedInOrder'
  BY <1>3 DEF StrayInv, ArmedInOrder
<1>4. ASSUME NEW id \in Ids, OnAgentAck(id)
      PROVE  NoStrayTimer'
  <2>1. InFlight(id) /\ commands' = WithStatus({id}, "acked") /\ running' = running
    BY <1>4 DEF OnAgentAck, Awaited
  <2>2. "acked" \in Statuses /\ IsInFlight("acked")
    BY DEF Statuses, IsInFlight, InFlightStatuses
  <2>3. \A j \in Ids :
          /\ commands'[j].status = IF j \in {id} THEN "acked" ELSE commands[j].status
          /\ commands'[j].issuedAt = commands[j].issuedAt
          /\ j \notin {id} => commands'[j] = commands[j]
    BY <2>1, <2>2, WithStatusEffect DEF StrayInv, ServiceInv
  <2>4. \A entry \in running : entry[1] \in Ids
    BY DEF StrayInv, ServiceInv, TypeOK
  <2>5. QED
    BY <2>1, <2>2, <2>3, <2>4 DEF StrayInv, NoStrayTimer, InFlight
<1>5. ASSUME NEW id \in Ids, NEW ok \in BOOLEAN, OnAgentResult(id, ok)
      PROVE  NoStrayTimer'
  <2>1. /\ InFlight(id) /\ running' = running \ Handles({id})
        /\ commands' = WithStatus({id}, IF ok THEN "succeeded" ELSE "failed")
    BY <1>5 DEF OnAgentResult, Awaited, ClearTimers
  <2>2. (IF ok THEN "succeeded" ELSE "failed") \in Statuses
    BY DEF Statuses, TerminalStatuses
  <2>3. QED
    BY <2>1, <2>2, ConcludeLeavesNoTimer
<1>6. ASSUME NEW fired \in running, Timeout(fired[1], fired[2])
      PROVE  NoStrayTimer'
  <2>1. /\ fired[1] \in Ids /\ running' \subseteq running
        /\ \A entry \in running : entry[1] \in Ids
    BY <1>6 DEF Timeout, StrayInv, ServiceInv, TypeOK
  <2>2. CASE ~InFlight(fired[1])
    BY <1>6, <2>1, <2>2 DEF Timeout, Overdue, StrayInv, NoStrayTimer, InFlight
  <2>3. CASE InFlight(fired[1])
    <3>1. commands' = WithStatus({fired[1]}, "timed-out") /\ "timed-out" \in Statuses
      BY <1>6, <2>3 DEF Timeout, Overdue, Statuses, TerminalStatuses
    <3>2. \A j \in Ids :
            /\ commands'[j].status = IF j \in {fired[1]} THEN "timed-out" ELSE commands[j].status
            /\ commands'[j].issuedAt = commands[j].issuedAt
      BY <2>1, <2>3, <3>1, WithStatusEffect DEF StrayInv, ServiceInv
    <3>3. QED
      BY <2>1, <3>2 DEF StrayInv, NoStrayTimer, InFlight
  <2>4. QED
    BY <2>2, <2>3
<1>7. ASSUME NEW a \in Agents, AgentLost(a)
      PROVE  NoStrayTimer'
  <2>1. /\ running' = running \ Handles(CommandsOf(a))
        /\ commands' = WithStatus(CommandsOf(a), "failed")
        /\ CommandsOf(a) \in SUBSET Ids /\ \A j \in CommandsOf(a) : InFlight(j)
    BY <1>7 DEF AgentLost, ClearTimers, CommandsOf
  <2>2. "failed" \in Statuses
    BY DEF Statuses, TerminalStatuses
  <2>3. QED
    BY <2>1, <2>2, ConcludeLeavesNoTimer
<1>8. ASSUME UNCHANGED <<commands, running>>
      PROVE  NoStrayTimer'
  BY <1>8 DEF StrayInv, NoStrayTimer, InFlight
<1>9. NoStrayTimer'
  BY <1>2, <1>4, <1>5, <1>6, <1>7, <1>8
  DEF Next, vars, Observe, LoseSight, AgentHello, SocketDrops
<1>10. ArmedInOrder'
  BY <1>2, <1>3
  DEF Next, vars, Observe, LoseSight, AgentHello, SocketDrops, OnAgentAck, OnAgentResult,
      ClearTimers, Timeout, AgentLost
<1>11. QED
  BY <1>1, <1>9, <1>10 DEF StrayInv

(***************************************************************************)
(* No conclusion leaves a timer behind that could fire on the command it   *)
(* was armed for, whatever ids callers use again, for whatever target, and *)
(* whatever the store prunes: onAgentResult, supersede, failCommand and    *)
(* failCommandsForAgent cancel it.  Only a timeout may leave one.          *)
(***************************************************************************)
THEOREM NoTimerIsLeftBehind == Spec => []NoStrayTimer
<1>1. Init => StrayInv
  <2> SUFFICES ASSUME Init PROVE StrayInv
    OBVIOUS
  <2>1. running = {}
    BY DEF Init
  <2>2. QED
    BY <2>1, ServiceInvInit DEF StrayInv, NoStrayTimer, ArmedInOrder
<1>2. StrayInv /\ [Next]_vars => StrayInv'
  BY StepLeavesNoTimer
<1>3. StrayInv => NoStrayTimer
  BY DEF StrayInv
<1>4. QED
  BY <1>1, <1>2, <1>3, PTL DEF Spec

-----------------------------------------------------------------------------
(* Timers: what has to be true of the callers and of the store *)

(* Callers, and the ids the controller makes up, use one id for one target. *)
IdsHaveOneTarget ==
  \A id \in Ids : \A t1, t2 \in TargetsOf[id] : t1 = t2

(* The store never prunes a command that is still in flight. *)
PruneSparesInFlight ==
  [][\A id \in Ids : InFlight(id) => commands'[id] # NoCommand]_vars

(* A command in flight is for a target its id is used for. *)
TargetIsOfId ==
  \A id \in Ids : InFlight(id) => commands[id].target \in TargetsOf[id]

(* A timer still to fire is the one of the issue of its command that is in flight. *)
TimersBelong ==
  \A entry \in running : InFlight(entry[1]) /\ commands[entry[1]].issuedAt = entry[2]

(***************************************************************************)
(* Inductive for the timers.  A re-issue cancels the timer of the earlier  *)
(* issue only because it supersedes it, so the earlier issue has to be for *)
(* the same target: TargetIsOfId.                                          *)
(***************************************************************************)
TimerInv == ServiceInv /\ TargetIsOfId /\ TimersBelong

(* A step that gives commands in flight a verdict and cancels what the Map holds for them. *)
LEMMA ConcludeKeepsTimers ==
  ASSUME TimerInv, NEW ids \in SUBSET Ids, \A id \in ids : InFlight(id),
         NEW verdict \in Statuses,
         commands' = WithStatus(ids, verdict),
         running' = running \ Handles(ids)
  PROVE  TargetIsOfId' /\ TimersBelong'
<1>1. \A j \in Ids :
        /\ commands'[j].status = IF j \in ids THEN verdict ELSE commands[j].status
        /\ commands'[j].target = commands[j].target
        /\ j \notin ids => commands'[j] = commands[j]
  BY WithStatusEffect DEF TimerInv, ServiceInv
<1>2. TargetIsOfId'
  BY <1>1 DEF TimerInv, TargetIsOfId, InFlight
<1>3. ASSUME NEW entry \in running'
      PROVE  InFlight(entry[1])' /\ commands'[entry[1]].issuedAt = entry[2]
  <2>1. /\ entry \in running /\ entry[1] \in Ids /\ entry = <<entry[1], entry[2]>>
        /\ InFlight(entry[1]) /\ commands[entry[1]].issuedAt = entry[2]
    BY <1>3 DEF TimerInv, ServiceInv, TypeOK, TimersBelong
  <2>2. timers[entry[1]] = entry[2]
    BY <2>1 DEF TimerInv, ServiceInv, InFlightIsTimed
  <2>3. entry[1] \notin ids
    BY <1>3, <2>1, <2>2 DEF Handles
  <2>4. QED
    BY <1>1, <2>1, <2>3 DEF InFlight
<1>4. QED
  BY <1>2, <1>3 DEF TimersBelong

(* A step that touches neither a timer nor what a command is waiting for. *)
LEMMA IdleKeepsTimers ==
  ASSUME TimerInv, running' = running,
         \A j \in Ids : /\ InFlight(j) <=> InFlight(j)'
                        /\ commands'[j].target = commands[j].target
                        /\ commands'[j].issuedAt = commands[j].issuedAt
  PROVE  TargetIsOfId' /\ TimersBelong'
<1>1. TargetIsOfId'
  BY DEF TimerInv, TargetIsOfId
<1>2. \A entry \in running : entry[1] \in Ids
  BY DEF TimerInv, ServiceInv, TypeOK
<1>3. TimersBelong'
  BY <1>2 DEF TimerInv, TimersBelong
<1>4. QED
  BY <1>1, <1>3

(* A request: the timer of an earlier issue of the same id goes with the superseded command. *)
LEMMA IssueKeepsTimers ==
  ASSUME TimerInv, IdsHaveOneTarget,
         \A j \in Ids : InFlight(j) => commands'[j] # NoCommand,
         NEW id \in Ids, NEW t \in Targets, NEW v \in Payloads(t),
         IssueAndDispatch(id, t, v) \/ IssueAndFail(id, t, v)
  PROVE  TargetIsOfId' /\ TimersBelong'
<1> DEFINE stale == InFlightForTarget(t)
<1>1. issued < MaxIssues /\ t \in TargetsOf[id]
  BY DEF IssueAndDispatch, IssueAndFail, Request
<1>2. PICK status \in {"dispatched", "failed"}, a \in Agents \cup {None} :
        /\ commands' = Created(id, t, v, status, a)
        /\ status = "dispatched" => running' = (running \ Handles(stale)) \cup {<<id, issued + 1>>}
        /\ status = "failed" => running' = running \ Handles(stale \cup {id})
  <2>1. CASE IssueAndDispatch(id, t, v)
    BY <2>1, PathIsAgent DEF IssueAndDispatch
  <2>2. CASE IssueAndFail(id, t, v)
    BY <2>2 DEF IssueAndFail, ClearTimers
  <2>3. QED
    BY <2>1, <2>2
<1>3. /\ commands'[id] = [target |-> t, value |-> v, status |-> status,
                          agent |-> a, issuedAt |-> issued + 1]
      /\ \A j \in Ids \ {id} :
           /\ commands'[j] \in {WithStatus(stale, "superseded")[j], NoCommand}
           /\ IsInFlight(commands'[j].status) => commands'[j] = commands[j]
  <2>1. status \in Statuses
    BY DEF Statuses, InFlightStatuses, TerminalStatuses
  <2>2. QED
    BY <1>1, <1>2, <2>1, CreatedEffect DEF TimerInv
<1>4. stale = {i \in Ids : InFlight(i) /\ commands[i].target = t}
  BY SupersedesAll DEF TimerInv, ServiceInv
<1>5. \A j \in Ids : j \notin stale => WithStatus(stale, "superseded")[j] = commands[j]
  BY DEF WithStatus
<1>6. TargetIsOfId'
  BY <1>1, <1>3 DEF TimerInv, TargetIsOfId, InFlight
<1>7. ASSUME NEW entry \in running, entry \in running'
      PROVE  InFlight(entry[1])' /\ commands'[entry[1]].issuedAt = entry[2]
  <2>1. /\ entry[1] \in Ids /\ entry = <<entry[1], entry[2]>>
        /\ InFlight(entry[1]) /\ commands[entry[1]].issuedAt = entry[2]
        /\ timers[entry[1]] = entry[2] /\ entry[2] <= issued
    BY <1>7 DEF TimerInv, ServiceInv, TypeOK, TimersBelong, InFlightIsTimed, IssuedInOrder
  <2>2. entry # <<id, issued + 1>>
    BY <2>1 DEF TimerInv, ServiceInv, TypeOK
  <2>3. entry \notin Handles(stale)
    BY <1>2, <1>7, <2>2 DEF Handles
  <2>4. entry[1] \notin stale
    BY <2>1, <2>3 DEF Handles
  <2>5. entry[1] # id
    <3>1. commands[entry[1]].target \in TargetsOf[entry[1]]
      BY <2>1 DEF TimerInv, TargetIsOfId
    <3>2. entry[1] = id => commands[entry[1]].target = t
      BY <1>1, <3>1 DEF IdsHaveOneTarget
    <3>3. QED
      BY <1>4, <2>1, <2>4, <3>2
  <2>6. commands'[entry[1]] = commands[entry[1]]
    BY <1>3, <1>5, <2>1, <2>4, <2>5
  <2>7. QED
    BY <2>1, <2>6 DEF InFlight
<1>8. status = "dispatched" => InFlight(id)' /\ commands'[id].issuedAt = issued + 1
  BY <1>3 DEF InFlight, IsInFlight, InFlightStatuses
<1>9. ASSUME NEW entry \in running'
      PROVE  InFlight(entry[1])' /\ commands'[entry[1]].issuedAt = entry[2]
  <2>1. CASE entry \in running
    BY <1>7, <2>1
  <2>2. CASE entry \notin running
    <3>1. status = "dispatched" /\ entry = <<id, issued + 1>>
      BY <1>2, <1>9, <2>2
    <3>2. QED
      BY <1>8, <3>1
  <2>3. QED
    BY <2>1, <2>2
<1>10. QED
  BY <1>6, <1>9 DEF TimersBelong

(* Every step keeps the timers true, as long as it prunes no command in flight. *)
LEMMA StepKeepsTimers ==
  ASSUME IdsHaveOneTarget, TimerInv, [Next]_vars,
         [\A id \in Ids : InFlight(id) => commands'[id] # NoCommand]_vars
  PROVE  TimerInv'
<1>1. ServiceInv'
  BY ServiceInvStep DEF TimerInv
<1>2. ASSUME NEW id \in Ids, NEW t \in Targets, NEW v \in Payloads(t),
             IssueAndDispatch(id, t, v) \/ IssueAndFail(id, t, v)
      PROVE  TargetIsOfId' /\ TimersBelong'
  <2>1. issued' # issued
    BY <1>2, CommandAssumption
    DEF IssueAndDispatch, IssueAndFail, Request, TimerInv, ServiceInv, TypeOK
  <2>2. \A j \in Ids : InFlight(j) => commands'[j] # NoCommand
    BY <2>1 DEF vars
  <2>3. QED
    BY <1>2, <2>2, IssueKeepsTimers
<1>3. ASSUME NEW id \in Ids, OnAgentAck(id)
      PROVE  TargetIsOfId' /\ TimersBelong'
  <2>1. InFlight(id) /\ commands' = WithStatus({id}, "acked") /\ running' = running
    BY <1>3 DEF OnAgentAck, Awaited
  <2>2. "acked" \in Statuses /\ IsInFlight("acked")
    BY DEF Statuses, IsInFlight, InFlightStatuses
  <2>3. \A j \in Ids :
          /\ commands'[j].status = IF j \in {id} THEN "acked" ELSE commands[j].status
          /\ commands'[j].target = commands[j].target
          /\ commands'[j].issuedAt = commands[j].issuedAt
    BY <2>1, <2>2, WithStatusEffect DEF TimerInv, ServiceInv
  <2>4. \A j \in Ids : InFlight(j) <=> InFlight(j)'
    BY <2>1, <2>2, <2>3 DEF InFlight
  <2>5. QED
    BY <2>1, <2>3, <2>4, IdleKeepsTimers
<1>4. ASSUME NEW id \in Ids, NEW ok \in BOOLEAN, OnAgentResult(id, ok)
      PROVE  TargetIsOfId' /\ TimersBelong'
  <2>1. /\ InFlight(id) /\ running' = running \ Handles({id})
        /\ commands' = WithStatus({id}, IF ok THEN "succeeded" ELSE "failed")
    BY <1>4 DEF OnAgentResult, Awaited, ClearTimers
  <2>2. (IF ok THEN "succeeded" ELSE "failed") \in Statuses
    BY DEF Statuses, TerminalStatuses
  <2>3. QED
    BY <2>1, <2>2, ConcludeKeepsTimers
<1>5. ASSUME NEW entry \in running, Timeout(entry[1], entry[2])
      PROVE  TargetIsOfId' /\ TimersBelong'
  <2>1. /\ entry[1] \in Ids /\ InFlight(entry[1]) /\ commands[entry[1]].issuedAt = entry[2]
    BY <1>5 DEF TimerInv, ServiceInv, TypeOK, TimersBelong
  <2>2. timers[entry[1]] = entry[2]
    BY <2>1 DEF TimerInv, ServiceInv, InFlightIsTimed
  <2>3. running' = running \ Handles({entry[1]})
    BY <1>5, <2>2 DEF Timeout, Handles
  <2>4. commands' = WithStatus({entry[1]}, "timed-out") /\ "timed-out" \in Statuses
    BY <1>5, <2>1 DEF Timeout, Overdue, Statuses, TerminalStatuses
  <2>5. QED
    BY <2>1, <2>3, <2>4, ConcludeKeepsTimers
<1>6. ASSUME NEW a \in Agents, AgentLost(a)
      PROVE  TargetIsOfId' /\ TimersBelong'
  <2>1. /\ running' = running \ Handles(CommandsOf(a))
        /\ commands' = WithStatus(CommandsOf(a), "failed")
        /\ CommandsOf(a) \in SUBSET Ids /\ \A j \in CommandsOf(a) : InFlight(j)
    BY <1>6 DEF AgentLost, ClearTimers, CommandsOf
  <2>2. "failed" \in Statuses
    BY DEF Statuses, TerminalStatuses
  <2>3. QED
    BY <2>1, <2>2, ConcludeKeepsTimers
<1>7. ASSUME UNCHANGED <<commands, running>>
      PROVE  TargetIsOfId' /\ TimersBelong'
  BY <1>7, IdleKeepsTimers DEF InFlight
<1>8. TargetIsOfId' /\ TimersBelong'
  BY <1>2, <1>3, <1>4, <1>5, <1>6, <1>7
  DEF Next, vars, Observe, LoseSight, AgentHello, SocketDrops
<1>9. QED
  BY <1>1, <1>8 DEF TimerInv

(***************************************************************************)
(* A timer that is still to fire is the timer of the issue in flight: no   *)
(* timeout cuts a later issue short, for any desk and any re-use of ids    *)
(* for their own target.  Both conditions are needed: dispatch overwrites  *)
(* the handle of an id without cancelling it, and relies on supersede to   *)
(* have cancelled it.                                                      *)
(***************************************************************************)
THEOREM TimersAreCurrent ==
  ASSUME IdsHaveOneTarget
  PROVE  Spec /\ PruneSparesInFlight => []TimersBelong
<1>1. Init => TimerInv
  <2> SUFFICES ASSUME Init PROVE TimerInv
    OBVIOUS
  <2>1. running = {} /\ \A id \in Ids : ~InFlight(id)
    BY DEF Init, InFlight, IsInFlight, InFlightStatuses, NoCommand, Unknown
  <2>2. QED
    BY <2>1, ServiceInvInit DEF TimerInv, TargetIsOfId, TimersBelong
<1>2. TimerInv /\ [Next]_vars /\ [\A id \in Ids : InFlight(id) => commands'[id] # NoCommand]_vars
        => TimerInv'
  BY StepKeepsTimers
<1>3. TimerInv => TimersBelong
  BY DEF TimerInv
<1>4. QED
  BY <1>1, <1>2, <1>3, PTL DEF Spec, PruneSparesInFlight

(* A desk with no more ids than the store retains prunes nothing at all. *)
LEMMA NothingToPrune ==
  ASSUME IsFiniteSet(Ids), Cardinality(Ids) <= MaxRetained,
         NEW cmds \in [Ids -> Command \cup {NoCommand}]
  PROVE  Prune(cmds) = cmds
<1>1. ASSUME NEW id \in Ids
      PROVE  Cardinality({other \in Ids : cmds[other].issuedAt > cmds[id].issuedAt}) < MaxRetained
  <2> DEFINE newer == {other \in Ids : cmds[other].issuedAt > cmds[id].issuedAt}
  <2>1. cmds[id].issuedAt \in Nat
    BY CommandAssumption DEF Command, NoCommand
  <2>2. id \notin newer /\ newer \subseteq Ids /\ newer # Ids
    BY <2>1
  <2> HIDE DEF newer
  <2>3. Cardinality(newer) <= Cardinality(Ids) /\ Cardinality(newer) # Cardinality(Ids)
    BY <2>2, FS_Subset
  <2>4. IsFiniteSet(newer)
    BY <2>2, FS_Subset
  <2>5. Cardinality(newer) \in Nat /\ Cardinality(Ids) \in Nat /\ MaxRetained \in Nat
    BY <2>4, FS_CardinalityType, CommandAssumption
  <2>6. QED
    BY <2>3, <2>5 DEF newer
<1>2. QED
  BY <1>1 DEF Prune

(* With no more ids than the store retains, one id per target is all it takes. *)
THEOREM TimersAreCurrentOnSmallDesks ==
  ASSUME IdsHaveOneTarget, IsFiniteSet(Ids), Cardinality(Ids) <= MaxRetained
  PROVE  Spec => []TimersBelong
<1>1. ServiceInv /\ [Next]_vars => [\A id \in Ids : InFlight(id) => commands'[id] # NoCommand]_vars
  <2> SUFFICES ASSUME ServiceInv, Next, NEW j \in Ids, InFlight(j)
               PROVE  commands'[j] # NoCommand
    OBVIOUS
  <2>0. commands[j] # NoCommand
    BY DEF InFlight, IsInFlight, InFlightStatuses, NoCommand, Unknown
  <2>1. ASSUME NEW ids \in SUBSET Ids, \A id \in ids : InFlight(id),
               NEW status \in Statuses
        PROVE  /\ WithStatus(ids, status) \in [Ids -> Command \cup {NoCommand}]
               /\ WithStatus(ids, status)[j] # NoCommand
    <3>1. /\ WithStatus(ids, status) \in [Ids -> Command \cup {NoCommand}]
          /\ WithStatus(ids, status)[j].issuedAt = commands[j].issuedAt
      BY <2>1, WithStatusEffect DEF ServiceInv
    <3>2. commands[j].issuedAt # NoCommand.issuedAt
      BY InFlightIsCommand, CommandAssumption DEF ServiceInv, Command, NoCommand
    <3>3. QED
      BY <3>1, <3>2
  <2>2. ASSUME NEW ids \in SUBSET Ids, \A id \in ids : InFlight(id),
               NEW status \in Statuses, commands' = WithStatus(ids, status)
        PROVE  commands'[j] # NoCommand
    BY <2>1, <2>2
  <2>3. Statuses = {"pending", "dispatched", "acked", "succeeded", "failed", "timed-out", "superseded"}
    BY DEF Statuses, InFlightStatuses, TerminalStatuses
  <2>4. ASSUME NEW id \in Ids, NEW t \in Targets, NEW v \in Payloads(t),
               IssueAndDispatch(id, t, v) \/ IssueAndFail(id, t, v)
        PROVE  commands'[j] # NoCommand
    <3> DEFINE base == WithStatus(InFlightForTarget(t), "superseded")
    <3>1. /\ base \in [Ids -> Command \cup {NoCommand}]
          /\ base[j] # NoCommand
      BY <2>1, <2>3, SupersedesAll DEF ServiceInv
    <3>2. PICK status \in {"dispatched", "failed"}, a \in Agents \cup {None} :
            commands' = Created(id, t, v, status, a)
      BY <2>4, PathIsAgent DEF IssueAndDispatch, IssueAndFail
    <3> DEFINE fresh == [target |-> t, value |-> v, status |-> status,
                         agent |-> a, issuedAt |-> issued + 1]
    <3>3. fresh \in Command
      <4>1. issued + 1 \in 1..MaxIssues
        BY <2>4, CommandAssumption
        DEF IssueAndDispatch, IssueAndFail, Request, ServiceInv, TypeOK
      <4>2. QED
        BY <2>3, <4>1, PayloadIsValue DEF Command
    <3>4. fresh # NoCommand
      BY CommandAssumption DEF NoCommand, ServiceInv, TypeOK
    <3> HIDE DEF base, fresh
    <3>5. [base EXCEPT ![id] = fresh] \in [Ids -> Command \cup {NoCommand}]
      BY <3>1, <3>3
    <3>6. commands' = [base EXCEPT ![id] = fresh]
      BY <3>2, <3>5, NothingToPrune DEF Created, base, fresh
    <3>7. QED
      BY <3>1, <3>4, <3>6
  <2>5. ASSUME NEW id \in Ids, OnAgentAck(id) \/ \E ok \in BOOLEAN : OnAgentResult(id, ok)
        PROVE  commands'[j] # NoCommand
    <3>1. InFlight(id) /\ \E status \in Statuses : commands' = WithStatus({id}, status)
      BY <2>3, <2>5 DEF OnAgentAck, OnAgentResult, Awaited
    <3>2. QED
      BY <2>2, <3>1
  <2>6. ASSUME NEW entry \in running, Timeout(entry[1], entry[2])
        PROVE  commands'[j] # NoCommand
    BY <2>0, <2>2, <2>3, <2>6 DEF Timeout, Overdue, ServiceInv, TypeOK
  <2>7. ASSUME NEW a \in Agents, AgentLost(a)
        PROVE  commands'[j] # NoCommand
    BY <2>2, <2>3, <2>7 DEF AgentLost, CommandsOf
  <2>8. QED
    BY <2>0, <2>4, <2>5, <2>6, <2>7
    DEF Next, Observe, LoseSight, AgentHello, SocketDrops
<1>2. QED
  BY <1>1, TimersAreCurrent, ServiceInvariant, PTL DEF Spec, PruneSparesInFlight
=============================================================================
