---------------------- MODULE PeripheralCommandsProofs ----------------------
(***************************************************************************)
(* The peripheral commands for every number of ports, every set of ids and *)
(* every switch and caller among Setups: what is in flight, what the       *)
(* controller believes of the switch, and what "succeeded" promises.       *)
(***************************************************************************)
EXTENDS PeripheralCommands, FiniteSetTheorems, TLAPS

(* The steps of Next, told apart by what they do to commands. *)
ConcludeStep(n) == Settle(n) \/ SwitchDone(n) \/ Land(n) \/ PinFails(n)
EvidenceStep(p) == UsbReport(p) \/ AgentPresence(p)

LEMMA NextByParts ==
  Next <=> /\ \/ \E id \in Ids, p \in Ports : SetPeripheralOwner(id, p)
              \/ \E n \in 1..MaxIssues : ConcludeStep(n) \/ Press(n)
              \/ \E p \in setup.reporters : EvidenceStep(p)
           /\ UNCHANGED setup
  BY DEF Next, ConcludeStep, EvidenceStep

Known(id) == commands[id] # NoCommand

(* A job is that of a command the store knows: commands are never removed. *)
JobsAreKnown == \A n \in Running : Known(jobs[n].command)

KnownTypes == TypeOK /\ JobsAreKnown

-----------------------------------------------------------------------------
(* Types *)

LEMMA NothingIsRecord ==
  /\ NoJob \notin Job
  /\ NoCommand \notin Command
  BY DEF NoJob, Job, NoCommand, Command, Statuses, InFlightStatuses, TerminalStatuses, Unknown

LEMMA Bounds == NPorts \in Nat \ {0} /\ MaxIssues \in Nat /\ 0 \in 0..MaxIssues
  BY PeripheralAssumption

(* A job that runs is a job. *)
LEMMA RunningIsJob ==
  ASSUME TypeOK, NEW n \in Running
  PROVE  n \in 1..MaxIssues /\ jobs[n] \in Job
  BY DEF TypeOK, Running

LEMMA CurrentPortIsPort ==
  ASSUME TypeOK
  PROVE  CurrentPort \in Ports \cup {None}
<1>1. UsbHolders \subseteq Ports
  BY PeripheralAssumption DEF TypeOK, UsbHolders, Setup
<1>2. CASE HasUsbEvidence /\ Cardinality(UsbHolders) = 1
  <2>1. UsbHolders # {}
    BY <1>2, FS_EmptySet
  <2>2. QED
    BY <1>1, <1>2, <2>1 DEF CurrentPort
<1>3. CASE ~(HasUsbEvidence /\ Cardinality(UsbHolders) = 1)
  BY <1>3 DEF CurrentPort, TypeOK
<1>4. QED
  BY <1>2, <1>3

(* A driver that presses knows how often: never more than once around. *)
LEMMA PressesIsCount ==
  ASSUME TypeOK, NEW p \in Ports, ~Refuses(p), Mode # "simulated"
  PROVE  Presses(p) \in 0..NPorts
<1>1. CASE Mode = "direct"
  BY <1>1, PeripheralAssumption DEF Presses
<1>2. CASE Mode # "direct"
  <2>1. Mode = "cycle"
    BY <1>2, PeripheralAssumption DEF TypeOK, Setup, Mode
  <2>2. CurrentPort \in Ports
    BY <2>1, CurrentPortIsPort DEF Refuses
  <2>3. p + NPorts - CurrentPort \in Nat
    BY <2>2, PeripheralAssumption DEF Ports
  <2>4. (p + NPorts - CurrentPort) % NPorts \in 0..NPorts - 1
    BY <2>3, PeripheralAssumption
  <2>5. QED
    BY <2>1, <2>4, PeripheralAssumption DEF Presses
<1>3. QED
  BY <1>1, <1>2

(* The job a request starts. *)
LEMMA StartedJobIsJob ==
  ASSUME TypeOK, NEW id \in Ids, NEW p \in Ports
  PROVE  [command |-> id, port |-> p, phase |-> PhaseAtStart(id, p),
          left |-> IF PhaseAtStart(id, p) = "pressing" THEN Presses(p) ELSE 0,
          ok |-> id \in completed \/ ~Refuses(p), knew |-> CurrentPort = position] \in Job
<1>1. PhaseAtStart(id, p) \in {"switching", "pressing", "settling"}
  BY DEF PhaseAtStart
<1>2. CASE PhaseAtStart(id, p) = "pressing"
  <2>1. ~Refuses(p) /\ Mode # "simulated"
    BY <1>2 DEF PhaseAtStart
  <2>2. Presses(p) \in 0..NPorts
    BY <2>1, PressesIsCount
  <2>3. QED
    BY <1>2, <2>2 DEF Job
<1>3. CASE PhaseAtStart(id, p) # "pressing"
  BY <1>1, <1>3, PeripheralAssumption DEF Job
<1>4. QED
  BY <1>2, <1>3

LEMMA InitTypes == Init => KnownTypes
<1>1. SUFFICES ASSUME Init PROVE KnownTypes
  OBVIOUS
<1>2. position \in Ports /\ reported \in Ports \cup {None}
  <2>1. 0 \in Ports
    BY PeripheralAssumption DEF Ports
  <2>2. QED
    BY <1>1, <2>1 DEF Init
<1>3. TypeOK
  <2>1. setup \in Setups /\ busy \in BOOLEAN /\ completed \subseteq Ids /\ issued \in 0..MaxIssues
    BY <1>1, Bounds DEF Init
  <2>2. /\ commands \in [Ids -> Command \cup {NoCommand}]
        /\ jobs \in [1..MaxIssues -> Job \cup {NoJob}]
    BY <1>1 DEF Init
  <2>3. /\ desired \in [port : Ports, command : Ids] \cup {None}
        /\ usb \in [Ports -> {"unreported", "seen", "absent"}]
        /\ online \subseteq setup.reporters
    BY <1>1 DEF Init
  <2>4. QED
    BY <1>2, <2>1, <2>2, <2>3 DEF TypeOK
<1>4. QED
  BY <1>1, <1>3 DEF Init, KnownTypes, JobsAreKnown, Running

(* The command a request creates. *)
LEMMA RequestCreates ==
  ASSUME TypeOK, NEW id \in Ids, NEW p \in Ports, SetPeripheralOwner(id, p)
  PROVE  /\ issued + 1 \in 1..MaxIssues /\ issued' = issued + 1
         /\ commands'[id] = [port |-> p, status |-> "dispatched", issuedAt |-> issued + 1]
         /\ commands'[id].status = "dispatched" /\ commands'[id].port = p
         /\ commands'[id] # NoCommand
<1>1. issued + 1 \in 1..MaxIssues /\ issued' = issued + 1
  BY PeripheralAssumption DEF SetPeripheralOwner, TypeOK, Setup
<1>2. commands'[id] = [port |-> p, status |-> "dispatched", issuedAt |-> issued + 1]
  BY DEF SetPeripheralOwner, Superseded
<1>3. QED
  BY <1>1, <1>2 DEF NoCommand, Unknown

(* What it writes to the others. *)
LEMMA RequestEffect ==
  ASSUME TypeOK, NEW id \in Ids, NEW p \in Ports, SetPeripheralOwner(id, p)
  PROVE  /\ \A other \in Ids \ {id} :
              commands'[other] = IF InFlight(other)
                                 THEN [commands[other] EXCEPT !.status = "superseded"]
                                 ELSE commands[other]
         /\ \A other \in Ids : Known(other) => Known(other)'
         /\ commands' \in [Ids -> Command \cup {NoCommand}]
<1>1. issued + 1 \in 1..MaxIssues
  BY RequestCreates
<1>2. commands' = [Superseded EXCEPT
                     ![id] = [port |-> p, status |-> "dispatched", issuedAt |-> issued + 1]]
  BY DEF SetPeripheralOwner
<1>3. /\ commands'[id] = [port |-> p, status |-> "dispatched", issuedAt |-> issued + 1]
      /\ \A other \in Ids \ {id} : commands'[other] = Superseded[other]
  BY <1>2 DEF Superseded
<1>4. ASSUME NEW other \in Ids, InFlight(other)
      PROVE  [commands[other] EXCEPT !.status = "superseded"]
               \in Command
  <2>1. commands[other] # NoCommand
    BY <1>4 DEF InFlight, IsInFlight, InFlightStatuses, NoCommand, Unknown
  <2>2. commands[other] \in Command
    BY <2>1 DEF TypeOK
  <2>3. QED
    BY <2>2 DEF Command, Statuses, TerminalStatuses
<1>5. \A other \in Ids \ {id} :
        commands'[other] = IF InFlight(other)
                           THEN [commands[other] EXCEPT !.status = "superseded"]
                           ELSE commands[other]
  BY <1>3 DEF Superseded
<1>6. [port |-> p, status |-> "dispatched", issuedAt |-> issued + 1]
        \in Command
  BY <1>1 DEF Command, Statuses, InFlightStatuses
<1>7. ASSUME NEW other \in Ids
      PROVE  /\ commands'[other] \in Command \cup {NoCommand}
             /\ commands[other] # NoCommand => commands'[other] # NoCommand
  <2>1. CASE other = id
    BY <1>3, <1>6, <2>1, NothingIsRecord
  <2>2. CASE other # id /\ InFlight(other)
    BY <1>4, <1>5, <2>2, NothingIsRecord
  <2>3. CASE other # id /\ ~InFlight(other)
    BY <1>5, <2>3 DEF TypeOK
  <2>4. QED
    BY <2>1, <2>2, <2>3
<1>8. DOMAIN commands' = Ids /\ commands' = [other \in Ids |-> commands'[other]]
  BY <1>2 DEF Superseded
<1>9. QED
  BY <1>5, <1>7, <1>8 DEF Known

(* The job a request starts is the only one it touches. *)
LEMMA RequestJobs ==
  ASSUME TypeOK, NEW id \in Ids, NEW p \in Ports, SetPeripheralOwner(id, p)
  PROVE  /\ jobs' \in [1..MaxIssues -> Job \cup {NoJob}]
         /\ issued + 1 \in Running' /\ issued + 1 \in 1..MaxIssues
         /\ jobs'[issued + 1].command = id /\ jobs'[issued + 1].port = p
         /\ jobs'[issued + 1].phase = PhaseAtStart(id, p)
         /\ jobs'[issued + 1].left = IF PhaseAtStart(id, p) = "pressing" THEN Presses(p) ELSE 0
         /\ jobs'[issued + 1].ok = (id \in completed \/ ~Refuses(p))
         /\ jobs'[issued + 1].knew = (CurrentPort = position)
         /\ \A n \in Running' : n # issued + 1 => n \in Running /\ jobs'[n] = jobs[n]
<1>1. issued + 1 \in 1..MaxIssues
  BY RequestCreates
<1> DEFINE job == [command |-> id, port |-> p, phase |-> PhaseAtStart(id, p),
                   left |-> IF PhaseAtStart(id, p) = "pressing" THEN Presses(p) ELSE 0,
                   ok |-> id \in completed \/ ~Refuses(p), knew |-> CurrentPort = position]
<1>2. jobs' = [jobs EXCEPT ![issued + 1] = job]
  BY DEF SetPeripheralOwner, Start
<1>3. job \in Job /\ job # NoJob
  BY StartedJobIsJob, NothingIsRecord
<1>4. /\ job.command = id /\ job.port = p
      /\ job.phase = PhaseAtStart(id, p)
      /\ job.left = IF PhaseAtStart(id, p) = "pressing" THEN Presses(p) ELSE 0
      /\ job.ok = (id \in completed \/ ~Refuses(p))
      /\ job.knew = (CurrentPort = position)
  OBVIOUS
<1> HIDE DEF job
<1>5. jobs'[issued + 1] = job /\ \A n \in 1..MaxIssues \ {issued + 1} : jobs'[n] = jobs[n]
  BY <1>1, <1>2 DEF TypeOK
<1>6. jobs' \in [1..MaxIssues -> Job \cup {NoJob}]
  BY <1>1, <1>2, <1>3 DEF TypeOK
<1>7. QED
  BY <1>1, <1>3, <1>4, <1>5, <1>6 DEF Running

(* What the end of a job writes. *)
LEMMA ConcludeEffect ==
  ASSUME KnownTypes, NEW n \in 1..MaxIssues, ConcludeStep(n), UNCHANGED setup
  PROVE  /\ n \in Running /\ jobs[n].command \in Ids
         /\ jobs' = [jobs EXCEPT ![n] = NoJob]
         /\ \A m \in Running' : m \in Running /\ m # n /\ jobs'[m] = jobs[m]
         /\ \E status \in {"succeeded", "failed"} :
              commands' = [commands EXCEPT ![jobs[n].command].status = status]
         /\ commands' \in [Ids -> Command \cup {NoCommand}]
         /\ \A id \in Ids : Known(id) => Known(id)'
         /\ reported' = IF Mode = "simulated" THEN position' ELSE None
         /\ UNCHANGED <<desired, usb, online, issued>>
<1>1. TypeOK
  BY DEF KnownTypes
<1>2. n \in Running
  BY DEF ConcludeStep, Settle, SwitchDone, Land, PinFails, Settling, Pressing
<1>3. PICK ok \in BOOLEAN : Conclude(n, ok)
  <2>1. jobs[n].ok \in BOOLEAN
    BY <1>1, <1>2, RunningIsJob DEF Job
  <2>2. QED
    BY <2>1 DEF ConcludeStep, Settle, SwitchDone, Land, PinFails
<1>4. jobs[n].command \in Ids /\ commands[jobs[n].command] # NoCommand
  BY <1>1, <1>2, RunningIsJob DEF Job, KnownTypes, JobsAreKnown, Known
<1>5. /\ jobs' = [jobs EXCEPT ![n] = NoJob]
      /\ reported' = IF Mode = "simulated" THEN position' ELSE None
      /\ UNCHANGED <<desired, usb, online, issued>>
  BY <1>3 DEF Conclude, SwitchReading
<1>6. \A m \in Running' : m \in Running /\ m # n /\ jobs'[m] = jobs[m]
  BY <1>1, <1>5 DEF Running, TypeOK
<1>7. PICK status \in {"succeeded", "failed"} :
        commands' = [commands EXCEPT ![jobs[n].command].status = status]
  BY <1>3 DEF Conclude, Verdict
<1>8. [commands[jobs[n].command] EXCEPT !.status = status]
        \in Command
  <2>1. commands[jobs[n].command] \in Command
    BY <1>1, <1>4 DEF TypeOK
  <2>2. QED
    BY <2>1 DEF Command, Statuses, TerminalStatuses
<1>9. /\ commands' \in [Ids -> Command \cup {NoCommand}]
      /\ \A id \in Ids : Known(id) => Known(id)'
  BY <1>1, <1>4, <1>7, <1>8, NothingIsRecord DEF TypeOK, Known
<1>10. QED
  BY <1>2, <1>4, <1>5, <1>6, <1>7, <1>9

LEMMA RequestTypes ==
  ASSUME KnownTypes, NEW id \in Ids, NEW p \in Ports, SetPeripheralOwner(id, p), UNCHANGED setup
  PROVE  KnownTypes'
<1>1. TypeOK
  BY DEF KnownTypes
<1>2. TypeOK'
  <2>1. /\ desired' = [port |-> p, command |-> id]
        /\ UNCHANGED <<position, reported, usb, online>>
    BY DEF SetPeripheralOwner
  <2>2. busy' \in BOOLEAN /\ completed' \subseteq Ids
    BY <1>1 DEF SetPeripheralOwner, Start, TypeOK
  <2>3. issued' \in 0..MaxIssues
    <3>1. issued + 1 \in 1..MaxIssues /\ issued' = issued + 1
      BY <1>1, RequestCreates
    <3>2. QED
      BY <3>1, Bounds
  <2>4. commands' \in [Ids -> Command \cup {NoCommand}]
    BY <1>1, RequestEffect
  <2>5. jobs' \in [1..MaxIssues -> Job \cup {NoJob}]
    BY <1>1, RequestJobs
  <2>6. QED
    BY <1>1, <2>1, <2>2, <2>3, <2>4, <2>5 DEF TypeOK
<1>3. ASSUME NEW n \in Running' PROVE commands'[jobs'[n].command] # NoCommand
  <2>1. CASE n = issued + 1
    <3>1. jobs'[n].command = id
      BY <1>1, <2>1, RequestJobs
    <3>2. commands'[id] # NoCommand
      BY <1>1, RequestCreates
    <3>3. QED
      BY <3>1, <3>2
  <2>2. CASE n # issued + 1
    <3>1. n \in Running /\ jobs'[n] = jobs[n]
      BY <1>1, <2>2, RequestJobs
    <3>2. jobs[n].command \in Ids /\ Known(jobs[n].command)
      BY <1>1, <3>1, RunningIsJob DEF KnownTypes, JobsAreKnown, Job
    <3>3. \A other \in Ids : Known(other) => Known(other)'
      BY <1>1, RequestEffect
    <3>4. QED
      BY <3>1, <3>2, <3>3 DEF Known
  <2>3. QED
    BY <2>1, <2>2
<1>4. QED
  BY <1>2, <1>3 DEF KnownTypes, JobsAreKnown, Known

LEMMA ConcludeTypes ==
  ASSUME KnownTypes, NEW n \in 1..MaxIssues, ConcludeStep(n), UNCHANGED setup
  PROVE  KnownTypes'
<1>1. TypeOK
  BY DEF KnownTypes
<1>2. position' \in Ports /\ busy' \in BOOLEAN /\ completed' \subseteq Ids
  <2>1. n \in Running /\ jobs[n].port \in Ports /\ jobs[n].command \in Ids
    BY <1>1, ConcludeEffect, RunningIsJob DEF Job
  <2>2. QED
    BY <1>1, <2>1
       DEF ConcludeStep, Settle, SwitchDone, Land, PinFails, FreeSwitch, TypeOK
<1>3. /\ jobs' = [jobs EXCEPT ![n] = NoJob]
      /\ commands' \in [Ids -> Command \cup {NoCommand}]
      /\ reported' \in Ports \cup {None}
      /\ UNCHANGED <<desired, usb, online, issued>>
  BY <1>2, ConcludeEffect
<1>4. jobs' \in [1..MaxIssues -> Job \cup {NoJob}]
  BY <1>1, <1>3 DEF TypeOK
<1>5. TypeOK'
  BY <1>1, <1>2, <1>3, <1>4 DEF TypeOK
<1>6. ASSUME NEW m \in Running' PROVE commands'[jobs'[m].command] # NoCommand
  <2>1. m \in Running /\ jobs'[m] = jobs[m]
    BY ConcludeEffect
  <2>2. jobs[m].command \in Ids /\ Known(jobs[m].command)
    BY <1>1, <2>1, RunningIsJob DEF KnownTypes, JobsAreKnown, Job
  <2>3. \A other \in Ids : Known(other) => Known(other)'
    BY ConcludeEffect
  <2>4. QED
    BY <2>1, <2>2, <2>3 DEF Known
<1>7. QED
  BY <1>5, <1>6 DEF KnownTypes, JobsAreKnown, Known

(* What a press changes. *)
LEMMA PressEffect ==
  ASSUME TypeOK, NEW n \in 1..MaxIssues, Press(n)
  PROVE  /\ n \in Running /\ jobs[n].phase = "pressing" /\ jobs[n].left \in 1..NPorts
         /\ jobs'[n] = [jobs[n] EXCEPT !.left = @ - 1]
         /\ \A m \in 1..MaxIssues \ {n} : jobs'[m] = jobs[m]
         /\ jobs' \in [1..MaxIssues -> Job \cup {NoJob}]
         /\ Running' = Running
         /\ position' \in Ports
<1>1. n \in Running /\ jobs[n].phase = "pressing" /\ jobs[n] \in Job /\ jobs[n].left \in 1..NPorts
  BY RunningIsJob, PeripheralAssumption DEF Press, Pressing, Job
<1>2. /\ jobs'[n] = [jobs[n] EXCEPT !.left = @ - 1]
      /\ \A m \in 1..MaxIssues \ {n} : jobs'[m] = jobs[m]
      /\ jobs' = [m \in 1..MaxIssues |-> jobs'[m]]
  BY <1>1 DEF Press, TypeOK
<1>3. [jobs[n] EXCEPT !.left = @ - 1] \in Job
  <2>1. jobs[n].left - 1 \in 0..NPorts
    BY <1>1, PeripheralAssumption
  <2>2. QED
    BY <1>1, <2>1 DEF Job
<1>4. jobs' \in [1..MaxIssues -> Job \cup {NoJob}]
  BY <1>2, <1>3 DEF TypeOK
<1>5. Running' = Running
  BY <1>1, <1>2, <1>3, NothingIsRecord DEF Running
<1>6. position' \in Ports
  <2>1. (position + 1) % NPorts \in Ports
    BY PeripheralAssumption DEF TypeOK, Ports
  <2>2. jobs[n].port \in Ports
    BY <1>1 DEF Job
  <2>3. QED
    BY <2>1, <2>2 DEF Press, NextPort, TypeOK
<1>7. QED
  BY <1>1, <1>2, <1>4, <1>5, <1>6

LEMMA PressTypes ==
  ASSUME KnownTypes, NEW n \in 1..MaxIssues, Press(n), UNCHANGED setup
  PROVE  KnownTypes'
<1>1. TypeOK
  BY DEF KnownTypes
<1>2. UNCHANGED <<commands, desired, busy, completed, reported, usb, online, issued>>
  BY DEF Press
<1>3. TypeOK'
  <2>1. jobs' \in [1..MaxIssues -> Job \cup {NoJob}] /\ position' \in Ports
    BY <1>1, PressEffect
  <2>2. QED
    BY <1>1, <1>2, <2>1 DEF TypeOK
<1>4. \A m \in Running' : m \in Running /\ jobs'[m].command = jobs[m].command
  <2>1. ASSUME NEW m \in Running' PROVE m \in Running /\ jobs'[m].command = jobs[m].command
    <3>1. m \in Running /\ m \in 1..MaxIssues /\ jobs[n] \in Job
      BY <1>1, PressEffect, RunningIsJob
    <3>2. CASE m = n
      <4>1. jobs'[n] = [jobs[n] EXCEPT !.left = @ - 1]
        BY <1>1, PressEffect
      <4>2. QED
        BY <3>1, <3>2, <4>1 DEF Job
    <3>3. CASE m # n
      <4>1. jobs'[m] = jobs[m]
        BY <1>1, <3>1, <3>3, PressEffect
      <4>2. QED
        BY <3>1, <4>1
    <3>4. QED
      BY <3>2, <3>3
  <2>2. QED
    BY <2>1
<1>5. JobsAreKnown'
  BY <1>2, <1>4 DEF KnownTypes, JobsAreKnown, Known
<1>6. QED
  BY <1>3, <1>5 DEF KnownTypes

LEMMA EvidenceTypes ==
  ASSUME KnownTypes, NEW p \in setup.reporters, EvidenceStep(p), UNCHANGED setup
  PROVE  KnownTypes'
<1>1. p \in Ports
  BY PeripheralAssumption DEF KnownTypes, TypeOK, Setup
<1>2. UNCHANGED <<commands, desired, jobs, busy, completed, position, reported, issued>>
  BY DEF EvidenceStep, UsbReport, AgentPresence
<1>3. usb' \in [Ports -> {"unreported", "seen", "absent"}] /\ online' \subseteq setup.reporters
  BY <1>1 DEF EvidenceStep, UsbReport, AgentPresence, KnownTypes, TypeOK
<1>4. QED
  BY <1>2, <1>3 DEF KnownTypes, TypeOK, JobsAreKnown, Known, Running

LEMMA TypesStep ==
  ASSUME KnownTypes, [Next]_vars
  PROVE  KnownTypes'
<1>1. CASE UNCHANGED vars
  BY <1>1 DEF vars, KnownTypes, TypeOK, JobsAreKnown, Known, Running
<1>2. CASE Next
  BY <1>2, NextByParts, RequestTypes, ConcludeTypes, PressTypes, EvidenceTypes
<1>3. QED
  BY <1>1, <1>2

(***************************************************************************)
(* The commands, jobs and readings of command-service.ts and of the switch *)
(* drivers keep their types, the arithmetic of presses included.           *)
(***************************************************************************)
THEOREM PeripheralTypes == Spec => []TypeOK
<1>1. KnownTypes => TypeOK
  BY DEF KnownTypes
<1>2. QED
  BY <1>1, InitTypes, TypesStep, PTL DEF Spec

-----------------------------------------------------------------------------
(* Commands and the desired state *)

(* The end of a job gives its command a verdict and leaves the others alone. *)
LEMMA ConcludeCommands ==
  ASSUME KnownTypes, NEW n \in 1..MaxIssues, ConcludeStep(n), UNCHANGED setup
  PROVE  /\ \A id \in Ids : commands'[id].port = commands[id].port
         /\ \A id \in Ids : id # jobs[n].command => commands'[id] = commands[id]
         /\ commands'[jobs[n].command].status \in {"succeeded", "failed"}
<1>1. PICK status \in {"succeeded", "failed"} :
        commands' = [commands EXCEPT ![jobs[n].command].status = status]
  BY ConcludeEffect
<1>2. jobs[n].command \in Ids /\ commands[jobs[n].command] \in Command
  <2>1. n \in Running /\ jobs[n].command \in Ids
    BY ConcludeEffect
  <2>2. QED
    BY <2>1 DEF KnownTypes, TypeOK, JobsAreKnown, Known
<1>3. commands'[jobs[n].command] = [commands[jobs[n].command] EXCEPT !.status = status]
  BY <1>1, <1>2 DEF KnownTypes, TypeOK
<1>4. \A id \in Ids : id # jobs[n].command => commands'[id] = commands[id]
  BY <1>1 DEF KnownTypes, TypeOK
<1>5. QED
  BY <1>2, <1>3, <1>4 DEF Command

(* A step that is not a request puts no command in flight. *)
LEMMA NothingNewInFlight ==
  ASSUME DesiredNamesInFlight, desired' = desired,
         \A id \in Ids : commands'[id].port = commands[id].port,
         \A id \in Ids : commands'[id].status \in InFlightStatuses => InFlight(id)
  PROVE  DesiredNamesInFlight'
  BY DEF DesiredNamesInFlight, InFlight, IsInFlight

LEMMA RequestKeepsIntent ==
  ASSUME KnownTypes, NEW id \in Ids, NEW p \in Ports, SetPeripheralOwner(id, p), UNCHANGED setup
  PROVE  DesiredNamesInFlight'
<1>1. TypeOK
  BY DEF KnownTypes
<1>2. desired' = [port |-> p, command |-> id] /\ commands'[id].port = p
  BY <1>1, RequestCreates DEF SetPeripheralOwner
<1>3. ASSUME NEW other \in Ids \ {id}
      PROVE  commands'[other].status \notin InFlightStatuses
  <2>1. commands'[other] = IF InFlight(other)
                           THEN [commands[other] EXCEPT !.status = "superseded"]
                           ELSE commands[other]
    BY <1>1, RequestEffect
  <2>2. CASE ~InFlight(other)
    BY <2>1, <2>2 DEF InFlight, IsInFlight
  <2>3. CASE InFlight(other)
    <3>1. commands[other] \in Command
      BY <1>1, <2>3 DEF TypeOK, InFlight, IsInFlight, InFlightStatuses, NoCommand, Unknown
    <3>2. QED
      BY <2>1, <2>3, <3>1 DEF Command, InFlightStatuses
  <2>4. QED
    BY <2>2, <2>3
<1>4. QED
  BY <1>2, <1>3 DEF DesiredNamesInFlight, InFlight, IsInFlight

LEMMA IntentStep ==
  ASSUME KnownTypes, DesiredNamesInFlight, [Next]_vars
  PROVE  DesiredNamesInFlight'
<1>1. CASE Next
  <2>1. UNCHANGED setup
    BY <1>1, NextByParts
  <2>2. ASSUME NEW id \in Ids, NEW p \in Ports, SetPeripheralOwner(id, p)
        PROVE  DesiredNamesInFlight'
    BY <2>1, <2>2, RequestKeepsIntent
  <2>3. ASSUME NEW n \in 1..MaxIssues, ConcludeStep(n)
        PROVE  DesiredNamesInFlight'
    <3>1. desired' = desired
      BY <2>1, <2>3, ConcludeEffect
    <3>2. /\ \A id \in Ids : commands'[id].port = commands[id].port
          /\ \A id \in Ids : commands'[id].status \in InFlightStatuses => InFlight(id)
      BY <2>1, <2>3, ConcludeCommands DEF InFlight, IsInFlight, InFlightStatuses
    <3>3. QED
      BY <3>1, <3>2, NothingNewInFlight
  <2>4. ASSUME NEW n \in 1..MaxIssues, Press(n)
        PROVE  DesiredNamesInFlight'
    BY <2>4 DEF Press, DesiredNamesInFlight, InFlight
  <2>5. ASSUME NEW p \in setup.reporters, EvidenceStep(p)
        PROVE  DesiredNamesInFlight'
    BY <2>5 DEF EvidenceStep, UsbReport, AgentPresence, DesiredNamesInFlight, InFlight
  <2>6. QED
    BY <1>1, <2>2, <2>3, <2>4, <2>5, NextByParts
<1>2. CASE UNCHANGED vars
  BY <1>2 DEF vars, DesiredNamesInFlight, InFlight
<1>3. QED
  BY <1>1, <1>2

LEMMA IntentInit == Init => DesiredNamesInFlight
  BY DEF Init, DesiredNamesInFlight, InFlight, IsInFlight, InFlightStatuses, NoCommand, Unknown

(***************************************************************************)
(* The peripheral command in flight is the last request, for the port that *)
(* desired.peripheralOwners names, whatever jobs of older commands write.  *)
(***************************************************************************)
THEOREM DesiredIsInFlight == Spec => []DesiredNamesInFlight
<1>1. QED
  BY InitTypes, TypesStep, IntentInit, IntentStep, PTL DEF Spec

-----------------------------------------------------------------------------
(* The switch and its own account *)

(* What a driver does depends on the switch it drives. *)
PhaseFitsMode ==
  \A n \in Running : /\ jobs[n].phase = "switching" => Mode = "simulated"
                     /\ jobs[n].phase = "pressing" => Mode # "simulated"

(* Only a simulated switch gives an account, and it is true. *)
AccountIsTrue == reported # None => Mode = "simulated" /\ reported = position

AccountInv == KnownTypes /\ PhaseFitsMode /\ AccountIsTrue

LEMMA AccountInit == Init => AccountInv
<1>1. SUFFICES ASSUME Init PROVE AccountInv
  OBVIOUS
<1>2. Running = {}
  BY <1>1 DEF Init, Running
<1>3. AccountIsTrue
  BY <1>1 DEF Init, AccountIsTrue
<1>4. QED
  BY <1>1, <1>2, <1>3, InitTypes DEF AccountInv, PhaseFitsMode

(* What a request starts fits the switch. *)
LEMMA StartFitsMode ==
  ASSUME NEW id \in Ids, NEW p \in Ports
  PROVE  /\ PhaseAtStart(id, p) = "switching" => Mode = "simulated"
         /\ PhaseAtStart(id, p) = "pressing" => Mode # "simulated"
  BY DEF PhaseAtStart

LEMMA AccountStep ==
  ASSUME AccountInv, [Next]_vars
  PROVE  AccountInv'
<1>1. KnownTypes /\ TypeOK /\ KnownTypes'
  BY TypesStep DEF AccountInv, KnownTypes
<1>2. CASE Next
  <2>1. UNCHANGED setup
    BY <1>2, NextByParts
  <2>2. ASSUME NEW id \in Ids, NEW p \in Ports, SetPeripheralOwner(id, p)
        PROVE  PhaseFitsMode' /\ AccountIsTrue'
    <3>1. ASSUME NEW n \in Running'
          PROVE  /\ jobs'[n].phase = "switching" => Mode = "simulated"
                 /\ jobs'[n].phase = "pressing" => Mode # "simulated"
      <4>1. CASE n = issued + 1
        BY <1>1, <2>2, <4>1, RequestJobs, StartFitsMode
      <4>2. CASE n # issued + 1
        <5>1. n \in Running /\ jobs'[n] = jobs[n]
          BY <1>1, <2>2, <4>2, RequestJobs
        <5>2. QED
          BY <5>1 DEF AccountInv, PhaseFitsMode
      <4>3. QED
        BY <4>1, <4>2
    <3>2. UNCHANGED <<reported, position>>
      BY <2>2 DEF SetPeripheralOwner
    <3>3. QED
      BY <2>1, <3>1, <3>2 DEF AccountInv, PhaseFitsMode, AccountIsTrue, Mode
  <2>3. ASSUME NEW n \in 1..MaxIssues, ConcludeStep(n)
        PROVE  PhaseFitsMode' /\ AccountIsTrue'
    <3>1. reported' = IF Mode = "simulated" THEN position' ELSE None
      BY <1>1, <2>1, <2>3, ConcludeEffect
    <3>2. \A m \in Running' : m \in Running /\ jobs'[m] = jobs[m]
      BY <1>1, <2>1, <2>3, ConcludeEffect
    <3>3. QED
      BY <2>1, <3>1, <3>2 DEF AccountInv, PhaseFitsMode, AccountIsTrue, Mode
  <2>4. ASSUME NEW n \in 1..MaxIssues, Press(n)
        PROVE  PhaseFitsMode' /\ AccountIsTrue'
    <3>1. /\ n \in Running /\ jobs[n].phase = "pressing" /\ Running' = Running
          /\ jobs'[n] = [jobs[n] EXCEPT !.left = @ - 1]
          /\ \A m \in 1..MaxIssues \ {n} : jobs'[m] = jobs[m]
      BY <1>1, <2>4, PressEffect
    <3>2. Mode # "simulated" /\ reported = None /\ reported' = reported
      BY <2>4, <3>1 DEF AccountInv, PhaseFitsMode, AccountIsTrue, Press
    <3>3. \A m \in Running' : m \in Running /\ jobs'[m].phase = jobs[m].phase
      <4>1. jobs[n] \in Job
        BY <1>1, <3>1, RunningIsJob
      <4>2. QED
        BY <3>1, <4>1 DEF Job, Running
    <3>4. QED
      BY <2>1, <3>2, <3>3 DEF AccountInv, PhaseFitsMode, AccountIsTrue, Mode
  <2>5. ASSUME NEW p \in setup.reporters, EvidenceStep(p)
        PROVE  PhaseFitsMode' /\ AccountIsTrue'
    BY <2>1, <2>5 DEF EvidenceStep, UsbReport, AgentPresence, AccountInv, PhaseFitsMode,
       AccountIsTrue, Mode, Running
  <2>6. QED
    BY <1>1, <1>2, <2>2, <2>3, <2>4, <2>5, NextByParts DEF AccountInv
<1>3. CASE UNCHANGED vars
  BY <1>1, <1>3 DEF vars, AccountInv, PhaseFitsMode, AccountIsTrue, Mode, Running
<1>4. QED
  BY <1>2, <1>3

(***************************************************************************)
(* What the store keeps as the switch's own account is never a port the    *)
(* switch has left: a driver that can be read is read after every move of  *)
(* executePeripheralCommand, and one that cannot be read has no account.   *)
(***************************************************************************)
THEOREM ReportNeverStale == Spec => []ReportIsCurrent
<1>1. AccountInv => ReportIsCurrent
  BY DEF AccountInv, AccountIsTrue, ReportIsCurrent
<1>2. QED
  BY <1>1, AccountInit, AccountStep, PTL DEF Spec

-----------------------------------------------------------------------------
(* Counting presses around the cycle *)

LEMMA ModBelow ==
  ASSUME NEW N \in Nat \ {0}, NEW x \in 0..N - 1
  PROVE  x % N = x
  OBVIOUS

LEMMA ModAbove ==
  ASSUME NEW N \in Nat \ {0}, NEW x \in N..2 * N - 1
  PROVE  x % N = x - N
  OBVIOUS

(* pressesFor counts the way from where the switch is. *)
LEMMA PressesReach ==
  ASSUME NEW N \in Nat \ {0}, NEW x \in 0..N - 1, NEW p \in 0..N - 1
  PROVE  (x + ((p + N - x) % N)) % N = p
<1>1. CASE p < x
  <2>1. (p + N - x) % N = p + N - x
    BY <1>1, ModBelow
  <2>2. x + (p + N - x) \in N..2 * N - 1 /\ x + (p + N - x) = p + N
    BY <1>1
  <2>3. (p + N) % N = p
    BY <2>2, ModAbove
  <2>4. QED
    BY <2>1, <2>2, <2>3
<1>2. CASE p >= x
  <2>1. (p + N - x) % N = p - x
    BY <1>2, ModAbove
  <2>2. p % N = p
    BY ModBelow
  <2>3. QED
    BY <2>1, <2>2
<1>3. QED
  BY <1>1, <1>2

(* A press takes one off the count and moves the switch one on, across the wrap-around. *)
LEMMA PressIsOneOn ==
  ASSUME NEW N \in Nat \ {0}, NEW x \in 0..N - 1, NEW left \in 1..N, NEW p \in 0..N - 1,
         (x + left) % N = p
  PROVE  (((x + 1) % N) + (left - 1)) % N = p
<1>1. CASE x + 1 < N
  BY <1>1, ModBelow
<1>2. CASE x + 1 = N
  <2>1. (x + 1) % N = 0
    BY <1>2, ModAbove
  <2>2. x + left \in N..2 * N - 1
    BY <1>2
  <2>3. (x + left) % N = left - 1
    BY <1>2, <2>2, ModAbove
  <2>4. left - 1 \in 0..N - 1
    OBVIOUS
  <2>5. (left - 1) % N = left - 1
    BY <2>4, ModBelow
  <2>6. QED
    BY <2>1, <2>3, <2>5
<1>3. QED
  BY <1>1, <1>2

(* Callers that wait for each other leave at most one job. *)
JobsAreSerial == ~setup.overlap => \A m, n \in Running : m = n

CountInv == KnownTypes /\ JobsAreSerial /\ PressesLeftReachPort

LEMMA CountInit == Init => CountInv
<1>1. SUFFICES ASSUME Init PROVE CountInv
  OBVIOUS
<1>2. Running = {}
  BY <1>1 DEF Init, Running
<1>3. QED
  BY <1>1, <1>2, InitTypes DEF CountInv, JobsAreSerial, PressesLeftReachPort

LEMMA RequestCounts ==
  ASSUME CountInv, NEW id \in Ids, NEW p \in Ports, SetPeripheralOwner(id, p), UNCHANGED setup
  PROVE  JobsAreSerial' /\ PressesLeftReachPort'
<1>1. TypeOK
  BY DEF CountInv, KnownTypes
<1>2. ~setup.overlap => \A n \in Running' : n = issued + 1
  <2>1. ~setup.overlap => Running = {}
    BY DEF SetPeripheralOwner
  <2>2. \A n \in Running' : n # issued + 1 => n \in Running
    BY <1>1, RequestJobs
  <2>3. QED
    BY <2>1, <2>2
<1>3. JobsAreSerial'
  BY <1>2 DEF JobsAreSerial
<1>4. ASSUME Mode = "cycle", jobs'[issued + 1].phase = "pressing", jobs'[issued + 1].knew
      PROVE  (position + jobs'[issued + 1].left) % NPorts = jobs'[issued + 1].port
  <2>1. /\ PhaseAtStart(id, p) = "pressing" /\ CurrentPort = position
        /\ jobs'[issued + 1].port = p /\ jobs'[issued + 1].left = Presses(p)
    <3>1. /\ jobs'[issued + 1].port = p /\ jobs'[issued + 1].phase = PhaseAtStart(id, p)
          /\ jobs'[issued + 1].left = IF PhaseAtStart(id, p) = "pressing" THEN Presses(p) ELSE 0
          /\ jobs'[issued + 1].knew = (CurrentPort = position)
      BY <1>1, RequestJobs
    <3>2. PhaseAtStart(id, p) = "pressing"
      BY <1>4, <3>1
    <3>3. QED
      BY <1>4, <3>1, <3>2
  <2>2. Presses(p) = (p + NPorts - position) % NPorts
    BY <1>4, <2>1 DEF Presses
  <2>3. position \in 0..NPorts - 1 /\ p \in 0..NPorts - 1
    BY <1>1 DEF TypeOK, Ports
  <2>4. (position + ((p + NPorts - position) % NPorts)) % NPorts = p
    BY <2>3, Bounds, PressesReach
  <2>5. QED
    BY <2>1, <2>2, <2>4
<1>5. position' = position /\ Mode' = Mode
  BY DEF SetPeripheralOwner, Mode
<1>6. PressesLeftReachPort'
  BY <1>2, <1>4, <1>5 DEF PressesLeftReachPort
<1>7. QED
  BY <1>3, <1>6

LEMMA PressCounts ==
  ASSUME CountInv, NEW n \in 1..MaxIssues, Press(n), UNCHANGED setup
  PROVE  JobsAreSerial' /\ PressesLeftReachPort'
<1>1. TypeOK
  BY DEF CountInv, KnownTypes
<1>2. /\ n \in Running /\ jobs[n].phase = "pressing" /\ jobs[n].left \in 1..NPorts
      /\ jobs'[n] = [jobs[n] EXCEPT !.left = @ - 1]
      /\ Running' = Running
  BY <1>1, PressEffect
<1>3. jobs[n] \in Job
  BY <1>1, <1>2, RunningIsJob
<1>4. /\ jobs'[n].left = jobs[n].left - 1
      /\ jobs'[n].port = jobs[n].port /\ jobs'[n].knew = jobs[n].knew
  BY <1>2, <1>3 DEF Job
<1>5. JobsAreSerial'
  BY <1>2 DEF CountInv, JobsAreSerial
<1>6. ASSUME Mode = "cycle", ~setup.overlap, ~setup.misses, NEW m \in Running, jobs'[m].knew
      PROVE  (position' + jobs'[m].left) % NPorts = jobs'[m].port
  <2>1. m = n
    BY <1>2, <1>6 DEF CountInv, JobsAreSerial
  <2>2. (position + jobs[n].left) % NPorts = jobs[n].port
    BY <1>2, <1>4, <1>6, <2>1 DEF CountInv, PressesLeftReachPort
  <2>3. position' = (position + 1) % NPorts
    BY <1>6 DEF Press, NextPort
  <2>4. position \in 0..NPorts - 1 /\ jobs[n].port \in 0..NPorts - 1
    BY <1>1, <1>3 DEF TypeOK, Job, Ports
  <2>5. (((position + 1) % NPorts) + (jobs[n].left - 1)) % NPorts = jobs[n].port
    BY <1>2, <2>2, <2>4, Bounds, PressIsOneOn
  <2>6. QED
    BY <1>4, <2>1, <2>3, <2>5
<1>7. PressesLeftReachPort'
  BY <1>2, <1>6 DEF PressesLeftReachPort, Mode
<1>8. QED
  BY <1>5, <1>7

LEMMA CountStep ==
  ASSUME CountInv, [Next]_vars
  PROVE  CountInv'
<1>1. KnownTypes /\ TypeOK /\ KnownTypes'
  BY TypesStep DEF CountInv, KnownTypes
<1>2. CASE Next
  <2>1. UNCHANGED setup
    BY <1>2, NextByParts
  <2>2. ASSUME NEW n \in 1..MaxIssues, ConcludeStep(n)
        PROVE  JobsAreSerial' /\ PressesLeftReachPort'
    <3>1. /\ n \in Running
          /\ \A m \in Running' : m \in Running /\ m # n /\ jobs'[m] = jobs[m]
      BY <1>1, <2>1, <2>2, ConcludeEffect
    <3>2. ~setup.overlap => Running' = {}
      BY <3>1 DEF CountInv, JobsAreSerial
    <3>3. QED
      BY <2>1, <3>2 DEF JobsAreSerial, PressesLeftReachPort
  <2>3. ASSUME NEW p \in setup.reporters, EvidenceStep(p)
        PROVE  JobsAreSerial' /\ PressesLeftReachPort'
    BY <2>1, <2>3 DEF EvidenceStep, UsbReport, AgentPresence, CountInv, JobsAreSerial,
       PressesLeftReachPort, Mode, Running
  <2>4. QED
    BY <1>1, <1>2, <2>1, <2>2, <2>3, RequestCounts, PressCounts, NextByParts DEF CountInv
<1>3. CASE UNCHANGED vars
  BY <1>1, <1>3 DEF vars, CountInv, JobsAreSerial, PressesLeftReachPort, Mode, Running
<1>4. QED
  BY <1>2, <1>3

(***************************************************************************)
(* The counting of pressesFor is right for every number of ports: from a   *)
(* known start, with one job at a time and no missed press, a cycling      *)
(* switch is always as many presses from its target as the job has left.   *)
(***************************************************************************)
THEOREM PressesAreCounted == Spec => []PressesLeftReachPort
<1>1. CountInv => PressesLeftReachPort
  BY DEF CountInv
<1>2. QED
  BY <1>1, CountInit, CountStep, PTL DEF Spec

-----------------------------------------------------------------------------
(* What "succeeded" promises *)

(* The busy flag lets one job at a time move a simulated switch. *)
OneSwitching ==
  /\ \A n \in Running : jobs[n].phase = "switching" => busy
  /\ \A m, n \in Running : jobs[m].phase = "switching" /\ jobs[n].phase = "switching" => m = n

DesiredIsKnown ==
  desired # None => /\ desired.command \in Ids /\ Known(desired.command)
                    /\ commands[desired.command].port = desired.port

(* With fresh ids the cache never answers, and a job is that of its command's only issue. *)
IdsAreFresh ==
  setup.fresh =>
    /\ \A id \in completed : Known(id)
    /\ \A n \in Running : jobs[n].port = commands[jobs[n].command].port
    /\ Mode = "simulated" => \A n \in Running : jobs[n].phase = "settling" => ~jobs[n].ok

(* Once the last request has succeeded, no older job is left that could move the switch. *)
NothingMovesAfter ==
  setup.fresh /\ Mode = "simulated" /\ desired # None =>
    (commands[desired.command].status = "succeeded" =>
       position = desired.port /\ \A n \in Running : jobs[n].phase # "switching")

ReachInv ==
  AccountInv /\ OneSwitching /\ DesiredIsKnown /\ IdsAreFresh /\ NothingMovesAfter

LEMMA ReachInit == Init => ReachInv
<1>1. SUFFICES ASSUME Init PROVE ReachInv
  OBVIOUS
<1>2. Running = {} /\ completed = {} /\ desired = None
  BY <1>1 DEF Init, Running
<1>3. QED
  BY <1>1, <1>2, AccountInit
     DEF ReachInv, OneSwitching, DesiredIsKnown, IdsAreFresh, NothingMovesAfter

LEMMA RequestReaches ==
  ASSUME ReachInv, NEW id \in Ids, NEW p \in Ports, SetPeripheralOwner(id, p), UNCHANGED setup
  PROVE  OneSwitching' /\ DesiredIsKnown' /\ IdsAreFresh' /\ NothingMovesAfter'
<1>1. TypeOK /\ KnownTypes
  BY DEF ReachInv, AccountInv, KnownTypes
<1>2. /\ jobs'[issued + 1].command = id /\ jobs'[issued + 1].port = p
      /\ jobs'[issued + 1].phase = PhaseAtStart(id, p)
      /\ jobs'[issued + 1].ok = (id \in completed \/ ~Refuses(p))
  BY <1>1, RequestJobs
<1>3. ASSUME NEW n \in Running', n # issued + 1
      PROVE  n \in Running /\ jobs'[n] = jobs[n]
  BY <1>1, <1>3, RequestJobs
<1>4. /\ desired' = [port |-> p, command |-> id] /\ position' = position /\ Mode' = Mode
      /\ busy' = (busy \/ PhaseAtStart(id, p) = "switching")
      /\ completed' \subseteq completed \cup {id}
      /\ setup.fresh => commands[id] = NoCommand
  BY DEF SetPeripheralOwner, Start, Mode
<1>5. /\ commands'[id].status = "dispatched" /\ commands'[id].port = p
      /\ commands'[id] # NoCommand
  BY <1>1, RequestCreates
<1>6. \A other \in Ids : Known(other) => Known(other)'
  BY <1>1, RequestEffect
<1>7. OneSwitching'
  <2>1. PhaseAtStart(id, p) = "switching" => ~busy
    BY DEF PhaseAtStart, Refuses, SwitchIsBusy
  <2>2. ASSUME NEW n \in Running', jobs'[n].phase = "switching"
        PROVE  busy'
    BY <1>2, <1>3, <1>4, <2>2 DEF ReachInv, OneSwitching
  <2>3. ASSUME NEW m \in Running', NEW n \in Running',
               jobs'[m].phase = "switching", jobs'[n].phase = "switching"
        PROVE  m = n
    <3>1. CASE m # issued + 1 /\ n # issued + 1
      BY <1>3, <2>3, <3>1 DEF ReachInv, OneSwitching
    <3>2. CASE m = issued + 1 /\ n # issued + 1
      BY <1>2, <1>3, <2>1, <2>3, <3>2 DEF ReachInv, OneSwitching
    <3>3. CASE n = issued + 1 /\ m # issued + 1
      BY <1>2, <1>3, <2>1, <2>3, <3>3 DEF ReachInv, OneSwitching
    <3>4. QED
      BY <3>1, <3>2, <3>3
  <2>4. QED
    BY <2>2, <2>3 DEF OneSwitching
<1>8. DesiredIsKnown'
  BY <1>4, <1>5 DEF DesiredIsKnown, Known
<1>9. IdsAreFresh'
  <2>1. SUFFICES ASSUME setup.fresh
                 PROVE  /\ \A other \in completed' : commands'[other] # NoCommand
                        /\ \A n \in Running' : jobs'[n].port = commands'[jobs'[n].command].port
                        /\ Mode = "simulated" =>
                             \A n \in Running' : jobs'[n].phase = "settling" => ~jobs'[n].ok
    BY <1>4 DEF IdsAreFresh, Known
  <2>2. id \notin completed
    BY <1>4, <2>1 DEF ReachInv, IdsAreFresh, Known
  <2>3. ASSUME NEW other \in completed' PROVE commands'[other] # NoCommand
    <3>1. CASE other = id
      BY <1>5, <3>1
    <3>2. CASE other # id
      <4>1. other \in completed /\ other \in Ids /\ Known(other)
        BY <1>1, <1>4, <2>1, <2>3, <3>2 DEF ReachInv, IdsAreFresh, TypeOK
      <4>2. QED
        BY <1>6, <4>1 DEF Known
    <3>3. QED
      BY <3>1, <3>2
  <2>4. ASSUME NEW n \in Running' PROVE jobs'[n].port = commands'[jobs'[n].command].port
    <3>1. CASE n = issued + 1
      BY <1>2, <1>5, <3>1
    <3>2. CASE n # issued + 1
      <4> DEFINE older == jobs[n].command
      <4>1. /\ n \in Running /\ jobs'[n] = jobs[n] /\ older \in Ids
            /\ jobs[n].port = commands[older].port /\ commands[older] # NoCommand
        BY <1>1, <1>3, <2>1, <3>2, RunningIsJob
           DEF ReachInv, IdsAreFresh, KnownTypes, JobsAreKnown, Known, Job
      <4>2. older # id /\ commands[older] \in Command
        BY <1>1, <1>4, <2>1, <4>1 DEF TypeOK
      <4>3. commands'[older] = IF InFlight(older)
                               THEN [commands[older] EXCEPT !.status = "superseded"]
                               ELSE commands[older]
        BY <1>1, <4>1, <4>2, RequestEffect
      <4>4. commands'[older].port = commands[older].port
        BY <4>2, <4>3 DEF Command
      <4>5. QED
        BY <4>1, <4>4
    <3>3. QED
      BY <3>1, <3>2
  <2>5. ASSUME Mode = "simulated", NEW n \in Running', jobs'[n].phase = "settling"
        PROVE  ~jobs'[n].ok
    <3>1. CASE n = issued + 1
      <4>1. PhaseAtStart(id, p) = "settling"
        BY <1>2, <2>5, <3>1
      <4>2. Refuses(p)
        BY <2>2, <2>5, <4>1 DEF PhaseAtStart
      <4>3. QED
        BY <1>2, <2>2, <3>1, <4>2
    <3>2. CASE n # issued + 1
      BY <1>3, <2>1, <2>5, <3>2 DEF ReachInv, IdsAreFresh
    <3>3. QED
      BY <3>1, <3>2
  <2>6. QED
    BY <2>3, <2>4, <2>5
<1>10. NothingMovesAfter'
  BY <1>4, <1>5 DEF NothingMovesAfter
<1>11. QED
  BY <1>7, <1>8, <1>9, <1>10

(* What the end of a job keeps in every case. *)
LEMMA ConcludeKeeps ==
  ASSUME ReachInv, NEW n \in 1..MaxIssues, ConcludeStep(n), UNCHANGED setup
  PROVE  /\ DesiredIsKnown'
         /\ IdsAreFresh'
<1>1. TypeOK /\ KnownTypes
  BY DEF ReachInv, AccountInv, KnownTypes
<1>2. /\ n \in Running /\ jobs[n].command \in Ids /\ Known(jobs[n].command)
      /\ \A m \in Running' : m \in Running /\ jobs'[m] = jobs[m]
      /\ \A id \in Ids : Known(id) => Known(id)'
      /\ desired' = desired
  BY <1>1, ConcludeEffect DEF KnownTypes, JobsAreKnown
<1>3. \A id \in Ids : commands'[id].port = commands[id].port
  BY <1>1, ConcludeCommands
<1>4. completed' \subseteq completed \cup {jobs[n].command} /\ Mode' = Mode
  BY DEF ConcludeStep, Settle, SwitchDone, Land, PinFails, Mode
<1>5. DesiredIsKnown'
  BY <1>2, <1>3 DEF ReachInv, DesiredIsKnown, Known
<1>6. ASSUME setup.fresh, NEW id \in completed' PROVE commands'[id] # NoCommand
  <2>1. id \in Ids /\ Known(id)
    BY <1>1, <1>2, <1>4, <1>6 DEF ReachInv, IdsAreFresh, TypeOK
  <2>2. QED
    BY <1>2, <2>1 DEF Known
<1>7. ASSUME setup.fresh, NEW m \in Running' PROVE jobs'[m].port = commands'[jobs'[m].command].port
  <2>1. /\ m \in Running /\ jobs'[m] = jobs[m] /\ jobs[m].command \in Ids
        /\ jobs[m].port = commands[jobs[m].command].port
    BY <1>1, <1>2, <1>7, RunningIsJob DEF ReachInv, IdsAreFresh, Job
  <2>2. QED
    BY <1>3, <2>1
<1>8. ASSUME setup.fresh, Mode = "simulated", NEW m \in Running', jobs'[m].phase = "settling"
      PROVE  ~jobs'[m].ok
  BY <1>2, <1>8 DEF ReachInv, IdsAreFresh
<1>9. IdsAreFresh'
  BY <1>4, <1>6, <1>7, <1>8 DEF IdsAreFresh, Known
<1>10. QED
  BY <1>5, <1>9

LEMMA ConcludeReaches ==
  ASSUME ReachInv, NEW n \in 1..MaxIssues, ConcludeStep(n), UNCHANGED setup
  PROVE  OneSwitching' /\ NothingMovesAfter'
<1>1. TypeOK /\ KnownTypes
  BY DEF ReachInv, AccountInv, KnownTypes
<1>2. /\ n \in Running /\ jobs[n].command \in Ids
      /\ \A m \in Running' : m \in Running /\ m # n /\ jobs'[m] = jobs[m]
      /\ desired' = desired /\ Mode' = Mode
  BY <1>1, ConcludeEffect DEF Mode
<1>3. \A id \in Ids : id # jobs[n].command => commands'[id] = commands[id]
  BY <1>1, ConcludeCommands
<1>4. CASE SwitchDone(n)
  <2>1. jobs[n].phase = "switching" /\ position' = jobs[n].port
    BY <1>4 DEF SwitchDone
  <2>2. \A m \in Running' : jobs'[m].phase # "switching"
    BY <1>2, <2>1 DEF ReachInv, OneSwitching
  <2>3. OneSwitching'
    BY <2>2 DEF OneSwitching
  <2>4. ASSUME setup.fresh, Mode = "simulated", desired # None,
               commands'[desired.command].status = "succeeded"
        PROVE  position' = desired.port
    <3>1. desired.command \in Ids /\ commands[desired.command].port = desired.port
      BY <2>4 DEF ReachInv, DesiredIsKnown
    <3>2. CASE desired.command = jobs[n].command
      BY <1>2, <2>1, <2>4, <3>1, <3>2 DEF ReachInv, IdsAreFresh
    <3>3. CASE desired.command # jobs[n].command
      <4>1. commands[desired.command].status = "succeeded"
        BY <1>3, <2>4, <3>1, <3>3
      <4>2. QED
        BY <1>2, <2>1, <2>4, <4>1 DEF ReachInv, NothingMovesAfter
    <3>4. QED
      BY <3>2, <3>3
  <2>5. NothingMovesAfter'
    BY <1>2, <2>2, <2>4 DEF NothingMovesAfter
  <2>6. QED
    BY <2>3, <2>5
<1>5. CASE Settle(n)
  <2>1. jobs[n].phase = "settling" /\ UNCHANGED <<busy, position>> /\ Conclude(n, jobs[n].ok)
    BY <1>5 DEF Settle, Settling
  <2>2. OneSwitching'
    BY <1>2, <2>1 DEF ReachInv, OneSwitching
  <2>3. ASSUME setup.fresh, Mode = "simulated", desired # None,
               commands'[desired.command].status = "succeeded"
        PROVE  commands[desired.command].status = "succeeded"
    <3>1. ~jobs[n].ok
      BY <1>2, <2>1, <2>3 DEF ReachInv, IdsAreFresh
    <3>2. commands' = [commands EXCEPT ![jobs[n].command].status = "failed"]
      BY <2>1, <3>1 DEF Conclude, Verdict
    <3>3. commands[jobs[n].command] \in Command
      BY <1>1, <1>2 DEF KnownTypes, TypeOK, JobsAreKnown, Known
    <3>4. commands'[jobs[n].command].status = "failed"
      BY <1>1, <1>2, <3>2, <3>3 DEF TypeOK, Command
    <3>5. desired.command # jobs[n].command /\ desired.command \in Ids
      BY <2>3, <3>4 DEF ReachInv, DesiredIsKnown
    <3>6. QED
      BY <1>3, <2>3, <3>5
  <2>4. NothingMovesAfter'
    BY <1>2, <2>1, <2>3 DEF ReachInv, NothingMovesAfter
  <2>5. QED
    BY <2>2, <2>4
<1>6. CASE Land(n) \/ PinFails(n)
  <2>1. Mode # "simulated"
    BY <1>2, <1>6 DEF Land, PinFails, Pressing, ReachInv, AccountInv, PhaseFitsMode
  <2>2. \A m \in Running' : jobs'[m].phase # "switching"
    BY <1>2, <2>1 DEF ReachInv, AccountInv, PhaseFitsMode
  <2>3. QED
    BY <1>2, <2>1, <2>2 DEF OneSwitching, NothingMovesAfter
<1>7. QED
  BY <1>4, <1>5, <1>6 DEF ConcludeStep

LEMMA PressReaches ==
  ASSUME ReachInv, NEW n \in 1..MaxIssues, Press(n), UNCHANGED setup
  PROVE  OneSwitching' /\ DesiredIsKnown' /\ IdsAreFresh' /\ NothingMovesAfter'
<1>1. TypeOK
  BY DEF ReachInv, AccountInv, KnownTypes
<1>2. /\ n \in Running /\ jobs[n].phase = "pressing" /\ Running' = Running
      /\ jobs'[n] = [jobs[n] EXCEPT !.left = @ - 1]
      /\ \A m \in 1..MaxIssues \ {n} : jobs'[m] = jobs[m]
  BY <1>1, PressEffect
<1>3. Mode # "simulated" /\ Mode' = Mode
  BY <1>2 DEF ReachInv, AccountInv, PhaseFitsMode, Mode
<1>4. jobs[n] \in Job
  BY <1>1, <1>2, RunningIsJob
<1>5. \A m \in Running : /\ jobs'[m].phase = jobs[m].phase /\ jobs'[m].port = jobs[m].port
                         /\ jobs'[m].command = jobs[m].command
  BY <1>2, <1>4 DEF Job, Running
<1>6. UNCHANGED <<commands, desired, completed, busy>>
  BY DEF Press
<1>7. OneSwitching'
  BY <1>2, <1>5, <1>6 DEF ReachInv, OneSwitching
<1>8. DesiredIsKnown' /\ NothingMovesAfter'
  BY <1>3, <1>6 DEF ReachInv, DesiredIsKnown, NothingMovesAfter, Known
<1>9. IdsAreFresh'
  BY <1>2, <1>3, <1>5, <1>6 DEF ReachInv, IdsAreFresh, Known
<1>10. QED
  BY <1>7, <1>8, <1>9

LEMMA ReachStep ==
  ASSUME ReachInv, [Next]_vars
  PROVE  ReachInv'
<1>1. AccountInv'
  BY AccountStep DEF ReachInv
<1>2. CASE Next
  <2>1. UNCHANGED setup
    BY <1>2, NextByParts
  <2>2. ASSUME NEW p \in setup.reporters, EvidenceStep(p)
        PROVE  OneSwitching' /\ DesiredIsKnown' /\ IdsAreFresh' /\ NothingMovesAfter'
    BY <2>1, <2>2 DEF EvidenceStep, UsbReport, AgentPresence, ReachInv, OneSwitching,
       DesiredIsKnown, IdsAreFresh, NothingMovesAfter, Known, Running, Mode
  <2>3. QED
    BY <1>1, <1>2, <2>1, <2>2, RequestReaches, ConcludeReaches, ConcludeKeeps, PressReaches,
       NextByParts DEF ReachInv
<1>3. CASE UNCHANGED vars
  BY <1>1, <1>3 DEF vars, ReachInv, OneSwitching, DesiredIsKnown, IdsAreFresh,
     NothingMovesAfter, Known, Running, Mode
<1>4. QED
  BY <1>2, <1>3

(***************************************************************************)
(* With fresh ids, "succeeded" of the last request means that a simulated  *)
(* switch is on the port it asked for and stays there, whatever jobs of    *)
(* superseded commands executePeripheralCommand still runs.                *)
(***************************************************************************)
THEOREM SuccessIsArrival == Spec => []SucceededMeansThere
<1>1. ReachInv => SucceededMeansThere
  BY DEF ReachInv, NothingMovesAfter, SucceededMeansThere, LastRequestReached
<1>2. QED
  BY <1>1, ReachInit, ReachStep, PTL DEF Spec

-----------------------------------------------------------------------------
(* Nothing waits for a job that is gone *)

(* A job keeps its slot until it ends: requests only start jobs in slots not yet used. *)
JobsAreIssued == \A n \in Running : n <= issued

(***************************************************************************)
(* A command in flight is one that executePeripheralCommand still works on *)
(* under its last issue, for the port it asks for, so that a verdict is    *)
(* still to come: what a command that is never concluded would lack.       *)
(***************************************************************************)
InFlightIsWorkedOn ==
  \A id \in Ids : InFlight(id) =>
    /\ commands[id].issuedAt \in Running
    /\ jobs[commands[id].issuedAt].command = id
    /\ jobs[commands[id].issuedAt].port = commands[id].port

(***************************************************************************)
(* The busy flag of the simulated switch is up exactly while a job waits   *)
(* for its delay: a flag that leaked would refuse every later request, and *)
(* one that is dropped early would let two jobs move the switch.           *)
(***************************************************************************)
BusyIsSwitching == busy <=> \E n \in Running : jobs[n].phase = "switching"

WorkInv == ReachInv /\ JobsAreIssued /\ InFlightIsWorkedOn /\ BusyIsSwitching

LEMMA WorkInit == Init => WorkInv
<1>1. SUFFICES ASSUME Init PROVE WorkInv
  OBVIOUS
<1>2. Running = {} /\ ~busy
  BY <1>1 DEF Init, Running
<1>3. InFlightIsWorkedOn
  BY <1>1 DEF Init, InFlightIsWorkedOn, InFlight, IsInFlight, InFlightStatuses, NoCommand, Unknown
<1>4. QED
  BY <1>1, <1>2, <1>3, ReachInit DEF WorkInv, JobsAreIssued, BusyIsSwitching

(* A request leaves the jobs that run in their slots. *)
LEMMA RequestKeepsJobs ==
  ASSUME WorkInv, NEW id \in Ids, NEW p \in Ports, SetPeripheralOwner(id, p)
  PROVE  /\ \A n \in Running : n \in Running' /\ jobs'[n] = jobs[n]
         /\ JobsAreIssued'
<1>1. TypeOK
  BY DEF WorkInv, ReachInv, AccountInv, KnownTypes
<1>2. /\ issued + 1 \in 1..MaxIssues /\ issued' = issued + 1 /\ issued \in 0..MaxIssues
      /\ \A n \in Running : n \in 1..MaxIssues /\ n <= issued
  BY <1>1, RequestCreates, RunningIsJob DEF WorkInv, JobsAreIssued, TypeOK
<1>3. \A n \in 1..MaxIssues \ {issued + 1} : jobs'[n] = jobs[n]
  BY <1>1 DEF SetPeripheralOwner, Start, TypeOK
<1>4. \A n \in Running : n # issued + 1
  BY <1>2
<1>5. \A n \in Running : n \in Running' /\ jobs'[n] = jobs[n]
  BY <1>2, <1>3, <1>4 DEF Running
<1>6. \A n \in Running' : n = issued + 1 \/ n \in Running
  BY <1>1, RequestJobs
<1>7. ASSUME NEW n \in Running' PROVE n <= issued'
  <2>1. CASE n = issued + 1
    BY <1>2, <2>1
  <2>2. CASE n \in Running
    BY <1>2, <2>2
  <2>3. QED
    BY <1>6, <2>1, <2>2
<1>8. QED
  BY <1>5, <1>7 DEF JobsAreIssued

(* It supersedes what was in flight, and its own command is worked on. *)
LEMMA RequestIsWorkedOn ==
  ASSUME WorkInv, NEW id \in Ids, NEW p \in Ports, SetPeripheralOwner(id, p), UNCHANGED setup
  PROVE  InFlightIsWorkedOn'
<1>1. TypeOK /\ KnownTypes
  BY DEF WorkInv, ReachInv, AccountInv, KnownTypes
<1>2. ASSUME NEW other \in Ids, commands'[other].status \in InFlightStatuses
      PROVE  other = id
  <2>1. DesiredNamesInFlight'
    BY <1>1, RequestKeepsIntent
  <2>2. desired' = [port |-> p, command |-> id]
    BY DEF SetPeripheralOwner
  <2>3. desired' = [port |-> commands'[other].port, command |-> other]
    BY <1>2, <2>1 DEF DesiredNamesInFlight, InFlight, IsInFlight
  <2>4. QED
    BY <2>2, <2>3
<1>3. commands'[id] = [port |-> p, status |-> "dispatched", issuedAt |-> issued + 1]
  BY <1>1, RequestCreates
<1>4. /\ issued + 1 \in Running'
      /\ jobs'[issued + 1].command = id /\ jobs'[issued + 1].port = p
  BY <1>1, RequestJobs
<1>5. commands'[id].issuedAt = issued + 1 /\ commands'[id].port = p
  BY <1>3
<1>6. QED
  BY <1>2, <1>4, <1>5 DEF InFlightIsWorkedOn, InFlight, IsInFlight

LEMMA RequestKeepsFlag ==
  ASSUME WorkInv, NEW id \in Ids, NEW p \in Ports, SetPeripheralOwner(id, p)
  PROVE  BusyIsSwitching'
<1>1. TypeOK
  BY DEF WorkInv, ReachInv, AccountInv, KnownTypes
<1>2. busy' = (busy \/ PhaseAtStart(id, p) = "switching")
  BY DEF SetPeripheralOwner, Start
<1>3. /\ issued + 1 \in Running' /\ jobs'[issued + 1].phase = PhaseAtStart(id, p)
      /\ \A n \in Running' : n # issued + 1 => n \in Running /\ jobs'[n] = jobs[n]
  BY <1>1, RequestJobs
<1>4. \A n \in Running : n \in Running' /\ jobs'[n] = jobs[n]
  BY RequestKeepsJobs
<1>5. ASSUME busy' PROVE \E n \in Running' : jobs'[n].phase = "switching"
  <2>1. CASE busy
    BY <1>4, <2>1 DEF WorkInv, BusyIsSwitching
  <2>2. CASE PhaseAtStart(id, p) = "switching"
    BY <1>3, <2>2
  <2>3. QED
    BY <1>2, <1>5, <2>1, <2>2
<1>6. ASSUME NEW n \in Running', jobs'[n].phase = "switching" PROVE busy'
  <2>1. CASE n = issued + 1
    BY <1>2, <1>3, <1>6, <2>1
  <2>2. CASE n # issued + 1
    BY <1>2, <1>3, <1>6, <2>2 DEF WorkInv, BusyIsSwitching
  <2>3. QED
    BY <2>1, <2>2
<1>7. QED
  BY <1>5, <1>6 DEF BusyIsSwitching

(* The end of a job: its command is decided, the others keep theirs. *)
LEMMA ConcludeKeepsWork ==
  ASSUME WorkInv, NEW n \in 1..MaxIssues, ConcludeStep(n), UNCHANGED setup
  PROVE  JobsAreIssued' /\ InFlightIsWorkedOn'
<1>1. TypeOK /\ KnownTypes
  BY DEF WorkInv, ReachInv, AccountInv, KnownTypes
<1>2. /\ n \in Running /\ jobs[n].command \in Ids
      /\ jobs' = [jobs EXCEPT ![n] = NoJob]
      /\ \A m \in Running' : m \in Running
      /\ issued' = issued
  BY <1>1, ConcludeEffect
<1>3. \A m \in Running : m # n => m \in Running' /\ jobs'[m] = jobs[m]
  BY <1>1, <1>2 DEF Running, TypeOK
<1>4. ASSUME NEW id \in Ids, commands'[id].status \in InFlightStatuses
      PROVE  /\ commands'[id].issuedAt \in Running'
             /\ jobs'[commands'[id].issuedAt].command = id
             /\ jobs'[commands'[id].issuedAt].port = commands'[id].port
  <2>1. commands'[jobs[n].command].status \in {"succeeded", "failed"}
    BY <1>1, ConcludeCommands
  <2>2. id # jobs[n].command
    BY <1>4, <2>1 DEF InFlightStatuses
  <2>3. commands'[id] = commands[id]
    BY <1>1, <2>2, ConcludeCommands
  <2>4. /\ commands[id].issuedAt \in Running /\ jobs[commands[id].issuedAt].command = id
        /\ jobs[commands[id].issuedAt].port = commands[id].port
    BY <1>4, <2>3 DEF WorkInv, InFlightIsWorkedOn, InFlight, IsInFlight
  <2>5. commands[id].issuedAt # n
    BY <2>2, <2>4
  <2>6. QED
    BY <1>3, <2>3, <2>4, <2>5
<1>5. JobsAreIssued'
  BY <1>2 DEF WorkInv, JobsAreIssued
<1>6. QED
  BY <1>4, <1>5 DEF InFlightIsWorkedOn, InFlight, IsInFlight

LEMMA ConcludeKeepsFlag ==
  ASSUME WorkInv, NEW n \in 1..MaxIssues, ConcludeStep(n), UNCHANGED setup
  PROVE  BusyIsSwitching'
<1>1. TypeOK /\ KnownTypes
  BY DEF WorkInv, ReachInv, AccountInv, KnownTypes
<1>2. /\ n \in Running
      /\ jobs' = [jobs EXCEPT ![n] = NoJob]
      /\ \A m \in Running' : m \in Running /\ m # n /\ jobs'[m] = jobs[m]
  BY <1>1, ConcludeEffect
<1>3. \A m \in Running : m # n => m \in Running' /\ jobs'[m] = jobs[m]
  BY <1>1, <1>2 DEF Running, TypeOK
<1>4. CASE SwitchDone(n)
  <2>1. busy' = FALSE /\ jobs[n].phase = "switching"
    BY <1>4 DEF SwitchDone, FreeSwitch
  <2>2. \A m \in Running' : jobs'[m].phase # "switching"
    BY <1>2, <2>1 DEF WorkInv, ReachInv, OneSwitching
  <2>3. QED
    BY <2>1, <2>2 DEF BusyIsSwitching
<1>5. CASE Settle(n) \/ Land(n) \/ PinFails(n)
  <2>1. busy' = busy /\ jobs[n].phase # "switching"
    BY <1>5 DEF Settle, Land, PinFails, Settling, Pressing
  <2>2. QED
    BY <1>2, <1>3, <2>1 DEF WorkInv, BusyIsSwitching
<1>6. QED
  BY <1>4, <1>5 DEF ConcludeStep

LEMMA PressKeepsWork ==
  ASSUME WorkInv, NEW n \in 1..MaxIssues, Press(n)
  PROVE  JobsAreIssued' /\ InFlightIsWorkedOn' /\ BusyIsSwitching'
<1>1. TypeOK
  BY DEF WorkInv, ReachInv, AccountInv, KnownTypes
<1>2. /\ n \in Running /\ Running' = Running
      /\ jobs'[n] = [jobs[n] EXCEPT !.left = @ - 1]
      /\ \A m \in 1..MaxIssues \ {n} : jobs'[m] = jobs[m]
  BY <1>1, PressEffect
<1>3. jobs[n] \in Job
  BY <1>1, <1>2, RunningIsJob
<1>4. \A m \in Running : /\ jobs'[m].phase = jobs[m].phase /\ jobs'[m].port = jobs[m].port
                         /\ jobs'[m].command = jobs[m].command
  BY <1>2, <1>3 DEF Job, Running
<1>5. UNCHANGED <<commands, busy, issued>>
  BY DEF Press
<1>6. JobsAreIssued'
  BY <1>2, <1>5 DEF WorkInv, JobsAreIssued
<1>7. BusyIsSwitching'
  BY <1>2, <1>4, <1>5 DEF WorkInv, BusyIsSwitching
<1>8. InFlightIsWorkedOn'
  BY <1>2, <1>4, <1>5 DEF WorkInv, InFlightIsWorkedOn, InFlight
<1>9. QED
  BY <1>6, <1>7, <1>8

LEMMA WorkStep ==
  ASSUME WorkInv, [Next]_vars
  PROVE  WorkInv'
<1>1. ReachInv'
  BY ReachStep DEF WorkInv
<1>2. CASE Next
  <2>1. UNCHANGED setup
    BY <1>2, NextByParts
  <2>2. ASSUME NEW p \in setup.reporters, EvidenceStep(p)
        PROVE  JobsAreIssued' /\ InFlightIsWorkedOn' /\ BusyIsSwitching'
    BY <2>2 DEF EvidenceStep, UsbReport, AgentPresence, WorkInv, JobsAreIssued,
       InFlightIsWorkedOn, InFlight, BusyIsSwitching, Running
  <2>3. QED
    BY <1>1, <1>2, <2>1, <2>2, RequestKeepsJobs, RequestIsWorkedOn, RequestKeepsFlag,
       ConcludeKeepsWork, ConcludeKeepsFlag, PressKeepsWork, NextByParts DEF WorkInv
<1>3. CASE UNCHANGED vars
  BY <1>1, <1>3 DEF vars, WorkInv, JobsAreIssued, InFlightIsWorkedOn, InFlight,
     BusyIsSwitching, Running
<1>4. QED
  BY <1>2, <1>3

(***************************************************************************)
(* Every peripheral command in flight has a job of its own that will write *)
(* its verdict: the safety half of PeripheralCommandsConclude, for every   *)
(* switch and however callers overlap or reuse ids.                        *)
(***************************************************************************)
THEOREM CommandsInFlightAreWorkedOn == Spec => []InFlightIsWorkedOn
<1>1. WorkInv => InFlightIsWorkedOn
  BY DEF WorkInv
<1>2. QED
  BY <1>1, WorkInit, WorkStep, PTL DEF Spec

(***************************************************************************)
(* The busy flag of MockPeripheralSwitchProvider is neither leaked nor     *)
(* dropped early, whichever of its callers has been superseded meanwhile.  *)
(***************************************************************************)
THEOREM BusyFlagIsExact == Spec => []BusyIsSwitching
<1>1. WorkInv => BusyIsSwitching
  BY DEF WorkInv
<1>2. QED
  BY <1>1, WorkInit, WorkStep, PTL DEF Spec
=============================================================================
