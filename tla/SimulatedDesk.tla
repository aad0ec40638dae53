---------------------------- MODULE SimulatedDesk ----------------------------
(***************************************************************************)
(* packages/hardware/src/mock/simulated-desk.ts and the provider in front  *)
(* of it (mock-monitor-control-provider.ts): one panel that several        *)
(* computers are cabled to.  An input switch takes time; meanwhile other   *)
(* switches are asked for and faults are injected.                         *)
(***************************************************************************)
EXTENDS Naturals, FiniteSets

CONSTANTS
  Computers,  \* the computers with a cable and an agent
  Inputs,
  Cable,      \* computer -> the input it is plugged into
  Ids,        \* command ids
  None

ASSUME DeskAssumption ==
  /\ Cable \in [Computers -> Inputs]
  /\ None \notin Inputs \cup Computers \cup {"ok", "failed", "unreachable"}

VARIABLES
  requiresActiveInput,  \* of the panel's specification, chosen once
  activeInput,
  switchingTo,          \* switchingToInputId
  fault,                \* the injected fault, or None
  jobs,                 \* switches that wait for the panel's delay
  completed,            \* completedCommands: id -> its outcome, or None
  moved                 \* history: how often each id moved the panel

desk == <<requiresActiveInput, activeInput, switchingTo, fault, jobs, completed, moved>>

Faults == {"fail", "unreachable", "timeout"}
DeskJob == [id : Ids, input : Inputs, by : Computers, stuck : BOOLEAN]

DeskType ==
  /\ requiresActiveInput \in BOOLEAN
  /\ activeInput \in Inputs
  /\ switchingTo \in Inputs \cup {None}
  /\ fault \in Faults \cup {None}
  /\ jobs \subseteq DeskJob
  /\ completed \in [Ids -> {None, "ok", "failed"}]
  /\ moved \in [Ids -> 0..2]

(* Of a panel of some specification. *)
DeskInit ==
  /\ switchingTo = None
  /\ fault = None
  /\ jobs = {}
  /\ completed = [id \in Ids |-> None]
  /\ moved = [id \in Ids |-> 0]

(* Whether a computer can talk DDC to the panel, and what it then reads. *)
CanControl(c) ==
  /\ fault # "unreachable"
  /\ requiresActiveInput => activeInput = Cable[c] /\ switchingTo = None
Reading(c) == IF CanControl(c) THEN activeInput ELSE None

(* What switchInput answers at once, or None when the panel starts to move. *)
Verdict(id, i) ==
  CASE completed[id] # None -> completed[id]
    [] completed[id] = None /\ switchingTo # None -> "failed"
    [] completed[id] = None /\ switchingTo = None /\ fault \in {"unreachable", "fail"} -> "failed"
    [] OTHER -> IF activeInput = i THEN "ok" ELSE None

(* finish: every outcome is remembered, except that the panel was busy. *)
Finished(id, outcome) ==
  IF completed[id] = None /\ switchingTo = None THEN [completed EXCEPT ![id] = outcome] ELSE completed

(* switchInput, up to its answer or its delay; the provider has checked CanControl. *)
SwitchInput(c, id, i) ==
  LET outcome == Verdict(id, i)
  IN  /\ IF outcome = None
         THEN /\ switchingTo' = i
              /\ jobs' = jobs \cup {[id |-> id, input |-> i, by |-> c, stuck |-> fault = "timeout"]}
              /\ UNCHANGED completed
         ELSE /\ completed' = Finished(id, outcome)
              /\ UNCHANGED <<switchingTo, jobs>>
      /\ UNCHANGED <<requiresActiveInput, activeInput, fault, moved>>

(* Faulty variant: a switch that was done is not remembered. *)
Remembered_FailuresOnly(job) ==
  IF job.stuck THEN [completed EXCEPT ![job.id] = "failed"] ELSE completed
Remembered(job) == [completed EXCEPT ![job.id] = IF job.stuck THEN "failed" ELSE "ok"]

(* The delay has passed: the panel has moved, or has timed out where it was. *)
EndSwitch(job) ==
  /\ job \in jobs
  /\ jobs' = jobs \ {job}
  /\ switchingTo' = None
  /\ completed' = Remembered(job)
  /\ IF job.stuck THEN UNCHANGED <<activeInput, moved>>
     ELSE /\ activeInput' = job.input
          /\ moved' = [moved EXCEPT ![job.id] = @ + 1]
  /\ UNCHANGED <<requiresActiveInput, fault>>

InjectFault(f) ==
  /\ fault' = f
  /\ UNCHANGED <<requiresActiveInput, activeInput, switchingTo, jobs, completed, moved>>

(* Somebody picks an input with the panel's own buttons. *)
PressButton(i) ==
  /\ switchingTo = None
  /\ activeInput' = i
  /\ UNCHANGED <<requiresActiveInput, switchingTo, fault, jobs, completed, moved>>

-----------------------------------------------------------------------------
(***************************************************************************)
(* One switch at a time moves the panel, and an id moves it once, however  *)
(* often and by whichever agent it is delivered, also if the fault changes *)
(* during the delay or the panel is asked for something else meanwhile.    *)
(***************************************************************************)
MovedOnce ==
  /\ \A id \in Ids : moved[id] <= 1
  /\ Cardinality(jobs) <= 1
  /\ (switchingTo = None) = (jobs = {})
=============================================================================
