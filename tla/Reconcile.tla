----------------------------- MODULE Reconcile -----------------------------
(***************************************************************************)
(* The pure functions of packages/domain that compare what is wanted with  *)
(* what is observed (reconcile.ts) and turn a preset into intents and back *)
(* (preset.ts), for monitors.  A peripheral is resolved as a monitor is;   *)
(* the peripherals of a preset, which look up no input, are left out.      *)
(***************************************************************************)
EXTENDS Naturals, FiniteSets, Sequences

CONSTANT None

InFlightStatuses == {"pending", "dispatched", "acked"}

(* Faulty variant: a failed command is reported even where the hardware got there. *)
Resolve_BookkeepingWins(desired, observed, command) ==
  CASE command \in InFlightStatuses -> "switching"
    [] command \in {"failed", "timed-out"} -> "failed"
    [] observed = None \/ observed.reachability = "unknown" -> "unknown"
    [] observed.reachability = "unreachable" -> "unreachable"
    [] desired \in {None, observed.source} -> "in-sync"
    [] OTHER -> "drifted"

(***************************************************************************)
(* resolveMonitorState: a command's status (or None), the desired source   *)
(* and the effective observation [reachability, source], or None.          *)
(***************************************************************************)
Resolve(desired, observed, command) ==
  LET seen    == observed # None /\ observed.reachability # "unknown"
      reached == desired = None \/ desired = observed.source
  IN  IF command \in InFlightStatuses THEN "switching"
      ELSE IF ~seen THEN "unknown"
      ELSE IF observed.reachability = "unreachable" THEN "unreachable"
      ELSE IF reached THEN "in-sync"
      ELSE IF command \in {"failed", "timed-out"} THEN "failed" ELSE "drifted"

(* aggregateStatus: the most urgent of the statuses of a preset's targets. *)
Aggregate(statuses) ==
  LET Has(status) == status \in statuses
  IN  CASE Has("switching") -> "switching"
        [] Has("failed") /\ ~Has("switching") -> "failed"
        [] Has("unreachable") /\ statuses \cap {"switching", "failed"} = {} -> "unreachable"
        [] Has("drifted") /\ statuses \cap {"switching", "failed", "unreachable"} = {} -> "drifted"
        [] statuses = {"in-sync"} -> "in-sync"
        [] OTHER -> "unknown"

(* findInputForComputer: the first of the inputs (a sequence) that is wired to the computer. *)
InputFor(inputs, wiring, computer) ==
  LET wired == {n \in DOMAIN inputs : wiring[inputs[n]] = computer}
  IN  IF wired = {} THEN None
      ELSE inputs[CHOOSE n \in wired : \A other \in wired : n <= other]

(***************************************************************************)
(* captureDeskState: the source of every monitor that can be seen.         *)
(* observed is a function on the monitors; an assignment is a function on  *)
(* the monitors a preset speaks of.                                        *)
(***************************************************************************)
Capturable(observation) ==
  /\ observation # None
  /\ observation.reachability = "reachable"
  /\ observation.source # None
Capture(observed) ==
  [m \in {m \in DOMAIN observed : Capturable(observed[m])} |-> observed[m].source]
CaptureSkips(observed) ==
  {[target |-> m,
    reason |-> IF observed[m] # None /\ observed[m].reachability = "unreachable"
               THEN "unreachable" ELSE "not-observed"] :
     m \in DOMAIN observed \ DOMAIN Capture(observed)}

(***************************************************************************)
(* planPreset: monitors gives for each known monitor its inputs and their  *)
(* wiring, desired the sources to skip as already asked for (applyPreset   *)
(* passes none).  Every assignment becomes an intent or a skip.            *)
(***************************************************************************)
SkipReason(m, computer, monitors, desired) ==
  CASE m \notin DOMAIN monitors -> "monitor-unknown"
    [] m \in DOMAIN monitors /\ InputFor(monitors[m].inputs, monitors[m].wiring, computer) = None ->
         "computer-not-wired"
    [] m \in DOMAIN monitors /\ InputFor(monitors[m].inputs, monitors[m].wiring, computer) # None
         /\ m \in DOMAIN desired /\ desired[m] = computer -> "already-desired"
    [] OTHER -> None

Plan(assignment, monitors, desired) ==
  LET Reason(m) == SkipReason(m, assignment[m], monitors, desired)
  IN  [intents |-> {[target |-> m, computer |-> assignment[m],
                     input |-> InputFor(monitors[m].inputs, monitors[m].wiring, assignment[m])] :
                      m \in {m \in DOMAIN assignment : Reason(m) = None}},
       skipped |-> {[target |-> m, computer |-> assignment[m], reason |-> Reason(m)] :
                      m \in {m \in DOMAIN assignment : Reason(m) # None}}]

-----------------------------------------------------------------------------
(* What these functions promise *)

(***************************************************************************)
(* "Hardware wins over bookkeeping": a desk that is where it should be is  *)
(* in sync although its command failed, and "failed" is only said where    *)
(* the command failed and the hardware is elsewhere.                       *)
(***************************************************************************)
HardwareWins(desired, observed, command) ==
  LET status == Resolve(desired, observed, command)
      seen   == observed # None /\ observed.reachability = "reachable"
      there  == seen /\ desired \in {None, observed.source}
  IN  /\ (status = "in-sync") = (there /\ command \notin InFlightStatuses)
      /\ status = "failed" => seen /\ ~there /\ command \in {"failed", "timed-out"}
      /\ status \in {"unknown", "unreachable"} => ~seen

(* A preset is in sync exactly if all of its targets are, and urgent things are not hidden. *)
AggregateIsStrict ==
  \A statuses \in SUBSET {"unknown", "in-sync", "switching", "failed", "unreachable", "drifted"} :
    /\ (Aggregate(statuses) = "in-sync") = (statuses = {"in-sync"})
    /\ "failed" \in statuses => Aggregate(statuses) \in {"failed", "switching"}

(***************************************************************************)
(* A preset captured from what is seen, and planned on the same desk, asks *)
(* for exactly what was seen: every monitor that can be seen gets one      *)
(* intent for an input that leads to the computer it showed, the others    *)
(* are left out with a reason, and once the intents are carried out a new  *)
(* capture is the same preset.  Planning on a desk that has lost monitors  *)
(* loses no assignment: each becomes one intent or one skip.  The desk     *)
(* has two monitors with these inputs, each wired in its own way.          *)
(***************************************************************************)
Sides == {"left", "right"}

Observed(wirings, live) ==
  [m \in Sides |->
     IF live[m] = None THEN [reachability |-> "unreachable", source |-> None]
     ELSE [reachability |-> "reachable", source |-> wirings[m][live[m]]]]

PlansAreFaithful(inputs, wirings) ==
  \A live \in [Sides -> {inputs[n] : n \in DOMAIN inputs} \cup {None}],
     desired \in [{"left"} -> {wirings["left"][inputs[1]]}] :
    LET observed == Observed(wirings, live)
        preset   == Capture(observed)
        monitors == [m \in Sides |-> [inputs |-> inputs, wiring |-> wirings[m]]]
        plan     == Plan(preset, monitors, <<>>)
        after    == [m \in Sides |-> LET for == {i \in plan.intents : i.target = m}
                                     IN  IF for = {} THEN live[m] ELSE (CHOOSE i \in for : TRUE).input]
        fewer    == Plan(preset, [m \in {"left"} |-> monitors["right"]], desired)
    IN  /\ {i.target : i \in plan.intents} = DOMAIN preset
        /\ Cardinality(plan.intents) = Cardinality(DOMAIN preset)
        /\ \A i \in plan.intents : wirings[i.target][i.input] = preset[i.target]
        /\ {s.target : s \in CaptureSkips(observed)} = Sides \ DOMAIN preset
        /\ Capture(Observed(wirings, after)) = preset
        /\ {i.target : i \in fewer.intents} \cup {s.target : s \in fewer.skipped} = DOMAIN preset
        /\ Cardinality(fewer.intents) + Cardinality(fewer.skipped) = Cardinality(DOMAIN preset)
        /\ \A i \in fewer.intents : i.input # None /\ i.computer # desired["left"]
=============================================================================
