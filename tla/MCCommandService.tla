-------------------------- MODULE MCCommandService --------------------------
(* Instances of CommandService small enough for TLC. *)
EXTENDS CommandService, TLC

CONSTANTS m1, i1, i2, lo, a1, a2, c1, c2, c3

(* Agent a1 only drives the panel while its own input is live, a2 always. *)
SharedPaths ==
  m1 :> <<[agent |-> a1, input |-> i1, needsActive |-> TRUE],
          [agent |-> a2, input |-> i2, needsActive |-> FALSE]>>

(* Agent a1 is of a version that claims only input switches. *)
ClaimLegacy == (a1 :> {"input"}) @@ (a2 :> Kinds)

(* One id that callers use for any target, and one of its own for each target. *)
OneForAll ==
  (c1 :> Targets) @@ (c2 :> {<<m1, "input">>}) @@ (c3 :> {<<m1, "brightness">>})
=============================================================================
