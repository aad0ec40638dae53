------------------------ MODULE MCPeripheralCommands ------------------------
(* Instances of PeripheralCommands small enough for TLC. *)
EXTENDS PeripheralCommands

CONSTANTS c1, c2, c3

Simulated(ids, fresh) ==
  [mode |-> "simulated", wired |-> {}, reporters |-> {1}, ids |-> ids, overlap |-> TRUE,
   fresh |-> fresh, misses |-> FALSE, issues |-> 3]

(* A simulated switch whose callers overlap, with fresh ids or two that are used again. *)
SimulatedSetups == {Simulated({c1, c2, c3}, TRUE), Simulated({c1, c2}, FALSE)}

(* A remote with one button, and evidence of every computer. *)
Cycle ==
  [mode |-> "cycle", wired |-> {0}, reporters |-> Ports, ids |-> {c1, c2}, overlap |-> FALSE,
   fresh |-> TRUE, misses |-> FALSE, issues |-> 2]

(* A button per port, but one without a pin; presses miss, callers overlap and reuse ids. *)
Direct ==
  [mode |-> "direct", wired |-> {0, 1}, reporters |-> {1}, ids |-> {c1, c2}, overlap |-> TRUE,
   fresh |-> FALSE, misses |-> TRUE, issues |-> 2]

AllSetups == SimulatedSetups \cup {Cycle, Direct}
=============================================================================
