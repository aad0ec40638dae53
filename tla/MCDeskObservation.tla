-------------------------- MODULE MCDeskObservation --------------------------
(* Instances of DeskObservation for TLC: two computers on one panel, and one without an agent. *)
EXTENDS DeskObservation

CONSTANTS pc, mac, console, dp, hdmi

TwoPorts == <<dp, hdmi>>
OwnCables == [c \in {pc, mac} |-> IF c = pc THEN dp ELSE hdmi]

(* A panel that answers on its active input, simulated and over DDC, and one that answers on any. *)
Desks == [requiresActiveInput : {TRUE}, infers : BOOLEAN, activeInput : {dp}] \cup
         [requiresActiveInput : {FALSE}, infers : {TRUE}, activeInput : {dp}]

(* A panel that only answers on its active input, with DDC providers. *)
RealDesk == [requiresActiveInput : {TRUE}, infers : {TRUE}, activeInput : {dp}]
=============================================================================
