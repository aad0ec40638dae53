---------------------------- MODULE DeskCommand ----------------------------
(***************************************************************************)
(* The vocabulary of packages/domain/src/command.ts: the statuses a        *)
(* command record goes through, and which of them mean that an answer is   *)
(* still expected.                                                         *)
(***************************************************************************)

InFlightStatuses == {"pending", "dispatched", "acked"}
TerminalStatuses == {"succeeded", "failed", "timed-out", "superseded"}
Statuses == InFlightStatuses \cup TerminalStatuses

(***************************************************************************)
(* A slot of the command store that holds no command.  "unknown" is not a  *)
(* status of the program: it stands for a Map lookup that finds nothing.   *)
(***************************************************************************)
Unknown == "unknown"

IsInFlight(status) == status \in InFlightStatuses
IsTerminal(status) == status \in TerminalStatuses
=============================================================================
