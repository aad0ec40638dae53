--------------------------- MODULE RequestLedger ---------------------------
(***************************************************************************)
(* What the bridge promises of requests, whatever happens to the process   *)
(* behind it: each is settled at most once, and is answered only with      *)
(* what was performed for it.                                              *)
(***************************************************************************)
CONSTANT Requests

VARIABLES
  settled,    \* settled[r]: "not", "answered" or "failed"
  performed   \* requests the helper has carried out

Init == settled = [r \in Requests |-> "not"] /\ performed = {}

Perform(r) == r \notin performed /\ performed' = performed \cup {r} /\ UNCHANGED settled

Answer(r) ==
  /\ settled[r] = "not" /\ r \in performed
  /\ settled' = [settled EXCEPT ![r] = "answered"]
  /\ UNCHANGED performed

(* The end of a process fails several at once; a failed one may still be carried out. *)
Fail(some) ==
  /\ \A r \in some : settled[r] = "not"
  /\ settled' = [r \in Requests |-> IF r \in some THEN "failed" ELSE settled[r]]
  /\ UNCHANGED performed

Next ==
  \/ \E r \in Requests : Perform(r) \/ Answer(r)
  \/ \E some \in SUBSET Requests : Fail(some)

Spec == Init /\ [][Next]_<<settled, performed>>
=============================================================================
