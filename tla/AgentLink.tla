----------------------------- MODULE AgentLink -----------------------------
(***************************************************************************)
(* What the rest of the controller may assume of the connection to one     *)
(* agent: while commands wait at an agent it is present, and an agent      *)
(* leaves only together with the failing of every command that waits for   *)
(* it.  CommandService is built on these steps (its variable link);        *)
(* AgentGateway is shown to take no others.                                *)
(***************************************************************************)
CONSTANTS Agents, Ids

VARIABLES
  link,    \* "up", "half" (known, but nothing can be sent) or "down"
  waits    \* waits[a]: ids of the commands in flight at agent a

LinkType == link \in [Agents -> {"up", "half", "down"}] /\ waits \in [Agents -> SUBSET Ids]

Init == link = [a \in Agents |-> "down"] /\ waits = [a \in Agents |-> {}]

(* A command is sent to an agent that can be reached; it no longer waits at another. *)
Send(a, id) ==
  /\ link[a] = "up"
  /\ waits' = [other \in Agents |-> IF other = a THEN waits[a] \cup {id} ELSE waits[other] \ {id}]
  /\ UNCHANGED link

(* A command is concluded without the agent being lost: an answer or a timeout. *)
Settle(id) ==
  /\ waits' = [a \in Agents |-> waits[a] \ {id}]
  /\ UNCHANGED link

(* A hello, over a socket that may already be closing; commands of an older socket wait on. *)
Greet(a) ==
  /\ \E state \in {"up", "half"} : link' = [link EXCEPT ![a] = state]
  /\ UNCHANGED waits

Drop(a) ==
  /\ link[a] = "up"
  /\ link' = [link EXCEPT ![a] = "half"]
  /\ UNCHANGED waits

Lose(a) ==
  /\ link[a] # "down"
  /\ link' = [link EXCEPT ![a] = "down"]
  /\ waits' = [waits EXCEPT ![a] = {}]

Next ==
  \/ \E a \in Agents : Greet(a) \/ Drop(a) \/ Lose(a) \/ \E id \in Ids : Send(a, id)
  \/ \E id \in Ids : Settle(id)

Spec == Init /\ [][Next]_<<link, waits>>
=============================================================================
