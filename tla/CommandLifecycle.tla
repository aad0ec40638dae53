-------------------------- MODULE CommandLifecycle --------------------------
(***************************************************************************)
(* What the controller promises about a command, whoever carries it out:   *)
(* the life the repository documents for it (docs/protocol.md, "Command    *)
(* lifecycle").  A command is issued, may be acknowledged, and is          *)
(* concluded once; issuing a command retires the one in flight for the     *)
(* same target; the store may forget a command.  Nothing here says which   *)
(* agent, timer or frame is behind a step.  CommandService is compared     *)
(* with this specification.                                                *)
(***************************************************************************)
EXTENDS DeskCommand

CONSTANTS Ids,       \* command ids
          Targets,   \* target keys: what two commands can compete for
          NoTarget   \* the target of a slot that holds no command

VARIABLE life        \* life[id]: the status and the target of command id

Nothing == [status |-> Unknown, target |-> NoTarget]

LifeType == [Ids -> [status : Statuses \cup {Unknown}, target : Targets \cup {NoTarget}]]

Init == life = [id \in Ids |-> Nothing]

Active(id) == IsInFlight(life[id].status)

(* What becomes of the other commands when one is issued for target t. *)
Retired(id, t) ==
  IF Active(id) /\ life[id].target = t
  THEN [life[id] EXCEPT !.status = "superseded"]
  ELSE life[id]

(***************************************************************************)
(* A caller issues id for target t.  The dispatch is part of the same      *)
(* step, so the command may already be under way, or already have failed.  *)
(***************************************************************************)
Issue(id, t) ==
  /\ life' \in LifeType
  /\ life'[id].status \in {"pending", "dispatched", "failed"}
  /\ life'[id].target = t
  /\ \A other \in Ids \ {id} : life'[other] \in {Retired(other, t), Nothing}

Dispatch(id) ==
  /\ life[id].status = "pending"
  /\ life' = [life EXCEPT ![id].status = "dispatched"]

Acknowledge(id) ==
  /\ Active(id)
  /\ life' = [life EXCEPT ![id].status = "acked"]

(* Commands that were in flight reach a verdict; losing an agent concludes several at once. *)
Conclude(ids) ==
  /\ \A id \in ids : Active(id)
  /\ \E verdict \in {"succeeded", "failed", "timed-out"} :
       life' = [id \in Ids |->
                  IF id \in ids THEN [life[id] EXCEPT !.status = verdict] ELSE life[id]]

Next ==
  \/ \E id \in Ids, t \in Targets : Issue(id, t)
  \/ \E id \in Ids : Dispatch(id) \/ Acknowledge(id)
  \/ \E ids \in SUBSET Ids : Conclude(ids)

Spec == Init /\ [][Next]_life
=============================================================================
