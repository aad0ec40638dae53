---------------------------- MODULE DeskViewers -----------------------------
(***************************************************************************)
(* Pages that show the desk: snapshot.ts, the stream of server.ts with its *)
(* coalesced broadcasts, and subscribeToDesk of apps/web/src/lib/api.ts,   *)
(* which paints once from HTTP and then from a socket it reopens.  What is *)
(* shown is edited, lost and loaded by DeskConfig.                         *)
(***************************************************************************)
EXTENDS DeskConfig

CONSTANTS
  Viewers,     \* the pages there may be
  Watchings,   \* the sets of pages looked at
  Reports,     \* the monitors an agent may report, in order
  MaxEvents,   \* bound: edits, failures, crashes and losses together, for each of Watchings
  MaxFrames,   \* bound: frames under way to a page
  Asked,
  Done

ASSUME ViewersAssumption ==
  /\ Reports \subseteq Seq(Monitors) /\ MaxFrames \in Nat
  /\ \A some \in Watchings : MaxEvents[some] \in Nat

VARIABLES
  pages,       \* the pages that are open, chosen once
  broadcast,   \* broadcastTimer is set
  socket,      \* page -> "connecting", "open", "ending" or "waiting"
  wire,        \* page -> snapshots under way
  first,       \* page -> the answer to the first HTTP read, or what became of it
  live,        \* receivedLive
  shown,       \* the snapshot a page shows, or None
  events

viewVars == <<pages, broadcast, socket, wire, first, live, shown>>
vars == <<configVars, viewVars, events>>

(* buildSnapshot, of what this module speaks about. *)
Snapshot ==
  [presets |-> cfg.presets, placed |-> cfg.placed, columns |-> cfg.columns, names |-> names,
   active |-> active]

TypeOK ==
  /\ ConfigTypeOK
  /\ pages \in Watchings
  /\ broadcast \in BOOLEAN
  /\ socket \in [pages -> {"connecting", "open", "ending", "waiting"}]
  /\ live \in [pages -> BOOLEAN]
  /\ \A v \in pages : /\ Len(wire[v]) <= MaxFrames + 1
                    /\ socket[v] \in {"connecting", "waiting"} => wire[v] = <<>>
  /\ \A v \in pages : socket[v] = "open" => Serving
  /\ events \in 0..MaxEvents[pages]

Init ==
  /\ ConfigInit
  /\ pages \in Watchings
  /\ broadcast = FALSE
  /\ socket = [v \in pages |-> "connecting"]
  /\ wire = [v \in pages |-> <<>>]
  /\ first = [v \in pages |-> Asked]
  /\ live = [v \in pages |-> FALSE]
  /\ shown = [v \in pages |-> None]
  /\ events = 0

Happens == events < MaxEvents[pages] /\ events' = events + 1

(***************************************************************************)
(* touch: bursts of changes end in one broadcast, which is not followed    *)
(* when there is no page to tell; a server that closes does not listen.    *)
(***************************************************************************)
Touch ==
  /\ broadcast' = (broadcast \/ (proc = "up" /\ pages # {}))
  /\ UNCHANGED <<pages, socket, wire, first, live, shown>>

(* close of the server begins: it tells pages nothing more. *)
Deaf ==
  /\ broadcast' = FALSE
  /\ UNCHANGED <<pages, socket, wire, first, live, shown>>

(* The server is gone, and with it the frames it has not sent. *)
Gone ==
  /\ broadcast' = FALSE
  /\ socket' = [v \in pages |-> IF socket[v] = "open" THEN "ending" ELSE socket[v]]
  /\ UNCHANGED <<pages, wire, first, live, shown>>

-----------------------------------------------------------------------------
(* The stream *)

BroadcastNow ==
  /\ broadcast
  /\ \A v \in pages : Len(wire[v]) < MaxFrames
  /\ broadcast' = FALSE
  /\ wire' = [v \in pages |-> IF socket[v] = "open" THEN Append(wire[v], Snapshot) ELSE wire[v]]
  /\ UNCHANGED <<configVars, pages, socket, first, live, shown, events>>

(* A page connects and gets a snapshot, or fails while nobody listens. *)
Connect(v) ==
  /\ socket[v] = "connecting"
  /\ IF Serving
     THEN /\ socket' = [socket EXCEPT ![v] = "open"]
          /\ wire' = [wire EXCEPT ![v] = <<Snapshot>>]
     ELSE /\ socket' = [socket EXCEPT ![v] = "waiting"]
          /\ UNCHANGED wire
  /\ UNCHANGED <<configVars, pages, broadcast, first, live, shown, events>>

(* The connection is lost. *)
Drop(v) ==
  /\ Happens
  /\ socket[v] = "open"
  /\ socket' = [socket EXCEPT ![v] = "ending"]
  /\ UNCHANGED <<configVars, pages, broadcast, wire, first, live, shown>>

-----------------------------------------------------------------------------
(* A page *)

OnMessage(v) ==
  /\ wire[v] # <<>>
  /\ shown' = [shown EXCEPT ![v] = Head(wire[v])]
  /\ live' = [live EXCEPT ![v] = TRUE]
  /\ wire' = [wire EXCEPT ![v] = Tail(@)]
  /\ UNCHANGED <<configVars, pages, broadcast, socket, first, events>>

(* onclose: what was still under way is lost, and another try is due. *)
OnClose(v) ==
  /\ socket[v] = "ending"
  /\ socket' = [socket EXCEPT ![v] = "waiting"]
  /\ wire' = [wire EXCEPT ![v] = <<>>]
  /\ UNCHANGED <<configVars, pages, broadcast, first, live, shown, events>>

Retry(v) ==
  /\ socket[v] = "waiting"
  /\ socket' = [socket EXCEPT ![v] = "connecting"]
  /\ UNCHANGED <<configVars, pages, broadcast, wire, first, live, shown, events>>

(* The first HTTP read is answered, or fails while nobody listens. *)
Answer(v) ==
  /\ first[v] = Asked
  /\ first' = [first EXCEPT ![v] = IF Serving THEN Snapshot ELSE Done]
  /\ UNCHANGED <<configVars, pages, broadcast, socket, wire, live, shown, events>>

(* Faulty variant: the answer is painted over what the stream has brought. *)
Paint_Always(v) == [shown EXCEPT ![v] = first[v]]
Paint(v) == IF live[v] THEN shown ELSE [shown EXCEPT ![v] = first[v]]

FirstPaint(v) ==
  /\ first[v] \notin {Asked, Done}
  /\ shown' = Paint(v)
  /\ first' = [first EXCEPT ![v] = Done]
  /\ UNCHANGED <<configVars, pages, broadcast, socket, wire, live, events>>

-----------------------------------------------------------------------------
(* Edits of the user and reports of agents, which touch the store *)
Change ==
  \/ \E n \in Names : CreatePreset(n)
  \/ \E id \in PresetIds : \/ \E assigned \in BOOLEAN : UpdatePreset(id, assigned)
                           \/ DeletePreset(id)
                           \/ ApplyPreset(id)
  \/ \E e \in Entities, patch \in Patches : SetOverride(e, patch)
  \/ \E m \in Monitors, x \in Spots : SetPlacement(m, x)
  \/ \E c \in Declared : DeclareComputer(c)
  \/ \E wiring \in Wirings : SetWiringOverride(wiring[1], wiring[2])
  \/ \E reports \in Reports : Inventory(reports) \/ \E c \in Computers : Register(c, reports)

Quietly(step) == step /\ UNCHANGED <<viewVars, events>>

Next ==
  \/ Happens /\ Change /\ Touch
  \/ \E n \in SaveSlots :
       Happens /\ SaveFails(n) /\ (IF n = 0 THEN Gone ELSE UNCHANGED viewVars)
  \/ Happens /\ Crash /\ Gone
  \/ Happens /\ Shutdown /\ Deaf
  \/ Close /\ Gone /\ UNCHANGED events
  \/ Quietly(Start) \/ Quietly(Debounce)
  \/ \E n \in SaveSlots : Quietly(WriteTemporary(n)) \/ Quietly(Rename(n))
  \/ BroadcastNow
  \/ \E v \in pages : Connect(v) \/ Drop(v) \/ OnMessage(v) \/ OnClose(v) \/ Retry(v)
                      \/ Answer(v) \/ FirstPaint(v)

Spec == Init /\ [][Next]_vars

(***************************************************************************)
(* Timers fire, the disk and the network get on, pages try again; nothing  *)
(* is asked of users, and a controller that is not running may stay so.    *)
(***************************************************************************)
FairSpec ==
  /\ Spec
  /\ WF_vars(Quietly(Debounce))
  /\ \A n \in SaveSlots : WF_vars(Running /\ Quietly(WriteTemporary(n) \/ Rename(n)))
  /\ WF_vars(BroadcastNow)
  /\ \A v \in Viewers :
       WF_vars(v \in pages /\ (Connect(v) \/ OnMessage(v) \/ OnClose(v) \/ Retry(v)
                               \/ Answer(v) \/ FirstPaint(v)))

-----------------------------------------------------------------------------
(* Properties *)

(***************************************************************************)
(* Once the controller stays up every page comes to show the desk as it    *)
(* is, and goes on to: after lost connections, restarts whose revisions    *)
(* begin anew, bursts of changes and a first paint that comes late.        *)
(***************************************************************************)
ViewersCatchUp ==
  \A v \in Viewers :
    (<>[](proc = "up" /\ v \in pages)) => <>[](v \in pages /\ shown[v] = Snapshot)
=============================================================================
