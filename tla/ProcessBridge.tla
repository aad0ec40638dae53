--------------------------- MODULE ProcessBridge ---------------------------
(***************************************************************************)
(* packages/hardware/src/ddc/process-bridge.ts: requests to a helper       *)
(* process that starts on demand, may fail to start, hang or die, and      *)
(* answers line by line; and the main loop of the helpers (the PowerShell  *)
(* script for Windows, the C program for macOS).                           *)
(***************************************************************************)
EXTENDS Naturals, Sequences, FiniteSets, Functions

CONSTANTS
  Requests,     \* requests, each made once; its id is fresh
  MaxHelpers    \* bound: processes started

ASSUME BridgeAssumption ==
  /\ MaxHelpers \in Nat \ {0}
  /\ IsFiniteSet(Requests) /\ Requests \cap {"ready", "torn"} = {}

VARIABLES
  phase,      \* of each request: "idle", "waiting" for a start, "pending", "answered", "failed"
  sentTo,     \* the process each request was written to, or 0
  starting,   \* the start under way: "no", "resolving" the command, or "readying"
  child,      \* the process the bridge holds, or 0
  disposed,
  buffer,     \* output received without a newline: "empty" or "torn"
  helpers,    \* process -> "none", "booting", "serving", "failed", "dead" or "exited"
  stdin,      \* process -> requests not read yet
  stdout,     \* process -> lines under way to the bridge
  performed   \* requests the helpers have carried out

bridge == <<phase, sentTo, starting, child, disposed, buffer>>
processes == <<helpers, stdin, stdout, performed>>
vars == <<bridge, processes>>

Helpers == 1..MaxHelpers
Lines == Requests \cup {"ready", "torn"}

TypeOK ==
  /\ phase \in [Requests -> {"idle", "waiting", "pending", "answered", "failed"}]
  /\ sentTo \in [Requests -> {0} \cup Helpers]
  /\ starting \in {"no", "resolving", "readying"}
  /\ child \in {0} \cup Helpers
  /\ disposed \in BOOLEAN
  /\ buffer \in {"empty", "torn"}
  /\ helpers \in [Helpers -> {"none", "booting", "serving", "failed", "dead", "exited"}]
  /\ stdin \in [Helpers -> Seq(Requests)]
  /\ stdout \in [Helpers -> Seq(Lines)]
  /\ performed \subseteq Requests

Init ==
  /\ phase = [r \in Requests |-> "idle"]
  /\ sentTo = [r \in Requests |-> 0]
  /\ starting = "no"
  /\ child = 0
  /\ disposed = FALSE
  /\ buffer = "empty"
  /\ helpers = [h \in Helpers |-> "none"]
  /\ stdin = [h \in Helpers |-> <<>>]
  /\ stdout = [h \in Helpers |-> <<>>]
  /\ performed = {}

Alive == {h \in Helpers : helpers[h] \in {"booting", "serving"}}
Unused == {h \in Helpers : helpers[h] = "none"}
Waiting == {r \in Requests : phase[r] = "waiting"}
Pending == {r \in Requests : phase[r] = "pending"}

Failed(some) == phase' = [r \in Requests |-> IF r \in some THEN "failed" ELSE phase[r]]

(* Faulty variant: requests written together reach the process as one line. *)
Written_AsOne(h, line) == IF h \in Alive THEN [stdin EXCEPT ![h] = Append(@, line)] ELSE stdin
(* request, once the bridge holds a process: ids and lines for them all, in order. *)
Written(h, line) == IF h \in Alive THEN [stdin EXCEPT ![h] = @ \o line] ELSE stdin

-----------------------------------------------------------------------------
(* Requests and starts *)

SendAtOnce(r) ==
  /\ phase' = [phase EXCEPT ![r] = "pending"]
  /\ sentTo' = [sentTo EXCEPT ![r] = child]
  /\ stdin' = Written(child, <<r>>)
  /\ UNCHANGED starting

(* ensureStarted without a process: the start under way is shared, or one begins. *)
AwaitStart(r) ==
  /\ phase' = [phase EXCEPT ![r] = "waiting"]
  /\ starting' = IF starting = "no" THEN "resolving" ELSE starting
  /\ UNCHANGED <<sentTo, stdin>>

Request(r) ==
  /\ phase[r] = "idle"
  /\ IF disposed
     THEN Failed({r}) /\ UNCHANGED <<sentTo, stdin, starting>>
     ELSE IF child # 0 THEN SendAtOnce(r) ELSE AwaitStart(r)
  /\ UNCHANGED <<child, disposed, buffer, helpers, stdout, performed>>

(* start after resolveCommand: it does not look at disposed again. *)
Spawn ==
  /\ starting = "resolving"
  /\ \E h \in Unused :
       /\ \A other \in Unused : h <= other
       /\ child' = h
       /\ helpers' = [helpers EXCEPT ![h] = "booting"]
  /\ starting' = "readying"
  /\ UNCHANGED <<phase, sentTo, disposed, buffer, stdin, stdout, performed>>

(* Faulty variant: the start ends without a word to the requests that wait for it. *)
StartFails_Silently == starting' = "no" /\ UNCHANGED phase
StartFails == starting' = "no" /\ Failed(Waiting)

ResolveCommandFails ==
  /\ starting = "resolving"
  /\ StartFails
  /\ UNCHANGED <<sentTo, child, disposed, buffer, processes>>

(* The error event of a process that could not be started; no exit event follows. *)
SpawnError(h) ==
  /\ helpers[h] = "booting" /\ stdout[h] = <<>>
  /\ helpers' = [helpers EXCEPT ![h] = "failed"]
  /\ IF starting = "readying"
     THEN StartFails
     ELSE UNCHANGED <<starting, phase>>
  /\ UNCHANGED <<sentTo, child, disposed, buffer, stdin, stdout, performed>>

(* Faulty variant: the slow process is forgotten, though it goes on. *)
StartupTimeout_Forgets ==
  /\ starting = "readying"
  /\ StartFails
  /\ child' = 0
  /\ UNCHANGED <<sentTo, disposed, buffer, processes>>
(* The startup timer rejects the start; the process is kept. *)
StartupTimeout ==
  /\ starting = "readying"
  /\ StartFails
  /\ UNCHANGED <<sentTo, child, disposed, buffer, processes>>

-----------------------------------------------------------------------------
(* Lines of the helper *)

(* The start resolves and the requests that waited for it go on, unless dispose came between. *)
Ready ==
  IF starting = "readying"
  THEN /\ starting' = "no"
       /\ IF child = 0
          THEN Failed(Waiting) /\ UNCHANGED <<sentTo, stdin>>
          ELSE /\ phase' = [r \in Requests |-> IF r \in Waiting THEN "pending" ELSE phase[r]]
               /\ sentTo' = [r \in Requests |-> IF r \in Waiting THEN child ELSE sentTo[r]]
               /\ \E order \in Bijection(1..Cardinality(Waiting), Waiting) :
                    stdin' = Written(child, order)
  ELSE UNCHANGED <<starting, phase, sentTo, stdin>>

(* Faulty variant: a reply settles the oldest request that is pending. *)
Answer_Oldest(r) ==
  /\ phase' = [other \in Requests |->
                 IF other = CHOOSE some \in Requests : Pending = {} \/ some \in Pending
                 THEN IF Pending = {} THEN phase[other] ELSE "answered" ELSE phase[other]]
(* onLine: a reply finds its request by id, or is ignored. *)
Answer(r) ==
  phase' = IF r \in Pending THEN [phase EXCEPT ![r] = "answered"] ELSE phase

(***************************************************************************)
(* onData and onLine take one line.  What is left in the buffer of a       *)
(* process that died is put before it; the line is then not JSON.          *)
(***************************************************************************)
TakeLine(h) ==
  LET line == Head(stdout[h])
  IN  /\ stdout[h] # <<>>
      /\ stdout' = [stdout EXCEPT ![h] = Tail(@)]
      /\ buffer' = IF line = "torn" THEN "torn" ELSE "empty"
      /\ IF line = "torn" \/ buffer = "torn"
         THEN UNCHANGED <<starting, phase, sentTo, stdin>>
         ELSE IF line = "ready" THEN Ready
         ELSE Answer(line) /\ UNCHANGED <<starting, sentTo, stdin>>
      /\ UNCHANGED <<child, disposed, helpers, performed>>

Timeout(r) ==
  /\ r \in Pending
  /\ Failed({r})
  /\ UNCHANGED <<sentTo, starting, child, disposed, buffer, processes>>

(* The callback of stdin.write reports that nobody reads. *)
WriteFails(r) ==
  /\ r \in Pending
  /\ helpers[sentTo[r]] \in {"failed", "dead"}
  /\ Failed({r})
  /\ UNCHANGED <<sentTo, starting, child, disposed, buffer, processes>>

(* What the exit event rejects: all that is pending, and a start under way. *)
ExitFails == Pending \cup IF starting = "readying" THEN Waiting ELSE {}

Exit(h) ==
  /\ helpers[h] = "dead"
  /\ helpers' = [helpers EXCEPT ![h] = "exited"]
  /\ child' = 0
  /\ Failed(ExitFails)
  /\ starting' = IF starting = "readying" THEN "no" ELSE starting
  /\ UNCHANGED <<sentTo, disposed, buffer, stdin, stdout, performed>>

Dispose ==
  /\ ~disposed
  /\ disposed' = TRUE
  /\ child' = 0
  /\ UNCHANGED <<phase, sentTo, starting, buffer, processes>>

-----------------------------------------------------------------------------
(* The helper *)

HelperReady(h) ==
  /\ helpers[h] = "booting"
  /\ helpers' = [helpers EXCEPT ![h] = "serving"]
  /\ stdout' = [stdout EXCEPT ![h] = Append(@, "ready")]
  /\ UNCHANGED <<bridge, stdin, performed>>

(* One turn of the loop: a request is carried out, and answered with its result or its error. *)
HelperServes(h) ==
  /\ helpers[h] = "serving"
  /\ stdin[h] # <<>>
  /\ stdin' = [stdin EXCEPT ![h] = Tail(@)]
  /\ stdout' = [stdout EXCEPT ![h] = Append(@, Head(stdin[h]))]
  /\ performed' = performed \cup {Head(stdin[h])}
  /\ UNCHANGED <<bridge, helpers>>

(* The process ends, by itself or killed; its last line may be cut off. *)
HelperDies(h) ==
  /\ h \in Alive
  /\ helpers' = [helpers EXCEPT ![h] = "dead"]
  /\ stdin' = [stdin EXCEPT ![h] = <<>>]
  /\ \/ UNCHANGED stdout
     \/ stdout' = [stdout EXCEPT ![h] = Append(@, "torn")]
  /\ UNCHANGED <<bridge, performed>>

-----------------------------------------------------------------------------
Next ==
  \/ \E r \in Requests : Request(r) \/ Timeout(r) \/ WriteFails(r)
  \/ Spawn \/ ResolveCommandFails \/ StartupTimeout \/ Dispose
  \/ \E h \in Helpers : SpawnError(h) \/ TakeLine(h) \/ Exit(h) \/ HelperReady(h) \/ HelperServes(h)
                        \/ HelperDies(h)

Spec == Init /\ [][Next]_vars

(* Timers fire, and resolveCommand ends; nothing is assumed of the helper. *)
FairSpec ==
  /\ Spec
  /\ WF_vars(StartupTimeout)
  /\ WF_vars(Spawn \/ ResolveCommandFails)
  /\ \A r \in Requests : WF_vars(Timeout(r))

-----------------------------------------------------------------------------
(***************************************************************************)
(* The bridge implements the ledger: however starts, timeouts, late        *)
(* replies, exits and dispose meet, a request is settled once, and         *)
(* answered only with what was performed for it.                           *)
(***************************************************************************)
Ledger == INSTANCE RequestLedger WITH
  settled <- [r \in Requests |-> IF phase[r] \in {"answered", "failed"} THEN phase[r] ELSE "not"]

KeepsLedger == Ledger!Spec

(***************************************************************************)
(* There is never a second helper on the bus: not for requests made while  *)
(* a start is under way, after a start that took too long, or when an exit *)
(* is heard late.                                                          *)
(***************************************************************************)
OneHelper == Cardinality(Alive) <= 1

(* Every request is settled, whatever the helper does or fails to do. *)
RequestsConclude == \A r \in Requests : (phase[r] # "idle") ~> (phase[r] \in {"answered", "failed"})

(***************************************************************************)
(* process-bridge.ts: "If it dies ... the next request brings up a fresh   *)
(* one rather than failing forever": a process that could not be started   *)
(* is not held as if it were there.                                        *)
(***************************************************************************)
RestartsOnDemand == child # 0 => helpers[child] # "failed"
=============================================================================
