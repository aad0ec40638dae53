---------------------------- MODULE DdcProvider ----------------------------
(***************************************************************************)
(* packages/hardware/src/ddc/ddc-provider.ts over a bridge to one display: *)
(* discoveries, observations and commands are async calls that interleave  *)
(* at every request to the bridge.  On Windows the helper answers a        *)
(* request as a whole; on macOS (platform/macos/macos-bridge.ts) a         *)
(* transaction is a write, a pause and a read, and the halves of different *)
(* calls interleave on the display's bus.                                  *)
(***************************************************************************)
EXTENDS DdcCodec, FiniteSets

CONSTANTS
  Observers,        \* bound: observations under way at the same time
  Callers,          \* bound: commands and inventories under way at the same time
  Ids,              \* command ids; callers may use one again
  Inputs, Ours,     \* the display's inputs, and the one our cable is plugged into
  Levels,           \* brightness values
  Wanted,           \* the goals commands are given for
  ExtraReadEvery,   \* brightness and power are read on one sweep in so many
  MaxIssues,        \* bound: commands given and inventories asked for
  MaxTouches,       \* bound: changes nobody asked the provider for
  Setups, None

(***************************************************************************)
(* whole: the bridge answers requests as a whole.  away: the display       *)
(* answers on every input.  flaky: the helper may fail a request, carried  *)
(* out or not.  says is the display's capabilities string as words, each a *)
(* sequence of characters, model and lists what it means by it.            *)
(***************************************************************************)
Switches == [whole : BOOLEAN, away : BOOLEAN, flaky : BOOLEAN]

VARIABLES
  setup,      \* chosen once
  panel,      \* the display
  replyTo,    \* macOS: the code the display has an answer ready for, or None
  known,      \* the KnownMonitor of the display, or None while known is empty
  extras,     \* refreshExtrasNext
  sweeps,     \* observeCount
  calls,      \* the calls under way
  completed,  \* completedCommands: ids whose success is cached
  issued, touches

Calls == Observers \cup Callers

vars == <<setup, panel, replyTo, known, extras, sweeps, calls, completed, issued, touches>>

Powers == {"on", "standby", "off"}
Panel == [plugged : BOOLEAN, input : Inputs, heading : Inputs, level : Levels, power : Powers]
Known == [able : BOOLEAN, level : Levels \cup {None}, power : Powers \cup {"unknown"}]

Goals == [kind : {"input"}, value : Inputs] \cup [kind : {"brightness"}, value : Levels] \cup
         [kind : {"power"}, value : Powers]
Observation == [kind |-> "observe", value |-> None]
Discovery == [kind |-> "discover", value |-> None]

ASSUME ProviderAssumption ==
  /\ \A s \in Setups : [whole |-> s.whole, away |-> s.away, flaky |-> s.flaky] \in Switches
  /\ Ours \in Inputs /\ Wanted \subseteq Goals
  /\ ExtraReadEvery \in Nat \ {0} /\ MaxIssues \in Nat /\ MaxTouches \in Nat

(* Whole, what a display says lists all three codes: one flag stands for its capabilities. *)
ASSUME DisplayAssumption ==
  \A s \in Setups : {BrightnessCode, InputCode, PowerCode} \subseteq DOMAIN VcpTable(FlattenSeq(s.says))

NoCall == [goal |-> None, id |-> None, phase |-> "ended", asked |-> FALSE, current |-> FALSE,
           sure |-> FALSE, able |-> FALSE]

(***************************************************************************)
(* current: the call holds the KnownMonitor that known holds now.  sure:   *)
(* it has read the range of the brightness; in a discovery, the display is *)
(* listed.  able: the discovery has read its capabilities.                 *)
(***************************************************************************)
Call == [goal : Goals \cup {Observation, Discovery}, id : Ids \cup {None},
         phase : {"listing", "describing", "probing", "sweeping", "brightness", "power",
                  "ranging", "writing", "verifying", "confirming"},
         asked : BOOLEAN, current : BOOLEAN, sure : BOOLEAN, able : BOOLEAN]

TypeOK ==
  /\ setup \in Setups
  /\ panel \in Panel
  /\ replyTo \in {"input", "brightness", "power", "capabilities", None}
  /\ known \in Known \cup {None}
  /\ extras \in BOOLEAN
  /\ sweeps \in 0..ExtraReadEvery - 1
  /\ calls \in [Calls -> Call \cup {NoCall}]
  /\ completed \subseteq Ids
  /\ issued \in 0..MaxIssues /\ touches \in 0..MaxTouches

Init ==
  /\ setup \in Setups
  /\ panel \in {p \in Panel : p.plugged /\ p.power = "on" /\ p.heading = p.input}
  /\ replyTo = None
  /\ known = None
  /\ extras = TRUE
  /\ sweeps = 0
  /\ calls = [c \in Calls |-> NoCall]
  /\ completed = {}
  /\ issued = 0 /\ touches = 0

-----------------------------------------------------------------------------
(* The display *)

Answers == panel.plugged /\ panel.power = "on" /\ (panel.input = Ours \/ setup.away)

(* The input follows a write after a while, when the display has synchronised. *)
PanelSwitches ==
  /\ panel.heading # panel.input
  /\ panel' = [panel EXCEPT !.input = panel.heading]
  /\ UNCHANGED <<setup, replyTo, known, extras, sweeps, calls, completed, issued, touches>>

(***************************************************************************)
(* Cables and the buttons of the display.  (On macOS a display that is     *)
(* plugged in again has a new handle, and nothing to do with this one.)    *)
(***************************************************************************)
Touch ==
  /\ touches < MaxTouches
  /\ touches' = touches + 1
  /\ \/ setup.whole /\ panel' = [panel EXCEPT !.plugged = ~@]
     \/ panel' = [panel EXCEPT !.power = IF @ = "on" THEN "off" ELSE "on"]
     \/ \E i \in Inputs : panel' = [panel EXCEPT !.input = i, !.heading = i]
     \/ \E b \in Levels : panel' = [panel EXCEPT !.level = b]
  /\ UNCHANGED <<setup, replyTo, known, extras, sweeps, calls, completed, issued>>

-----------------------------------------------------------------------------
(* Requests to the bridge *)

(* What a call reads in its phase. *)
CodeOf(phase) ==
  CASE phase = "describing" -> "capabilities"
    [] phase \in {"probing", "sweeping", "verifying"} -> "input"
    [] phase \in {"brightness", "ranging", "confirming"} -> "brightness"
    [] OTHER -> "power"

Reads(c) == calls[c].phase \notin {"ended", "listing", "writing"}

(* macOS: the first half of a transaction. *)
Ask(c) ==
  /\ Reads(c) /\ ~calls[c].asked /\ ~setup.whole /\ Answers
  /\ replyTo' = CodeOf(calls[c].phase)
  /\ calls' = [calls EXCEPT ![c].asked = TRUE]
  /\ UNCHANGED <<setup, panel, known, extras, sweeps, completed, issued, touches>>

GoodReply(c) ==
  Answers /\ (setup.whole \/ (calls[c].asked /\ replyTo = CodeOf(calls[c].phase)))

(***************************************************************************)
(* A read ends, with a value (ok) or not.  On macOS the answer about       *)
(* another code, or none, is an error; a read leaves the answer there or   *)
(* takes it.                                                               *)
(***************************************************************************)
Replied(c, ok) ==
  /\ IF ok THEN GoodReply(c)
     ELSE setup.flaky \/ (~GoodReply(c) /\ (Answers /\ ~setup.whole => calls[c].asked))
  /\ replyTo' \in IF setup.whole THEN {replyTo} ELSE {replyTo, None}
  /\ UNCHANGED <<setup, panel, issued, touches>>

Into(c, phase) == [calls[c] EXCEPT !.phase = phase, !.asked = FALSE]
Go(c, phase) == calls' = [calls EXCEPT ![c] = Into(c, phase)]
End(c) == calls' = [calls EXCEPT ![c] = NoCall]

-----------------------------------------------------------------------------
(* Starting, with a discovery first while nothing is known *)

Kind(c) == calls[c].goal.kind

(* The power states the display lists, as far as its capabilities string is understood. *)
Listed == [s \in Setups |-> Range(VcpTable(FlattenSeq(s.says))[PowerCode])]
ListedPower == Listed[setup]

(* Where a command or an observation goes on once the display was looked up in k. *)
PhaseOf(goal, k) ==
  CASE goal.kind = "observe" -> "sweeping"
    [] goal.kind = "brightness" /\ k # None /\ k.able -> "ranging"
    [] goal.kind = "input" /\ k # None /\ k.able -> "writing"
    [] goal.kind = "power" /\ k # None /\ k.able /\ ResolvePower(ListedPower, goal.value) # Unsupported ->
         "writing"
    [] OTHER -> "ended"

StartAs(c, goal, id) ==
  LET phase == IF goal.kind = "discover" \/ known = None THEN "listing" ELSE PhaseOf(goal, known)
  IN  calls' = [calls EXCEPT ![c] =
                  IF phase = "ended" THEN NoCall
                  ELSE [NoCall EXCEPT !.goal = goal, !.id = id, !.phase = phase,
                                      !.current = known # None]]

Idle(c) == calls[c] = NoCall

(* setInput, setBrightness, setPower; an id that succeeded is answered from the cache. *)
Command(c, id, goal) ==
  /\ Idle(c) /\ issued < MaxIssues
  /\ issued' = issued + 1
  /\ IF id \in completed THEN UNCHANGED calls ELSE StartAs(c, goal, id)
  /\ UNCHANGED <<setup, panel, replyTo, known, extras, sweeps, completed, touches>>

Observe(c) ==
  /\ Idle(c)
  /\ StartAs(c, Observation, None)
  /\ UNCHANGED <<setup, panel, replyTo, known, extras, sweeps, completed, issued, touches>>

Discover(c) ==
  /\ Idle(c) /\ issued < MaxIssues
  /\ issued' = issued + 1
  /\ StartAs(c, Discovery, None)
  /\ UNCHANGED <<setup, panel, replyTo, known, extras, sweeps, completed, touches>>

-----------------------------------------------------------------------------
(* Discovery *)

(* list: the displays that are there, on Windows with their capabilities. *)
List(c) ==
  /\ calls[c].phase = "listing"
  /\ \E able \in {setup.whole /\ Answers} \cup IF setup.flaky THEN {FALSE} ELSE {} :
       calls' = [calls EXCEPT ![c] = [Into(c, IF setup.whole \/ ~panel.plugged THEN "probing"
                                              ELSE "describing")
                                        EXCEPT !.sure = panel.plugged, !.able = able]]
  /\ UNCHANGED <<setup, panel, replyTo, known, extras, sweeps, completed, issued, touches>>

ListFails(c) ==
  /\ calls[c].phase = "listing" /\ setup.flaky
  /\ End(c)
  /\ UNCHANGED <<setup, panel, replyTo, known, extras, sweeps, completed, issued, touches>>

(* macOS: the capabilities, a fragment at a time; two that read them together may garble both. *)
Describe(c, ok) ==
  /\ calls[c].phase = "describing"
  /\ Replied(c, ok)
  /\ \E whole \in IF \E other \in Calls \ {c} : calls[other].phase = "describing"
                   THEN BOOLEAN ELSE {TRUE} :
       calls' = [calls EXCEPT ![c] = [Into(c, "probing") EXCEPT !.able = ok /\ whole]]
  /\ UNCHANGED <<known, extras, sweeps, completed>>

(***************************************************************************)
(* The end of discoverMonitors: known is replaced, with the last readings  *)
(* of before, and calls under way keep the KnownMonitor they had.  The     *)
(* live input read last only serves the wiring that is reported.           *)
(***************************************************************************)
Learned_NoDefault(c) == \* faulty: without the default for what was never read
  IF ~calls[c].sure THEN None
  ELSE [able |-> calls[c].able,
        level |-> IF known = None THEN None ELSE known.level,
        power |-> IF known = None THEN None ELSE known.power]
Learned(c) ==
  IF ~calls[c].sure THEN None
  ELSE [able |-> calls[c].able,
        level |-> IF known = None THEN None ELSE known.level,
        power |-> IF known = None THEN "unknown" ELSE known.power]

Probe(c, ok) ==
  LET next == PhaseOf(calls[c].goal, Learned(c))
  IN  /\ calls[c].phase = "probing"
      /\ Replied(c, ok)
      /\ known' = Learned(c)
      /\ calls' = [other \in Calls |->
                     IF other # c
                     THEN IF Idle(other) THEN NoCall ELSE [calls[other] EXCEPT !.current = FALSE]
                     ELSE IF next = "ended" THEN NoCall
                     ELSE [Into(c, next) EXCEPT !.sure = FALSE, !.able = FALSE,
                                                !.current = Learned(c) # None]]
      /\ UNCHANGED <<extras, sweeps, completed>>

-----------------------------------------------------------------------------
(* Observation *)

(* Faulty variant: brightness and power are only read again after a command. *)
ReadsExtras_AfterCommands == extras
ReadsExtras == extras \/ (sweeps + 1) % ExtraReadEvery = 1 % ExtraReadEvery

(***************************************************************************)
(* getObservedState has its answer about the input: the sweep is counted   *)
(* and the flag cleared, even if the display did not answer.               *)
(***************************************************************************)
Sweep(c, ok) ==
  /\ calls[c].phase = "sweeping"
  /\ Replied(c, ok)
  /\ sweeps' = (sweeps + 1) % ExtraReadEvery
  /\ extras' = FALSE
  /\ IF ok /\ ReadsExtras /\ known # None /\ known.able
     THEN calls' = [calls EXCEPT ![c] = [Into(c, "brightness") EXCEPT !.current = TRUE]]
     ELSE End(c)
  /\ UNCHANGED <<known, completed>>

(* The helper failed the request: every display is reported unreachable, nothing is counted. *)
SweepFails(c) ==
  /\ calls[c].phase = "sweeping" /\ setup.flaky /\ setup.whole
  /\ End(c)
  /\ UNCHANGED <<setup, panel, replyTo, known, extras, sweeps, completed, issued, touches>>

(* A reading goes to the KnownMonitor the call holds; only the one in known is ever looked at. *)
Noted(c, field, value) ==
  IF calls[c].current /\ known # None THEN [known EXCEPT ![field] = value] ELSE known

ReadBrightness(c, ok) ==
  /\ calls[c].phase = "brightness"
  /\ Replied(c, ok)
  /\ known' = Noted(c, "level", IF ok THEN panel.level ELSE None)
  /\ Go(c, "power")
  /\ UNCHANGED <<extras, sweeps, completed>>

ReadPower(c, ok) ==
  /\ calls[c].phase = "power"
  /\ Replied(c, ok)
  /\ known' = Noted(c, "power", IF ok THEN panel.power ELSE "unknown")
  /\ End(c)
  /\ UNCHANGED <<extras, sweeps, completed>>

-----------------------------------------------------------------------------
(* Commands *)

ReadRange(c, ok) ==
  /\ calls[c].phase = "ranging"
  /\ Replied(c, ok)
  /\ calls' = [calls EXCEPT ![c] = [Into(c, "writing") EXCEPT !.sure = ok]]
  /\ UNCHANGED <<known, extras, sweeps, completed>>

(***************************************************************************)
(* What a write may make of the display: an input change may be ignored,   *)
(* brightness lands anywhere when the range was guessed, and a power state *)
(* becomes the nearest one the display has.                                *)
(***************************************************************************)
Written(c) ==
  LET value == calls[c].goal.value
  IN  CASE Kind(c) = "input" -> {panel, [panel EXCEPT !.heading = value]}
        [] Kind(c) = "brightness" ->
             {[panel EXCEPT !.level = b] : b \in IF calls[c].sure THEN {value} ELSE Levels}
        [] OTHER -> {[panel EXCEPT !.power = DescribePower(ResolvePower(ListedPower, value))]}

Succeeds(c) == completed' = completed \cup {calls[c].id}

Write(c) ==
  /\ calls[c].phase = "writing" /\ Answers
  /\ panel' \in Written(c)
  /\ replyTo' \in {replyTo, None}
  /\ CASE Kind(c) = "power" -> /\ known' = Noted(c, "power", calls[c].goal.value)
                               /\ extras' = TRUE /\ Succeeds(c) /\ End(c)
       [] Kind(c) = "input" -> Go(c, "verifying") /\ UNCHANGED <<known, extras, completed>>
       [] OTHER -> Go(c, "confirming") /\ UNCHANGED <<known, extras, completed>>
  /\ UNCHANGED <<setup, sweeps, issued, touches>>

(* The write fails; a helper that answered too late may have carried it out. *)
WriteFails(c) ==
  /\ calls[c].phase = "writing" /\ (setup.flaky \/ ~Answers)
  /\ panel' \in {panel} \cup IF Answers THEN Written(c) ELSE {}
  /\ End(c)
  /\ UNCHANGED <<setup, replyTo, known, extras, sweeps, completed, issued, touches>>

(* The read-back decides; without one the write counts as done. *)
Confirm(c, ok) ==
  /\ calls[c].phase = "confirming"
  /\ Replied(c, ok)
  /\ known' = Noted(c, "level", IF ok THEN panel.level ELSE None)
  /\ extras' = TRUE
  /\ IF ok /\ panel.level # calls[c].goal.value THEN UNCHANGED completed ELSE Succeeds(c)
  /\ End(c)
  /\ UNCHANGED sweeps

(* Faulty variant: any reading confirms the switch. *)
Confirms_Any(c, ok) == TRUE
(* verifySwitch: the target was read, or nothing could be read. *)
Confirms(c, ok) == ok => panel.input = calls[c].goal.value

Verify(c, ok) ==
  /\ calls[c].phase = "verifying"
  /\ Replied(c, ok)
  /\ IF Confirms(c, ok) THEN Succeeds(c) /\ End(c)
     ELSE Go(c, "verifying") /\ UNCHANGED completed
  /\ UNCHANGED <<known, extras, sweeps>>

(* Faulty variant: the loop only ends when a reading says so. *)
Deadline_Never(c) == FALSE /\ UNCHANGED vars
Deadline(c) ==
  /\ calls[c].phase = "verifying" /\ ~calls[c].asked
  /\ End(c)
  /\ UNCHANGED <<setup, panel, replyTo, known, extras, sweeps, completed, issued, touches>>

-----------------------------------------------------------------------------
Reply(c, ok) ==
  \/ Describe(c, ok) \/ Probe(c, ok) \/ Sweep(c, ok) \/ ReadBrightness(c, ok) \/ ReadPower(c, ok)
  \/ ReadRange(c, ok) \/ Confirm(c, ok) \/ Verify(c, ok)

Works(c) ==
  \/ Ask(c) \/ List(c) \/ ListFails(c) \/ SweepFails(c) \/ Write(c) \/ WriteFails(c)
  \/ \E ok \in BOOLEAN : Reply(c, ok)

Next ==
  \/ \E c \in Calls : Works(c) \/ Deadline(c)
  \/ \E c \in Observers : Observe(c)
  \/ \E c \in Callers : Discover(c) \/ \E id \in Ids, goal \in Wanted : Command(c, id, goal)
  \/ PanelSwitches \/ Touch

Spec == Init /\ [][Next]_vars

(***************************************************************************)
(* The bridge settles every request, the agent goes on observing, and time *)
(* passes: the deadline comes even if a verification is always reading     *)
(* when one looks.                                                         *)
(***************************************************************************)
FairSpec ==
  /\ Spec
  /\ \A c \in Calls : WF_vars(Works(c)) /\ SF_vars(Deadline(c))
  /\ \A c \in Observers : WF_vars(Observe(c))

-----------------------------------------------------------------------------
(***************************************************************************)
(* "it is stale, not invented", and it does not stay stale: once a display *)
(* stays readable, the brightness and power reported become its own,       *)
(* whatever commands, discoveries and observations overlapped: a flag      *)
(* cleared by a sweep that read nothing, a reading noted in a KnownMonitor *)
(* that was replaced meanwhile.  (On a bus where halves interleave, two    *)
(* observations may go on spoiling each other's readings.)                 *)
(***************************************************************************)
ReadingsAreCurrent ==
  known # None /\ known.able =>
    known.level \in {None, panel.level} /\ known.power \in {"unknown", panel.power}

ReadingsSettle == (<>[](Answers /\ setup.whole /\ ~setup.flaky)) => <>[]ReadingsAreCurrent

(* Every call ends: in particular a display that never confirms a switch stops no command. *)
CallsEnd == \A c \in Calls : ~Idle(c) ~> Idle(c)

(***************************************************************************)
(* A switch that is reported done was seen on its target, or the display   *)
(* does not answer on our cable any more.                                  *)
(***************************************************************************)
Earned(c) ==
  (calls[c].phase = "verifying" /\ Idle(c)' /\ calls[c].id \in completed' \ completed)
    => (panel.input = calls[c].goal.value \/ ~Answers)

(* So it is when the bridge answers every request, and as a whole. *)
SuccessIsEarned == [][setup.whole /\ ~setup.flaky => \A c \in Calls : Earned(c)]_vars

(***************************************************************************)
(* What a display says of itself, and the values it is sent, survive the   *)
(* way: its string is read exactly, or as far as it arrived, brightness    *)
(* is confirmed by its read-back, and a display keeps its id.              *)
(***************************************************************************)
Understood == {s \in Setups : TruncationLosesOnlyTheRest(s.says, s.model, s.lists)}
CodecIsExact ==
  setup \in Understood /\ ReadBackWithinTolerance /\ ReaderIsExact /\ IdentityIsStable
=============================================================================
