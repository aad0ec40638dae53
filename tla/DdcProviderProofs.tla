------------------------- MODULE DdcProviderProofs -------------------------
(***************************************************************************)
(* What the DDC provider keeps whatever calls overlap: its types, and that *)
(* a switch it reports done was seen or could not be looked at any more;   *)
(* and what the reader of capabilities strings returns.                    *)
(***************************************************************************)
EXTENDS DdcProvider, SequenceTheorems, WellFoundedInduction, TLAPS

-----------------------------------------------------------------------------
(* Values on the way to the display and back *)

(* The least of some numbers from 1 to 3. *)
LEMMA LeastOfThree ==
  ASSUME NEW S \in SUBSET 1..3, S # {}
  PROVE  Min(S) \in S
<1>1. \E n \in S : \A m \in S : n <= m
  <2>1. CASE 1 \in S
    BY <2>1
  <2>2. CASE 1 \notin S /\ 2 \in S
    BY <2>2
  <2>3. CASE 1 \notin S /\ 2 \notin S
    <3>1. ASSUME NEW n \in S PROVE n = 3
      <4>1. n \in 1..3 /\ n # 1 /\ n # 2
        BY <2>3
      <4> QED BY <4>1
    <3>2. PICK n \in S : TRUE
      OBVIOUS
    <3>3. n = 3 /\ \A m \in S : n <= m
      BY <3>1, <3>2
    <3> QED BY <3>3
  <2> QED BY <2>1, <2>2, <2>3
<1> QED BY <1>1 DEF Min

(* resolvePowerValue finds a value that stands for one of the named states, or refuses. *)
LEMMA PowerIsNamed ==
  ASSUME NEW listed, NEW state \in Powers, ResolvePower(listed, state) # Unsupported
  PROVE  DescribePower(ResolvePower(listed, state)) \in Powers
<1> DEFINE preferred == PowerPreferences[state]
           Hits == {i \in 1..Len(preferred) : preferred[i] \in listed}
           best == SelectInSeq(preferred, LAMBDA value : value \in listed)
<1>1. /\ Len(preferred) \in 1..3
      /\ \A i \in 1..Len(preferred) : preferred[i] \in 1..5
  <2>1. CASE state = "on"
    BY <2>1 DEF PowerPreferences
  <2>2. CASE state = "standby"
    BY <2>2 DEF PowerPreferences
  <2>3. CASE state = "off"
    BY <2>3 DEF PowerPreferences
  <2> QED BY <2>1, <2>2, <2>3 DEF Powers
<1>2. best \in {0} \cup 1..Len(preferred)
  <2>1. Hits \in SUBSET 1..3 /\ Hits \subseteq 1..Len(preferred)
    BY <1>1
  <2>2. best = IF Hits # {} THEN Min(Hits) ELSE 0
    BY DEF SelectInSeq
  <2> HIDE DEF Hits, best, preferred
  <2> QED BY <2>1, <2>2, LeastOfThree
<1>3. ResolvePower(listed, state) = IF best # 0 THEN preferred[best]
                                    ELSE IF listed = {} /\ state = "on" THEN 1 ELSE Unsupported
  BY DEF ResolvePower
<1> HIDE DEF best, preferred
<1>4. ResolvePower(listed, state) \in 1..5
  BY <1>1, <1>2, <1>3
<1> QED BY <1>4 DEF DescribePower, Powers

(***************************************************************************)
(* Rounding brightness to the display's range and back stays within the    *)
(* tolerance of the read-back: for every range of 15 steps or more, where  *)
(* ReadBackWithinTolerance looks at the ranges up to 100.                  *)
(***************************************************************************)
THEOREM RoundingIsTolerated ==
  ASSUME NEW max \in Nat, max >= 15, NEW percent \in 0..100
  PROVE  PercentOf(RawOf(percent, max), max) - percent \in -3..3
<1> DEFINE top == percent * max
           raw == (2 * top + 100) \div 200
           q   == (200 * raw + max) \div (2 * max)
<1>1. top \in Nat
  OBVIOUS
<1>2. raw \in Nat /\ 200 * raw <= 2 * top + 100 /\ 2 * top + 100 < 200 * raw + 200
  <2> HIDE DEF top
  <2> QED BY <1>1
<1>3. q \in Int /\ (2 * max) * q <= 200 * raw + max /\ 200 * raw + max < (2 * max) * q + 2 * max
  <2> DEFINE num == 200 * raw + max
             den == 2 * max
  <2>1. num \in Nat /\ den \in Nat /\ den > 0
    <3> HIDE DEF raw
    <3> QED BY <1>2
  <2> HIDE DEF num, den
  <2>2. num \div den \in Int /\ den * (num \div den) <= num /\ num < den * (num \div den) + den
    BY <2>1
  <2> QED BY <2>2 DEF num, den
<1> HIDE DEF raw, q
<1>4. q <= percent + 3
  <2> SUFFICES ASSUME q >= percent + 4 PROVE FALSE
    BY <1>3
  <2>1. (2 * max) * (percent + 4) <= (2 * max) * q
    BY <1>3
  <2>2. (2 * max) * (percent + 4) = 2 * top + 8 * max
    OBVIOUS
  <2> HIDE DEF top
  <2> QED BY <1>1, <1>2, <1>3, <2>1, <2>2
<1>5. q >= percent - 3
  <2> SUFFICES ASSUME q <= percent - 4 PROVE FALSE
    BY <1>3
  <2>1. (2 * max) * q <= (2 * max) * (percent - 4)
    BY <1>3
  <2>2. (2 * max) * (percent - 4) = 2 * top - 8 * max
    OBVIOUS
  <2> HIDE DEF top
  <2> QED BY <1>1, <1>2, <1>3, <2>1, <2>2
<1>6. RawOf(percent, max) = raw
  <2>1. 2 * percent * max + 100 = 2 * top + 100
    OBVIOUS
  <2> HIDE DEF top
  <2> QED BY <2>1 DEF RawOf, raw
<1>7. PercentOf(raw, max) = IF q > 100 THEN 100 ELSE q
  BY DEF PercentOf, q
<1> QED BY <1>3, <1>4, <1>5, <1>6, <1>7

-----------------------------------------------------------------------------
(***************************************************************************)
(* The inductive invariant.  A call that writes does it for a command, has *)
(* its id, and a power command only gets that far when the display has a   *)
(* value for it: without these the types of what is written, and of the    *)
(* ids whose success is cached, would not be kept.                         *)
(***************************************************************************)
Fits(listed, call) ==
  call # NoCall =>
    /\ call.goal \in Goals => call.id \in Ids
    /\ call.phase \in {"ranging", "confirming"} => call.goal \in Goals /\ call.goal.kind = "brightness"
    /\ call.phase = "verifying" => call.goal \in Goals /\ call.goal.kind = "input"
    /\ call.phase = "writing" =>
         /\ call.goal \in Goals
         /\ call.goal.kind = "power" => ResolvePower(listed, call.goal.value) # Unsupported

CallsFit == \A c \in Calls : Fits(ListedPower, calls[c])

ProviderInv == TypeOK /\ CallsFit

(* Records of calls with some fields changed. *)
Begun(goal, id, phase, current) ==
  [NoCall EXCEPT !.goal = goal, !.id = id, !.phase = phase, !.current = current]

LEMMA CallBegins ==
  ASSUME NEW goal \in Goals \cup {Observation, Discovery}, NEW id \in Ids \cup {None},
         NEW phase \in {"listing", "sweeping", "ranging", "writing"}, NEW current \in BOOLEAN
  PROVE  /\ Begun(goal, id, phase, current) \in Call
         /\ Begun(goal, id, phase, current).goal = goal
         /\ Begun(goal, id, phase, current).id = id
         /\ Begun(goal, id, phase, current).phase = phase
<1> DEFINE call == Begun(goal, id, phase, current)
           Wide == [goal : Goals \cup {Observation, Discovery, None}, id : Ids \cup {None},
                    phase : {"ended", "listing", "sweeping", "ranging", "writing"},
                    asked : BOOLEAN, current : BOOLEAN, sure : BOOLEAN, able : BOOLEAN]
           g == [NoCall EXCEPT !.goal = goal]
           i == [g EXCEPT !.id = id]
           p == [i EXCEPT !.phase = phase]
<1>1. NoCall \in Wide
  BY DEF NoCall
<1>2. g \in Wide /\ g.goal = goal
  BY <1>1
<1> HIDE DEF g
<1>3. i \in Wide /\ i.goal = goal /\ i.id = id
  BY <1>2
<1> HIDE DEF i
<1>4. p \in Wide /\ p.goal = goal /\ p.id = id /\ p.phase = phase
  BY <1>3
<1>5. call = [p EXCEPT !.current = current]
  BY DEF p, i, g, Begun
<1> HIDE DEF p, call
<1>6. call \in Wide /\ call.goal = goal /\ call.id = id /\ call.phase = phase
  BY <1>4, <1>5
<1>7. call \in Call
  BY <1>6 DEF Call
<1> QED BY <1>6, <1>7 DEF call

LEMMA CallLearns ==
  ASSUME NEW r \in Call, NEW sure \in BOOLEAN, NEW able \in BOOLEAN,
         NEW call, call = [r EXCEPT !.sure = sure, !.able = able]
  PROVE  call \in Call /\ call.goal = r.goal /\ call.id = r.id /\ call.phase = r.phase
<1> DEFINE s == [r EXCEPT !.sure = sure]
<1>1. s \in Call /\ s.goal = r.goal /\ s.id = r.id /\ s.phase = r.phase
  BY DEF Call
<1>2. call = [s EXCEPT !.able = able]
  OBVIOUS
<1> HIDE DEF s
<1>3. call \in Call /\ call.goal = s.goal /\ call.id = s.id /\ call.phase = s.phase
  BY <1>1, <1>2 DEF Call
<1> QED BY <1>1, <1>3

(* A step of one call leaves the calls in order. *)
LEMMA OneCallMoves ==
  ASSUME ProviderInv, setup' = setup, NEW c \in Calls, NEW call \in Call \cup {NoCall},
         Fits(ListedPower, call), calls' = [calls EXCEPT ![c] = call]
  PROVE  calls' \in [Calls -> Call \cup {NoCall}] /\ CallsFit'
<1>1. calls' \in [Calls -> Call \cup {NoCall}]
  BY DEF ProviderInv, TypeOK
<1>2. ListedPower' = ListedPower
  BY DEF ListedPower
<1>3. ASSUME NEW other \in Calls PROVE Fits(ListedPower, calls'[other])
  <2>1. CASE other = c
    BY <2>1 DEF ProviderInv, TypeOK
  <2>2. CASE other # c
    BY <2>2 DEF ProviderInv, TypeOK, CallsFit
  <2> QED BY <2>1, <2>2
<1>4. CallsFit'
  BY <1>2, <1>3 DEF CallsFit
<1> QED BY <1>1, <1>4

LEMMA CallsStay ==
  ASSUME ProviderInv, UNCHANGED <<setup, calls>>
  PROVE  calls' \in [Calls -> Call \cup {NoCall}] /\ CallsFit'
<1>1. ListedPower' = ListedPower
  BY DEF ListedPower
<1>2. CallsFit'
  BY <1>1 DEF ProviderInv, CallsFit
<1> QED BY <1>2 DEF ProviderInv, TypeOK

LEMMA Ended == NoCall \in Call \cup {NoCall} /\ \A listed : Fits(listed, NoCall)
BY DEF Fits

(* A call that is under way, by its phase. *)
LEMMA UnderWay ==
  ASSUME ProviderInv, NEW c \in Calls, calls[c].phase # "ended"
  PROVE  calls[c] \in Call /\ Fits(ListedPower, calls[c]) /\ calls[c] # NoCall
BY DEF ProviderInv, TypeOK, CallsFit, NoCall

LEMMA GoalsApart ==
  /\ Observation \notin Goals /\ Discovery \notin Goals
  /\ \A g \in Goals : /\ g.kind \in {"input", "brightness", "power"}
                      /\ g.kind = "input" => g.value \in Inputs
                      /\ g.kind = "brightness" => g.value \in Levels
                      /\ g.kind = "power" => g.value \in Powers
BY DEF Goals, Observation, Discovery

(* A call goes on to a phase that asks nothing new of it. *)
LEMMA IntoFits ==
  ASSUME ProviderInv, NEW c \in Calls, calls[c].phase # "ended",
         NEW phase \in {"listing", "describing", "probing", "sweeping", "brightness", "power"}
  PROVE  /\ Into(c, phase) \in Call /\ Fits(ListedPower, Into(c, phase))
         /\ Into(c, phase).goal = calls[c].goal /\ Into(c, phase).id = calls[c].id
<1>1. calls[c] \in Call /\ Fits(ListedPower, calls[c]) /\ calls[c] # NoCall
  BY UnderWay
<1>2. /\ Into(c, phase) \in Call /\ Into(c, phase).goal = calls[c].goal
      /\ Into(c, phase).id = calls[c].id /\ Into(c, phase).phase = phase
  BY <1>1 DEF Into, Call
<1>3. Fits(ListedPower, Into(c, phase))
  BY <1>1, <1>2 DEF Fits
<1> QED BY <1>2, <1>3

(* What PhaseOf sends a command or an observation to suits it. *)
LEMMA PhaseFits ==
  ASSUME NEW goal \in Goals \cup {Observation, Discovery}, NEW k,
         NEW phase, phase = PhaseOf(goal, k)
  PROVE  /\ phase \in {"sweeping", "ranging", "writing", "ended"}
         /\ phase = "ranging" => goal \in Goals /\ goal.kind = "brightness"
         /\ phase = "writing" => /\ goal \in Goals
                                 /\ goal.kind = "power" =>
                                      ResolvePower(ListedPower, goal.value) # Unsupported
<1> DEFINE Named == ResolvePower(ListedPower, goal.value) # Unsupported
<1> HIDE DEF Named
<1>1. phase = CASE goal.kind = "observe" -> "sweeping"
                [] goal.kind = "brightness" /\ k # None /\ k.able -> "ranging"
                [] goal.kind = "input" /\ k # None /\ k.able -> "writing"
                [] goal.kind = "power" /\ k # None /\ k.able /\ Named -> "writing"
                [] OTHER -> "ended"
  BY DEF PhaseOf, Named
<1>2. goal.kind \in {"observe", "discover", "input", "brightness", "power"}
  BY GoalsApart DEF Observation, Discovery
<1>3. goal.kind \in {"input", "brightness", "power"} => goal \in Goals
  BY DEF Observation, Discovery
<1>4. CASE goal.kind = "observe"
  BY <1>1, <1>4
<1>5. CASE goal.kind = "discover"
  BY <1>1, <1>5
<1>6. CASE goal.kind = "input"
  <2>1. phase = IF k # None /\ k.able THEN "writing" ELSE "ended"
    BY <1>1, <1>6
  <2> QED BY <1>3, <1>6, <2>1
<1>7. CASE goal.kind = "brightness"
  <2>1. phase = IF k # None /\ k.able THEN "ranging" ELSE "ended"
    BY <1>1, <1>7
  <2> QED BY <1>3, <1>7, <2>1
<1>8. CASE goal.kind = "power"
  <2>1. phase = IF k # None /\ k.able /\ Named THEN "writing" ELSE "ended"
    BY <1>1, <1>8
  <2> QED BY <1>3, <1>8, <2>1 DEF Named
<1> QED BY <1>2, <1>4, <1>5, <1>6, <1>7, <1>8

-----------------------------------------------------------------------------
(* Every step keeps the invariant *)

(* The variables a step leaves alone keep their types. *)
OtherTypes ==
  /\ setup \in Setups
  /\ panel \in Panel
  /\ replyTo \in {"input", "brightness", "power", "capabilities", None}
  /\ known \in Known \cup {None}
  /\ extras \in BOOLEAN
  /\ sweeps \in 0..ExtraReadEvery - 1
  /\ completed \subseteq Ids
  /\ issued \in 0..MaxIssues /\ touches \in 0..MaxTouches

LEMMA InvByParts ==
  ProviderInv <=> OtherTypes /\ calls \in [Calls -> Call \cup {NoCall}] /\ CallsFit
BY DEF ProviderInv, TypeOK, OtherTypes

LEMMA OtherTypesStay ==
  ASSUME OtherTypes, UNCHANGED <<setup, panel, replyTo, known, extras, sweeps, completed, issued, touches>>
  PROVE  OtherTypes'
BY DEF OtherTypes

(* A step of one call that changes nothing else. *)
LEMMA CallMovesAlone ==
  ASSUME ProviderInv, UNCHANGED <<setup, panel, replyTo, known, extras, sweeps, completed, issued, touches>>,
         NEW c \in Calls, NEW call \in Call \cup {NoCall},
         Fits(ListedPower, call), calls' = [calls EXCEPT ![c] = call]
  PROVE  ProviderInv'
<1>1. calls' \in [Calls -> Call \cup {NoCall}] /\ CallsFit'
  BY OneCallMoves
<1>2. OtherTypes'
  BY InvByParts, OtherTypesStay
<1> QED BY <1>1, <1>2, InvByParts DEF ProviderInv, TypeOK, OtherTypes

LEMMA Started ==
  ASSUME ProviderInv, setup' = setup, NEW c \in Calls, NEW goal \in Goals \cup {Observation, Discovery},
         NEW id \in Ids \cup {None}, goal \in Goals => id \in Ids, StartAs(c, goal, id)
  PROVE  calls' \in [Calls -> Call \cup {NoCall}] /\ CallsFit'
<1> DEFINE phase == IF goal.kind = "discover" \/ known = None THEN "listing" ELSE PhaseOf(goal, known)
           call == [NoCall EXCEPT !.goal = goal, !.id = id, !.phase = phase, !.current = known # None]
<1>1. calls' = [calls EXCEPT ![c] = IF phase = "ended" THEN NoCall ELSE call]
  BY DEF StartAs
<1>2. /\ phase \in {"listing", "sweeping", "ranging", "writing", "ended"}
      /\ phase = "ranging" => goal \in Goals /\ goal.kind = "brightness"
      /\ phase = "writing" => /\ goal \in Goals
                              /\ goal.kind = "power" =>
                                   ResolvePower(ListedPower, goal.value) # Unsupported
  <2>1. CASE goal.kind = "discover" \/ known = None
    BY <2>1
  <2>2. CASE ~(goal.kind = "discover" \/ known = None)
    <3>1. phase = PhaseOf(goal, known)
      BY <2>2
    <3> HIDE DEF phase
    <3> QED BY <3>1, PhaseFits
  <2> QED BY <2>1, <2>2
<1> HIDE DEF phase
<1>4. phase # "ended" => call \in Call /\ call.goal = goal /\ call.id = id /\ call.phase = phase
  <2> SUFFICES ASSUME phase # "ended"
               PROVE  call \in Call /\ call.goal = goal /\ call.id = id /\ call.phase = phase
    OBVIOUS
  <2> DEFINE current == known # None
  <2>1. phase \in {"listing", "sweeping", "ranging", "writing"} /\ current \in BOOLEAN
    BY <1>2
  <2>2. call = Begun(goal, id, phase, current)
    BY DEF Begun
  <2> HIDE DEF call, current
  <2>3. ASSUME NEW p \in {"listing", "sweeping", "ranging", "writing"}, NEW now \in BOOLEAN
        PROVE  /\ Begun(goal, id, p, now) \in Call
               /\ Begun(goal, id, p, now).goal = goal
               /\ Begun(goal, id, p, now).id = id
               /\ Begun(goal, id, p, now).phase = p
    BY CallBegins
  <2> QED BY <2>1, <2>2, <2>3
<1>5. phase # "ended" => Fits(ListedPower, call)
  <2> HIDE DEF call
  <2> QED BY <1>2, <1>4 DEF Fits
<1> HIDE DEF call
<1>6. CASE phase = "ended"
  <2>1. calls' = [calls EXCEPT ![c] = NoCall]
    BY <1>1, <1>6
  <2> QED BY <2>1, Ended, OneCallMoves
<1>7. CASE phase # "ended"
  <2>1. calls' = [calls EXCEPT ![c] = call]
    BY <1>1, <1>7
  <2> QED BY <1>4, <1>5, <1>7, <2>1, OneCallMoves
<1> QED BY <1>6, <1>7

LEMMA BeginTypes ==
  ASSUME ProviderInv,
         \/ \E c \in Observers : Observe(c)
         \/ \E c \in Callers : Discover(c) \/ \E id \in Ids, goal \in Wanted : Command(c, id, goal)
  PROVE  ProviderInv'
<1>1. ASSUME NEW c \in Observers, Observe(c) PROVE ProviderInv'
  <2>1. c \in Calls
    BY DEF Calls
  <2>2. UNCHANGED <<setup, panel, replyTo, known, extras, sweeps, completed, issued, touches>>
    BY <1>1 DEF Observe
  <2>3. StartAs(c, Observation, None)
    BY <1>1 DEF Observe
  <2>4. calls' \in [Calls -> Call \cup {NoCall}] /\ CallsFit'
    BY <2>1, <2>2, <2>3, GoalsApart, Started
  <2>5. OtherTypes'
    BY <2>2, InvByParts, OtherTypesStay
  <2> QED BY <2>4, <2>5 DEF ProviderInv, TypeOK, OtherTypes
<1>2. ASSUME NEW c \in Callers, Discover(c) PROVE ProviderInv'
  <2>1. c \in Calls
    BY DEF Calls
  <2>2. StartAs(c, Discovery, None) /\ setup' = setup
    BY <1>2 DEF Discover
  <2>3. calls' \in [Calls -> Call \cup {NoCall}] /\ CallsFit'
    BY <2>1, <2>2, GoalsApart, Started
  <2>4. OtherTypes'
    BY <1>2, InvByParts, ProviderAssumption DEF OtherTypes, Discover
  <2> QED BY <2>3, <2>4 DEF ProviderInv, TypeOK, OtherTypes
<1>3. ASSUME NEW c \in Callers, NEW id \in Ids, NEW goal \in Wanted, Command(c, id, goal)
      PROVE  ProviderInv'
  <2>1. c \in Calls /\ goal \in Goals
    BY ProviderAssumption DEF Calls
  <2>2. setup' = setup /\ (UNCHANGED calls \/ StartAs(c, goal, id))
    BY <1>3 DEF Command
  <2>3. calls' \in [Calls -> Call \cup {NoCall}] /\ CallsFit'
    BY <2>1, <2>2, Started, CallsStay
  <2>4. OtherTypes'
    BY <1>3, InvByParts, ProviderAssumption DEF OtherTypes, Command
  <2> QED BY <2>3, <2>4 DEF ProviderInv, TypeOK, OtherTypes
<1> QED BY <1>1, <1>2, <1>3

(* Steps of the display by itself. *)
LEMMA DisplayTypes ==
  ASSUME ProviderInv, PanelSwitches \/ Touch
  PROVE  ProviderInv'
<1>1. UNCHANGED <<setup, replyTo, known, extras, sweeps, calls, completed, issued>>
  BY DEF PanelSwitches, Touch
<1>2. panel' \in Panel
  <2>1. panel \in Panel
    BY DEF ProviderInv, TypeOK
  <2>2. CASE PanelSwitches
    BY <2>1, <2>2 DEF PanelSwitches, Panel
  <2>3. CASE Touch
    <3>1. CASE panel' = [panel EXCEPT !.plugged = ~@]
      BY <2>1, <3>1 DEF Panel
    <3>2. CASE panel' = [panel EXCEPT !.power = IF @ = "on" THEN "off" ELSE "on"]
      BY <2>1, <3>2 DEF Panel, Powers
    <3>3. CASE \E i \in Inputs : panel' = [panel EXCEPT !.input = i, !.heading = i]
      BY <2>1, <3>3 DEF Panel
    <3>4. CASE \E b \in Levels : panel' = [panel EXCEPT !.level = b]
      BY <2>1, <3>4 DEF Panel
    <3> QED BY <2>3, <3>1, <3>2, <3>3, <3>4 DEF Touch
  <2> QED BY <2>2, <2>3
<1>3. touches' \in 0..MaxTouches
  <2>1. touches \in 0..MaxTouches /\ MaxTouches \in Nat
    BY ProviderAssumption DEF ProviderInv, TypeOK
  <2>2. touches' = touches \/ (touches < MaxTouches /\ touches' = touches + 1)
    BY DEF PanelSwitches, Touch
  <2> QED BY <2>1, <2>2
<1>4. calls' \in [Calls -> Call \cup {NoCall}] /\ CallsFit'
  BY <1>1, CallsStay
<1> QED BY <1>1, <1>2, <1>3, <1>4 DEF ProviderInv, TypeOK

(* Steps that only end a call. *)
LEMMA EndTypes ==
  ASSUME ProviderInv, NEW c \in Calls, ListFails(c) \/ SweepFails(c) \/ Deadline(c)
  PROVE  ProviderInv'
<1>1. /\ calls' = [calls EXCEPT ![c] = NoCall]
      /\ UNCHANGED <<setup, panel, replyTo, known, extras, sweeps, completed, issued, touches>>
  BY DEF ListFails, SweepFails, Deadline, End
<1> QED BY <1>1, Ended, CallMovesAlone

LEMMA AskTypes ==
  ASSUME ProviderInv, NEW c \in Calls, Ask(c)
  PROVE  ProviderInv'
<1> DEFINE call == [calls[c] EXCEPT !.asked = TRUE]
<1>1. calls[c] \in Call /\ Fits(ListedPower, calls[c]) /\ calls[c] # NoCall
  BY UnderWay DEF Ask, Reads
<1>2. calls' = [calls EXCEPT ![c] = call]
  BY DEF Ask
<1>3. call \in Call /\ call.goal = calls[c].goal /\ call.id = calls[c].id /\ call.phase = calls[c].phase
  BY <1>1 DEF Call
<1>4. Fits(ListedPower, call)
  <2> HIDE DEF call
  <2> QED BY <1>1, <1>3 DEF Fits
<1>5. calls' \in [Calls -> Call \cup {NoCall}] /\ CallsFit'
  <2> HIDE DEF call
  <2>1. setup' = setup
    BY DEF Ask
  <2> QED BY <1>2, <1>3, <1>4, <2>1, OneCallMoves
<1>6. OtherTypes'
  BY InvByParts DEF OtherTypes, Ask, CodeOf
<1> QED BY <1>5, <1>6 DEF ProviderInv, TypeOK, OtherTypes

LEMMA ListTypes ==
  ASSUME ProviderInv, NEW c \in Calls, List(c)
  PROVE  ProviderInv'
<1> DEFINE phase == IF setup.whole \/ ~panel.plugged THEN "probing" ELSE "describing"
<1>1. PICK able \in {setup.whole /\ Answers} \cup IF setup.flaky THEN {FALSE} ELSE {} :
        calls' = [calls EXCEPT ![c] = [Into(c, phase) EXCEPT !.sure = panel.plugged, !.able = able]]
  BY DEF List
<1>2. phase \in {"probing", "describing"}
  OBVIOUS
<1> HIDE DEF phase
<1> DEFINE call == [Into(c, phase) EXCEPT !.sure = panel.plugged, !.able = able]
<1>3. /\ Into(c, phase) \in Call /\ Fits(ListedPower, Into(c, phase))
      /\ Into(c, phase).phase = phase
  <2>1. calls[c].phase # "ended"
    BY DEF List
  <2>2. Into(c, phase).phase = phase
    <3>1. calls[c] \in Call
      BY <2>1, UnderWay
    <3> QED BY <3>1 DEF Into, Call
  <2> QED BY <1>2, <2>1, <2>2, IntoFits
<1>4. able \in BOOLEAN /\ panel.plugged \in BOOLEAN
  BY DEF ProviderInv, TypeOK, Panel, Answers
<1>5. /\ call \in Call /\ call.goal = Into(c, phase).goal /\ call.id = Into(c, phase).id
      /\ call.phase = phase
  <2> DEFINE r == Into(c, phase)
             sure == panel.plugged
             next == [r EXCEPT !.sure = sure, !.able = able]
  <2>1. r \in Call /\ sure \in BOOLEAN /\ able \in BOOLEAN
    BY <1>3, <1>4
  <2>2. r.phase = phase
    BY <1>3
  <2> HIDE DEF r, sure
  <2>3. next \in Call /\ next.goal = r.goal /\ next.id = r.id /\ next.phase = r.phase
    <3> DEFINE it == next
    <3>1. it = [r EXCEPT !.sure = sure, !.able = able]
      OBVIOUS
    <3> HIDE DEF it, next
    <3>2. it \in Call /\ it.goal = r.goal /\ it.id = r.id /\ it.phase = r.phase
      BY <2>1, <3>1, CallLearns
    <3> QED BY <3>2 DEF it
  <2> QED BY <2>2, <2>3 DEF r, sure
<1>6. Fits(ListedPower, call)
  <2> HIDE DEF call
  <2>1. Into(c, phase) # NoCall
    BY <1>2, <1>3 DEF NoCall
  <2> QED BY <1>2, <1>3, <1>5, <2>1 DEF Fits
<1>7. /\ calls' = [calls EXCEPT ![c] = call]
      /\ UNCHANGED <<setup, panel, replyTo, known, extras, sweeps, completed, issued, touches>>
  BY <1>1 DEF List
<1> HIDE DEF call
<1> QED BY <1>5, <1>6, <1>7, CallMovesAlone

-----------------------------------------------------------------------------
(* Answers of the bridge *)

(* What a call is for does not depend on what it has learned. *)
SameCall(r, s) == r \in Call /\ r.goal = s.goal /\ r.id = s.id /\ r.phase = s.phase

LEMMA MarksAreNotGoals ==
  ASSUME NEW r \in Call, NEW one \in BOOLEAN, NEW two \in BOOLEAN, NEW three \in BOOLEAN
  PROVE  /\ SameCall([r EXCEPT !.able = one], r)
         /\ SameCall([r EXCEPT !.current = one], r)
         /\ SameCall([r EXCEPT !.sure = one], r)
         /\ SameCall([r EXCEPT !.sure = one, !.able = two, !.current = three], r)
<1>1. SameCall([r EXCEPT !.able = one], r)
  BY DEF SameCall, Call
<1>2. SameCall([r EXCEPT !.current = one], r)
  BY DEF SameCall, Call
<1>3. SameCall([r EXCEPT !.sure = one], r)
  BY DEF SameCall, Call
<1>4. SameCall([r EXCEPT !.sure = one, !.able = two, !.current = three], r)
  <2> DEFINE s == [r EXCEPT !.sure = one]
             a == [s EXCEPT !.able = two]
             k == [a EXCEPT !.current = three]
  <2>1. SameCall(s, r)
    BY DEF SameCall, Call
  <2> HIDE DEF s
  <2>2. SameCall(a, s)
    BY <2>1 DEF SameCall, Call
  <2> HIDE DEF a
  <2>3. SameCall(k, a)
    BY <2>2 DEF SameCall, Call
  <2>4. k = [r EXCEPT !.sure = one, !.able = two, !.current = three]
    BY DEF k, a, s
  <2> HIDE DEF k
  <2> QED BY <2>1, <2>2, <2>3, <2>4 DEF SameCall
<1> QED BY <1>1, <1>2, <1>3, <1>4

Onward(r, phase) == [r EXCEPT !.phase = phase, !.asked = FALSE]

LEMMA GoesOn ==
  ASSUME NEW r \in Call,
         NEW phase \in {"listing", "describing", "probing", "sweeping", "brightness", "power",
                        "ranging", "writing", "verifying", "confirming"}
  PROVE  /\ Onward(r, phase) \in Call
         /\ Onward(r, phase).goal = r.goal
         /\ Onward(r, phase).id = r.id
         /\ Onward(r, phase).phase = phase
<1> DEFINE p == [r EXCEPT !.phase = phase]
           s == [p EXCEPT !.asked = FALSE]
<1>1. p \in Call /\ p.goal = r.goal /\ p.id = r.id /\ p.phase = phase
  BY DEF Call
<1> HIDE DEF p
<1>2. s \in Call /\ s.goal = p.goal /\ s.id = p.id /\ s.phase = p.phase
  BY <1>1 DEF Call
<1>3. s = Onward(r, phase)
  BY DEF s, p, Onward
<1> HIDE DEF s
<1> QED BY <1>1, <1>2, <1>3

LEMMA IntoIsOnward ==
  \A c \in Calls : \A phase : Into(c, phase) = Onward(calls[c], phase)
BY DEF Into, Onward

(* So a call suits any phase that its goal suits. *)
LEMMA FitsAgain ==
  ASSUME ProviderInv, NEW c \in Calls, calls[c].phase # "ended",
         NEW phase \in {"listing", "describing", "probing", "sweeping", "brightness", "power",
                        "ranging", "writing", "verifying", "confirming"},
         phase \in {"ranging", "confirming"} => calls[c].goal \in Goals /\ calls[c].goal.kind = "brightness",
         phase = "verifying" => calls[c].goal \in Goals /\ calls[c].goal.kind = "input",
         phase = "writing" => /\ calls[c].goal \in Goals
                              /\ calls[c].goal.kind = "power" =>
                                   ResolvePower(ListedPower, calls[c].goal.value) # Unsupported,
         NEW r, SameCall(r, Into(c, phase))
  PROVE  r \in Call /\ Fits(ListedPower, r)
<1>1. calls[c] \in Call /\ Fits(ListedPower, calls[c]) /\ calls[c] # NoCall
  BY UnderWay
<1>2. /\ Into(c, phase).goal = calls[c].goal /\ Into(c, phase).id = calls[c].id
      /\ Into(c, phase).phase = phase
  BY <1>1, GoesOn, IntoIsOnward
<1>3. r \in Call /\ r.goal = calls[c].goal /\ r.id = calls[c].id /\ r.phase = phase
  BY <1>2 DEF SameCall
<1> QED BY <1>1, <1>3 DEF Fits

LEMMA SameAsInto ==
  ASSUME ProviderInv, NEW c \in Calls, calls[c].phase # "ended",
         NEW phase \in {"listing", "describing", "probing", "sweeping", "brightness", "power",
                        "ranging", "writing", "verifying", "confirming"}
  PROVE  Into(c, phase) \in Call /\ SameCall(Into(c, phase), Into(c, phase))
<1>1. calls[c] \in Call
  BY UnderWay
<1>2. Into(c, phase) \in Call
  BY <1>1, GoesOn, IntoIsOnward
<1> QED BY <1>2 DEF SameCall

LEMMA RepliedTypes ==
  ASSUME ProviderInv, NEW c \in Calls, NEW ok \in BOOLEAN, Replied(c, ok)
  PROVE  /\ UNCHANGED <<setup, panel, issued, touches>>
         /\ replyTo' \in {"input", "brightness", "power", "capabilities", None}
BY DEF Replied, ProviderInv, TypeOK

(* What is left to say of an answer: the monitor, the flags, the cache and the calls. *)
LEMMA ReplyKeeps ==
  ASSUME ProviderInv, NEW c \in Calls, NEW ok \in BOOLEAN, Replied(c, ok),
         known' \in Known \cup {None}, extras' \in BOOLEAN, sweeps' \in 0..ExtraReadEvery - 1,
         completed' \subseteq Ids,
         calls' \in [Calls -> Call \cup {NoCall}] /\ CallsFit'
  PROVE  ProviderInv'
<1>1. /\ UNCHANGED <<setup, panel, issued, touches>>
      /\ replyTo' \in {"input", "brightness", "power", "capabilities", None}
  BY RepliedTypes
<1> QED BY <1>1 DEF ProviderInv, TypeOK

LEMMA NotedTypes ==
  ASSUME ProviderInv, NEW c \in Calls
  PROVE  /\ \A b \in Levels \cup {None} : Noted(c, "level", b) \in Known \cup {None}
         /\ \A p \in Powers \cup {"unknown"} : Noted(c, "power", p) \in Known \cup {None}
<1>1. known \in Known \cup {None}
  BY DEF ProviderInv, TypeOK
<1>2. ASSUME known # None, NEW b \in Levels \cup {None} PROVE [known EXCEPT !["level"] = b] \in Known
  BY <1>1, <1>2 DEF Known
<1>3. ASSUME known # None, NEW p \in Powers \cup {"unknown"} PROVE [known EXCEPT !["power"] = p] \in Known
  BY <1>1, <1>3 DEF Known
<1> QED BY <1>1, <1>2, <1>3 DEF Noted

LEMMA DescribeTypes ==
  ASSUME ProviderInv, NEW c \in Calls, NEW ok \in BOOLEAN, Describe(c, ok)
  PROVE  ProviderInv'
<1>1. PICK whole \in BOOLEAN : calls' = [calls EXCEPT ![c] = [Into(c, "probing") EXCEPT !.able = ok /\ whole]]
  BY DEF Describe
<1>2. calls[c].phase # "ended" /\ Replied(c, ok) /\ UNCHANGED <<known, extras, sweeps, completed>>
  BY DEF Describe
<1>3. Into(c, "probing") \in Call
  BY <1>2, SameAsInto
<1> DEFINE able == ok /\ whole
           r == [Into(c, "probing") EXCEPT !.able = able]
<1>4. able \in BOOLEAN
  OBVIOUS
<1> HIDE DEF able
<1>5. SameCall(r, Into(c, "probing"))
  BY <1>3, <1>4, MarksAreNotGoals
<1>6. calls' = [calls EXCEPT ![c] = r]
  BY <1>1 DEF able
<1> HIDE DEF r
<1>7. r \in Call /\ Fits(ListedPower, r)
  BY <1>2, <1>5, FitsAgain
<1>8. calls' \in [Calls -> Call \cup {NoCall}] /\ CallsFit'
  BY <1>2, <1>6, <1>7, RepliedTypes, OneCallMoves
<1> QED BY <1>2, <1>8, ReplyKeeps DEF ProviderInv, TypeOK

LEMMA ProbeTypes ==
  ASSUME ProviderInv, NEW c \in Calls, NEW ok \in BOOLEAN, Probe(c, ok)
  PROVE  ProviderInv'
<1> DEFINE next == PhaseOf(calls[c].goal, Learned(c))
           learned == Learned(c) # None
           r == [Into(c, next) EXCEPT !.sure = FALSE, !.able = FALSE, !.current = learned]
           Mine == IF next = "ended" THEN NoCall ELSE r
           Of(other) == IF other # c
                        THEN IF Idle(other) THEN NoCall ELSE [calls[other] EXCEPT !.current = FALSE]
                        ELSE Mine
<1>1. /\ calls[c].phase # "ended" /\ Replied(c, ok) /\ UNCHANGED <<extras, sweeps, completed>>
      /\ known' = Learned(c)
  BY DEF Probe
<1>2. calls' = [other \in Calls |-> Of(other)]
  BY DEF Probe
<1>3. calls[c] \in Call /\ Fits(ListedPower, calls[c])
  BY <1>1, UnderWay
<1>4. known' \in Known \cup {None}
  <2>1. known \in Known \cup {None}
    BY DEF ProviderInv, TypeOK
  <2>2. ASSUME calls[c].sure PROVE Learned(c) \in Known
    <3>1. calls[c].able \in BOOLEAN
      BY <1>3 DEF Call
    <3>2. CASE known = None
      BY <2>2, <3>1, <3>2 DEF Learned, Known
    <3>3. CASE known # None
      <4>1. known.level \in Levels \cup {None} /\ known.power \in Powers \cup {"unknown"}
        BY <2>1, <3>3 DEF Known
      <4> QED BY <2>2, <3>1, <3>3, <4>1 DEF Learned, Known
    <3> QED BY <3>2, <3>3
  <2> QED BY <1>1, <2>2 DEF Learned
<1>5. Mine \in Call \cup {NoCall} /\ Fits(ListedPower, Mine)
  <2>1. CASE next = "ended"
    BY <2>1, Ended
  <2>2. CASE next # "ended"
    <3>1. /\ next \in {"sweeping", "ranging", "writing"}
          /\ next = "ranging" => calls[c].goal \in Goals /\ calls[c].goal.kind = "brightness"
          /\ next = "writing" => /\ calls[c].goal \in Goals
                                 /\ calls[c].goal.kind = "power" =>
                                      ResolvePower(ListedPower, calls[c].goal.value) # Unsupported
      <4>1. calls[c].goal \in Goals \cup {Observation, Discovery}
        BY <1>3 DEF Call
      <4> DEFINE g == calls[c].goal
                 k == Learned(c)
      <4>2. g \in Goals \cup {Observation, Discovery} /\ next = PhaseOf(g, k)
        BY <4>1
      <4> HIDE DEF g, k, next
      <4>3. /\ next \in {"sweeping", "ranging", "writing", "ended"}
            /\ next = "ranging" => g \in Goals /\ g.kind = "brightness"
            /\ next = "writing" => /\ g \in Goals
                                   /\ g.kind = "power" => ResolvePower(ListedPower, g.value) # Unsupported
        BY <4>2, PhaseFits
      <4> QED BY <2>2, <4>3 DEF g
    <3>2. learned \in BOOLEAN
      OBVIOUS
    <3> HIDE DEF next, learned
    <3>3. Into(c, next) \in Call
      BY <1>1, <3>1, SameAsInto
    <3>4. SameCall(r, Into(c, next))
      BY <3>2, <3>3, MarksAreNotGoals
    <3> HIDE DEF r
    <3>5. r \in Call /\ Fits(ListedPower, r)
      BY <1>1, <3>1, <3>4, FitsAgain
    <3> QED BY <2>2, <3>5
  <2> QED BY <2>1, <2>2
<1>6. ASSUME NEW other \in Calls
      PROVE  Of(other) \in Call \cup {NoCall} /\ Fits(ListedPower, Of(other))
  <2>1. CASE other = c
    <3> HIDE DEF Mine
    <3> QED BY <1>5, <2>1
  <2>2. CASE other # c /\ Idle(other)
    BY <2>2, Ended
  <2>3. CASE other # c /\ ~Idle(other)
    <3> DEFINE was == calls[other]
               now == [was EXCEPT !.current = FALSE]
    <3>1. was \in Call /\ was # NoCall /\ Fits(ListedPower, was)
      BY <2>3 DEF ProviderInv, TypeOK, CallsFit, Idle
    <3>2. Of(other) = now
      BY <2>3
    <3> HIDE DEF was
    <3>3. SameCall(now, was)
      BY <3>1, MarksAreNotGoals
    <3> HIDE DEF now
    <3>4. now \in Call /\ Fits(ListedPower, now)
      BY <3>1, <3>3 DEF SameCall, Fits
    <3> HIDE DEF Of
    <3> QED BY <3>2, <3>4
  <2> QED BY <2>1, <2>2, <2>3
<1> HIDE DEF Of
<1>7. ListedPower' = ListedPower
  BY <1>1, RepliedTypes DEF ListedPower
<1>8. calls' \in [Calls -> Call \cup {NoCall}] /\ CallsFit'
  <2>1. calls' \in [Calls -> Call \cup {NoCall}]
    BY <1>2, <1>6
  <2>2. \A other \in Calls : Fits(ListedPower, calls'[other])
    BY <1>2, <1>6
  <2> QED BY <1>7, <2>1, <2>2 DEF CallsFit
<1> QED BY <1>1, <1>4, <1>8, ReplyKeeps DEF ProviderInv, TypeOK

LEMMA SweepTypes ==
  ASSUME ProviderInv, NEW c \in Calls, NEW ok \in BOOLEAN, Sweep(c, ok)
  PROVE  ProviderInv'
<1> DEFINE r == [Into(c, "brightness") EXCEPT !.current = TRUE]
<1>1. /\ calls[c].phase # "ended" /\ Replied(c, ok) /\ UNCHANGED <<known, completed>>
      /\ extras' = FALSE /\ sweeps' = (sweeps + 1) % ExtraReadEvery
      /\ calls' = [calls EXCEPT ![c] = r] \/ calls' = [calls EXCEPT ![c] = NoCall]
  BY DEF Sweep, End
<1>2. sweeps' \in 0..ExtraReadEvery - 1
  <2>1. sweeps \in Nat /\ ExtraReadEvery \in Nat \ {0}
    BY ProviderAssumption DEF ProviderInv, TypeOK
  <2> QED BY <1>1, <2>1
<1>3. Into(c, "brightness") \in Call
  BY <1>1, SameAsInto
<1>4. SameCall(r, Into(c, "brightness"))
  BY <1>3, MarksAreNotGoals
<1> HIDE DEF r
<1>5. r \in Call /\ Fits(ListedPower, r)
  BY <1>1, <1>4, FitsAgain
<1>6. calls' \in [Calls -> Call \cup {NoCall}] /\ CallsFit'
  BY <1>1, <1>5, RepliedTypes, OneCallMoves, Ended
<1> QED BY <1>1, <1>2, <1>6, ReplyKeeps DEF ProviderInv, TypeOK

LEMMA ReadTypes ==
  ASSUME ProviderInv, NEW c \in Calls, NEW ok \in BOOLEAN, ReadBrightness(c, ok) \/ ReadPower(c, ok)
  PROVE  ProviderInv'
<1>1. /\ calls[c].phase # "ended" /\ Replied(c, ok) /\ UNCHANGED <<extras, sweeps, completed>>
      /\ calls' = [calls EXCEPT ![c] = Into(c, "power")] \/ calls' = [calls EXCEPT ![c] = NoCall]
  BY DEF ReadBrightness, ReadPower, Go, End
<1>2. known' \in Known \cup {None}
  <2>1. panel.level \in Levels /\ panel.power \in Powers
    BY DEF ProviderInv, TypeOK, Panel
  <2>2. known' = Noted(c, "level", IF ok THEN panel.level ELSE None) \/
        known' = Noted(c, "power", IF ok THEN panel.power ELSE "unknown")
    BY DEF ReadBrightness, ReadPower
  <2> QED BY <2>1, <2>2, NotedTypes
<1>3. Into(c, "power") \in Call /\ Fits(ListedPower, Into(c, "power"))
  BY <1>1, SameAsInto, FitsAgain
<1>4. calls' \in [Calls -> Call \cup {NoCall}] /\ CallsFit'
  <2> HIDE DEF Into
  <2> QED BY <1>1, <1>3, RepliedTypes, OneCallMoves, Ended
<1> QED BY <1>1, <1>2, <1>4, ReplyKeeps DEF ProviderInv, TypeOK

LEMMA ReadRangeTypes ==
  ASSUME ProviderInv, NEW c \in Calls, NEW ok \in BOOLEAN, ReadRange(c, ok)
  PROVE  ProviderInv'
<1> DEFINE r == [Into(c, "writing") EXCEPT !.sure = ok]
<1>1. /\ calls[c].phase = "ranging" /\ Replied(c, ok) /\ UNCHANGED <<known, extras, sweeps, completed>>
      /\ calls' = [calls EXCEPT ![c] = r]
  BY DEF ReadRange
<1>2. calls[c].goal \in Goals /\ calls[c].goal.kind = "brightness"
  BY <1>1, UnderWay DEF Fits
<1>3. Into(c, "writing") \in Call
  BY <1>1, SameAsInto
<1>4. SameCall(r, Into(c, "writing"))
  BY <1>3, MarksAreNotGoals
<1> HIDE DEF r
<1>5. r \in Call /\ Fits(ListedPower, r)
  BY <1>1, <1>2, <1>4, FitsAgain
<1>6. calls' \in [Calls -> Call \cup {NoCall}] /\ CallsFit'
  BY <1>1, <1>5, RepliedTypes, OneCallMoves
<1> QED BY <1>1, <1>6, ReplyKeeps DEF ProviderInv, TypeOK

LEMMA ConfirmTypes ==
  ASSUME ProviderInv, NEW c \in Calls, NEW ok \in BOOLEAN, Confirm(c, ok)
  PROVE  ProviderInv'
<1>1. /\ calls[c].phase = "confirming" /\ Replied(c, ok) /\ extras' = TRUE /\ UNCHANGED sweeps
      /\ calls' = [calls EXCEPT ![c] = NoCall]
      /\ completed' = completed \/ completed' = completed \cup {calls[c].id}
      /\ known' = Noted(c, "level", IF ok THEN panel.level ELSE None)
  BY DEF Confirm, End, Succeeds
<1>2. calls[c].id \in Ids
  BY <1>1, UnderWay DEF Fits
<1>3. completed' \subseteq Ids
  BY <1>1, <1>2 DEF ProviderInv, TypeOK
<1>4. known' \in Known \cup {None}
  <2>1. panel.level \in Levels
    BY DEF ProviderInv, TypeOK, Panel
  <2> QED BY <1>1, <2>1, NotedTypes
<1>5. calls' \in [Calls -> Call \cup {NoCall}] /\ CallsFit'
  BY <1>1, RepliedTypes, OneCallMoves, Ended
<1> QED BY <1>1, <1>3, <1>4, <1>5, ReplyKeeps DEF ProviderInv, TypeOK

LEMMA VerifyTypes ==
  ASSUME ProviderInv, NEW c \in Calls, NEW ok \in BOOLEAN, Verify(c, ok)
  PROVE  ProviderInv'
<1>1. /\ calls[c].phase = "verifying" /\ Replied(c, ok) /\ UNCHANGED <<known, extras, sweeps>>
      /\ calls' = [calls EXCEPT ![c] = Into(c, "verifying")] \/ calls' = [calls EXCEPT ![c] = NoCall]
      /\ completed' = completed \/ completed' = completed \cup {calls[c].id}
  BY DEF Verify, End, Go, Succeeds
<1>2. calls[c].id \in Ids /\ calls[c].goal \in Goals /\ calls[c].goal.kind = "input"
  BY <1>1, UnderWay DEF Fits
<1>3. completed' \subseteq Ids
  BY <1>1, <1>2 DEF ProviderInv, TypeOK
<1>4. Into(c, "verifying") \in Call /\ Fits(ListedPower, Into(c, "verifying"))
  BY <1>1, <1>2, SameAsInto, FitsAgain
<1>5. calls' \in [Calls -> Call \cup {NoCall}] /\ CallsFit'
  <2> HIDE DEF Into
  <2> QED BY <1>1, <1>4, RepliedTypes, OneCallMoves, Ended
<1> QED BY <1>1, <1>3, <1>5, ReplyKeeps DEF ProviderInv, TypeOK

LEMMA ReplyTypes ==
  ASSUME ProviderInv, NEW c \in Calls, NEW ok \in BOOLEAN, Reply(c, ok)
  PROVE  ProviderInv'
BY DescribeTypes, ProbeTypes, SweepTypes, ReadTypes, ReadRangeTypes, ConfirmTypes, VerifyTypes DEF Reply

-----------------------------------------------------------------------------
(* Writes *)

LEMMA WrittenTypes ==
  ASSUME ProviderInv, NEW c \in Calls, calls[c].phase = "writing", NEW p \in Written(c)
  PROVE  p \in Panel
<1>1. /\ calls[c].goal \in Goals
      /\ Kind(c) = "power" => ResolvePower(ListedPower, calls[c].goal.value) # Unsupported
  BY UnderWay DEF Fits, Kind
<1>2. panel \in Panel
  BY DEF ProviderInv, TypeOK
<1>3. Kind(c) \in {"input", "brightness", "power"}
  BY <1>1, GoalsApart DEF Kind
<1>4. CASE Kind(c) = "input"
  <2>1. calls[c].goal.value \in Inputs
    BY <1>1, <1>4, GoalsApart DEF Kind
  <2>2. p \in {panel, [panel EXCEPT !.heading = calls[c].goal.value]}
    BY <1>4 DEF Written
  <2> QED BY <1>2, <2>1, <2>2 DEF Panel
<1>5. CASE Kind(c) = "brightness"
  <2>1. calls[c].goal.value \in Levels
    BY <1>1, <1>5, GoalsApart DEF Kind
  <2>2. PICK b \in Levels : p = [panel EXCEPT !.level = b]
    BY <1>5, <2>1 DEF Written
  <2> QED BY <1>2, <2>2 DEF Panel
<1>6. CASE Kind(c) = "power"
  <2> DEFINE state == DescribePower(ResolvePower(ListedPower, calls[c].goal.value))
  <2>1. state \in Powers
    <3>1. calls[c].goal.value \in Powers
      BY <1>1, <1>6, GoalsApart DEF Kind
    <3> QED BY <1>1, <1>6, <3>1, PowerIsNamed
  <2>2. p = [panel EXCEPT !.power = state]
    BY <1>6 DEF Written
  <2> HIDE DEF state
  <2> QED BY <1>2, <2>1, <2>2 DEF Panel
<1> QED BY <1>3, <1>4, <1>5, <1>6

LEMMA WriteTypes ==
  ASSUME ProviderInv, NEW c \in Calls, Write(c)
  PROVE  ProviderInv'
<1>1. /\ calls[c].phase = "writing" /\ panel' \in Written(c) /\ replyTo' \in {replyTo, None}
      /\ UNCHANGED <<setup, sweeps, issued, touches>>
  BY DEF Write
<1>2. /\ calls[c].id \in Ids /\ calls[c].goal \in Goals
      /\ Kind(c) \in {"input", "brightness", "power"}
      /\ Kind(c) = "power" => calls[c].goal.value \in Powers
  BY <1>1, UnderWay, GoalsApart DEF Fits, Kind
<1>3. panel' \in Panel
  BY <1>1, WrittenTypes
<1>4. /\ known' \in Known \cup {None} /\ extras' \in BOOLEAN /\ completed' \subseteq Ids
      /\ calls' \in [Calls -> Call \cup {NoCall}] /\ CallsFit'
  <2>1. CASE Kind(c) = "power"
    <3>1. /\ known' = Noted(c, "power", calls[c].goal.value) /\ extras' = TRUE
          /\ completed' = completed \cup {calls[c].id} /\ calls' = [calls EXCEPT ![c] = NoCall]
      BY <2>1 DEF Write, Succeeds, End
    <3>2. known' \in Known \cup {None}
      BY <1>2, <2>1, <3>1, NotedTypes
    <3>3. completed' \subseteq Ids
      BY <1>2, <3>1 DEF ProviderInv, TypeOK
    <3>4. calls' \in [Calls -> Call \cup {NoCall}] /\ CallsFit'
      BY <1>1, <3>1, Ended, OneCallMoves
    <3> QED BY <3>1, <3>2, <3>3, <3>4
  <2>2. CASE Kind(c) # "power"
    <3> DEFINE phase == IF Kind(c) = "input" THEN "verifying" ELSE "confirming"
    <3>1. UNCHANGED <<known, extras, completed>> /\ calls' = [calls EXCEPT ![c] = Into(c, phase)]
      BY <1>2, <2>2 DEF Write, Go
    <3>2. /\ phase \in {"verifying", "confirming"}
          /\ phase = "verifying" => calls[c].goal.kind = "input"
          /\ phase = "confirming" => calls[c].goal.kind = "brightness"
      BY <1>2, <2>2 DEF Kind
    <3> HIDE DEF phase
    <3>3. Into(c, phase) \in Call /\ Fits(ListedPower, Into(c, phase))
      BY <1>1, <1>2, <3>2, SameAsInto, FitsAgain
    <3>4. calls' \in [Calls -> Call \cup {NoCall}] /\ CallsFit'
      <4> HIDE DEF Into
      <4> QED BY <1>1, <3>1, <3>3, OneCallMoves
    <3> QED BY <3>1, <3>4 DEF ProviderInv, TypeOK
  <2> QED BY <2>1, <2>2
<1> QED BY <1>1, <1>3, <1>4 DEF ProviderInv, TypeOK

LEMMA WriteFailsTypes ==
  ASSUME ProviderInv, NEW c \in Calls, WriteFails(c)
  PROVE  ProviderInv'
<1>1. /\ calls[c].phase = "writing" /\ calls' = [calls EXCEPT ![c] = NoCall]
      /\ panel' = panel \/ panel' \in Written(c)
      /\ UNCHANGED <<setup, replyTo, known, extras, sweeps, completed, issued, touches>>
  BY DEF WriteFails, End
<1>2. panel' \in Panel
  BY <1>1, WrittenTypes DEF ProviderInv, TypeOK
<1>3. calls' \in [Calls -> Call \cup {NoCall}] /\ CallsFit'
  BY <1>1, Ended, OneCallMoves
<1> QED BY <1>1, <1>2, <1>3 DEF ProviderInv, TypeOK

-----------------------------------------------------------------------------
LEMMA StepKeepsProvider ==
  ASSUME ProviderInv, [Next]_vars
  PROVE  ProviderInv'
<1>1. ASSUME NEW c \in Calls, Works(c) \/ Deadline(c) PROVE ProviderInv'
  BY <1>1, AskTypes, ListTypes, EndTypes, WriteTypes, WriteFailsTypes, ReplyTypes DEF Works
<1>2. CASE UNCHANGED vars
  <2>1. calls' \in [Calls -> Call \cup {NoCall}] /\ CallsFit'
    BY <1>2, CallsStay DEF vars
  <2> QED BY <1>2, <2>1 DEF vars, ProviderInv, TypeOK
<1> QED BY <1>1, <1>2, BeginTypes, DisplayTypes DEF Next

LEMMA InitHasTypes == Init => ProviderInv
<1> SUFFICES ASSUME Init PROVE ProviderInv
  OBVIOUS
<1>1. panel \in Panel
  BY DEF Init
<1>2. calls \in [Calls -> Call \cup {NoCall}]
  BY DEF Init
<1>3. CallsFit
  BY Ended DEF Init, CallsFit
<1>4. 0 \in 0..ExtraReadEvery - 1 /\ 0 \in 0..MaxIssues /\ 0 \in 0..MaxTouches
  BY ProviderAssumption
<1> QED BY <1>1, <1>2, <1>3, <1>4 DEF Init, ProviderInv, TypeOK

(***************************************************************************)
(* TypeOK: whatever calls overlap and whatever the bridge fails, the       *)
(* provider's monitor, flags, cache and calls keep their types.            *)
(***************************************************************************)
THEOREM ProviderKeepsTypes == Spec => []TypeOK
<1>1. ProviderInv => TypeOK
  BY DEF ProviderInv
<1> QED BY <1>1, InitHasTypes, StepKeepsProvider, PTL DEF Spec

(***************************************************************************)
(* SuccessIsEarned: on a bridge that answers every request, and as a       *)
(* whole, a switch is only reported done when its target was read, or the  *)
(* display does not answer on our cable any more: for any number of calls  *)
(* under way, and of ids, also ids that several of them use.               *)
(***************************************************************************)
THEOREM SwitchesAreEarned == Spec => SuccessIsEarned
<1> DEFINE Earns == setup.whole /\ ~setup.flaky => \A c \in Calls : Earned(c)
<1>1. ASSUME ProviderInv, Next PROVE Earns
  <2> SUFFICES ASSUME setup.whole, ~setup.flaky, NEW c \in Calls,
                      calls[c].phase = "verifying", Idle(c)', calls[c].id \in completed' \ completed
               PROVE  panel.input = calls[c].goal.value \/ ~Answers
    BY DEF Earned
  <2>1. calls[c] \in Call /\ calls[c] # NoCall
    BY <1>1, UnderWay
  <2>2. calls'[c] = NoCall
    BY DEF Idle
  <2>3. PICK by \in Calls : \/ \E ok \in BOOLEAN : Confirm(by, ok) \/ Verify(by, ok)
                            \/ Write(by)
    <3>1. completed' # completed
      OBVIOUS
    <3>2. ASSUME NEW by \in Calls, Works(by) \/ Deadline(by)
          PROVE  (\E ok \in BOOLEAN : Confirm(by, ok) \/ Verify(by, ok)) \/ Write(by)
      BY <3>1, <3>2 DEF Works, Deadline, Ask, List, ListFails, SweepFails, WriteFails, Reply, Describe,
                        Probe, Sweep, ReadBrightness, ReadPower, ReadRange
    <3>3. ~PanelSwitches /\ ~Touch /\ ~\E o \in Observers : Observe(o)
      BY <3>1 DEF PanelSwitches, Touch, Observe
    <3>4. ~\E o \in Callers : Discover(o) \/ \E id \in Ids, goal \in Wanted : Command(o, id, goal)
      BY <3>1 DEF Discover, Command
    <3> QED BY <1>1, <3>2, <3>3, <3>4 DEF Next
  <2>4. \A call : calls' = [calls EXCEPT ![by] = call] => by = c
    BY <1>1, <2>1, <2>2 DEF ProviderInv, TypeOK
  <2>5. by = c
    BY <2>3, <2>4 DEF Confirm, Verify, Write, End, Go
  <2>6. PICK ok \in BOOLEAN : Verify(c, ok)
    BY <2>3, <2>5 DEF Confirm, Write
  <2>7. Confirms(c, ok) /\ Replied(c, ok)
    <3>1. ~Confirms(c, ok) => UNCHANGED completed
      BY <2>6 DEF Verify
    <3> QED BY <2>6, <3>1 DEF Verify
  <2> QED BY <2>7 DEF Confirms, Replied, GoodReply
<1>2. ASSUME ProviderInv, [Next]_vars PROVE [Earns]_vars
  BY <1>1, <1>2
<1> QED BY <1>2, InitHasTypes, StepKeepsProvider, PTL DEF Spec, SuccessIsEarned

-----------------------------------------------------------------------------
(* What a display says of itself *)

Before == {pair \in Nat \X Nat : pair[1] < pair[2]}

(* Of numbers there is always a least one: what is so of none, and of no first, is so of all. *)
LEMMA SmallestNumber ==
  ASSUME NEW T, T \subseteq Nat, T # {}
  PROVE  \E n \in T : \A m \in T : n <= m
<1>1. IsWellFoundedOn(Before, Nat)
  BY NatLessThanWellFounded DEF OpToRel, Before
<1>2. PICK n \in T : \A m \in T : <<m, n>> \notin Before
  BY <1>1, WFMin
<1>3. ASSUME NEW m \in T PROVE n <= m
  <2>1. m \in Nat /\ n \in Nat /\ ~(m < n)
    BY <1>2 DEF Before
  <2> QED BY <2>1
<1> QED BY <1>3

(* One exchange: the string and whether to go on, of what they were before it. *)
Exchanged(before, fragments, maxLength) ==
  LET data == fragments[Len(before.text)]
  IN  CASE ~before.more -> before
        [] before.more /\ data = Broken -> [text |-> Broken, more |-> FALSE]
        [] before.more /\ data = <<>> -> [before EXCEPT !.more = FALSE]
        [] OTHER ->
             IF Len(before.text) + Len(data) > maxLength
             THEN [text |-> Broken, more |-> FALSE]
             ELSE [text |-> before.text \o data, more |-> TRUE]

AfterRound(g, fragments, maxLength, n) ==
  IF n = 0 THEN [text |-> <<>>, more |-> TRUE] ELSE Exchanged(g[n - 1], fragments, maxLength)

Rounds(fragments, maxLength, maxRounds) ==
  CHOOSE g : g = [n \in 0..maxRounds |-> AfterRound(g, fragments, maxLength, n)]

LEMMA ReassembledIs ==
  ASSUME NEW fragments, NEW maxLength \in Nat, NEW maxRounds \in Nat
  PROVE  Reassembled(fragments, maxLength, maxRounds) =
           Rounds(fragments, maxLength, maxRounds)[maxRounds].text
BY DEF Reassembled, Rounds, AfterRound, Exchanged

(* The loop is a function of the number of exchanges. *)
LEMMA RoundsExist ==
  ASSUME NEW fragments, NEW maxLength \in Nat, NEW maxRounds \in Nat
  PROVE  LET g == Rounds(fragments, maxLength, maxRounds)
         IN  g = [n \in 0..maxRounds |-> AfterRound(g, fragments, maxLength, n)]
<1> DEFINE Step(g, n) == AfterRound(g, fragments, maxLength, n)
           Upto(g, k) == /\ g = [n \in 0..maxRounds |-> g[n]]
                         /\ \A n \in 0..k : g[n] = Step(g, n)
           Bad == {k \in 0..maxRounds : ~\E g : Upto(g, k)}
<1>1. 0 \notin Bad
  <2> DEFINE g == [n \in 0..maxRounds |-> [text |-> <<>>, more |-> TRUE]]
  <2>1. \A n \in 0..0 : n = 0 /\ n \in 0..maxRounds
    OBVIOUS
  <2>2. Upto(g, 0)
    BY <2>1 DEF AfterRound
  <2> HIDE DEF Upto
  <2> QED BY <2>2
<1>2. ASSUME NEW k \in 0..maxRounds, k # maxRounds, k \notin Bad PROVE k + 1 \notin Bad
  <2>1. PICK g : Upto(g, k)
    BY <1>2
  <2> DEFINE h == [n \in 0..maxRounds |-> IF n = k + 1 THEN Step(g, n) ELSE g[n]]
  <2>2. h = [n \in 0..maxRounds |-> h[n]]
    OBVIOUS
  <2>3. ASSUME NEW n \in 0..(k + 1) PROVE h[n] = Step(h, n)
    <3>1. k \in Nat /\ n \in 0..maxRounds
      BY <1>2
    <3>2. n # 0 => n - 1 \in 0..k /\ n - 1 \in 0..maxRounds /\ n - 1 # k + 1
      BY <3>1
    <3>3. n # 0 => h[n - 1] = g[n - 1]
      BY <3>2
    <3>4. Step(h, n) = Step(g, n)
      <4> HIDE DEF h
      <4> QED BY <3>3 DEF AfterRound
    <3>5. h[n] = Step(g, n)
      <4>1. CASE n = k + 1
        BY <3>1, <4>1
      <4>2. CASE n # k + 1
        <5>1. n \in 0..k
          BY <3>1, <4>2
        <5>2. h[n] = g[n]
          BY <3>1, <4>2
        <5> QED BY <2>1, <5>1, <5>2
      <4> QED BY <4>1, <4>2
    <3> QED BY <3>4, <3>5
  <2>4. Upto(h, k + 1)
    BY <2>2, <2>3
  <2>5. k + 1 \in 0..maxRounds
    BY <1>2
  <2> HIDE DEF Upto, h
  <2> QED BY <2>4
<1>3. maxRounds \notin Bad
  <2> HIDE DEF Upto
  <2>1. SUFFICES ASSUME Bad # {} PROVE FALSE
    OBVIOUS
  <2>2. Bad \subseteq 0..maxRounds /\ Bad \subseteq Nat
    OBVIOUS
  <2> HIDE DEF Bad
  <2>3. PICK k \in Bad : \A m \in Bad : k <= m
    BY <2>1, <2>2, SmallestNumber
  <2>4. k \in 0..maxRounds /\ k # 0
    BY <1>1, <2>2, <2>3
  <2>5. k - 1 \in 0..maxRounds /\ k - 1 # maxRounds /\ k - 1 \notin Bad /\ (k - 1) + 1 = k
    BY <2>3, <2>4
  <2> QED BY <1>2, <2>3, <2>5
<1>4. PICK g : Upto(g, maxRounds)
  <2> HIDE DEF Upto
  <2> QED BY <1>3
<1>5. g = [n \in 0..maxRounds |-> Step(g, n)]
  BY <1>4
<1> QED BY <1>5 DEF Rounds

LEMMA RoundByRound ==
  ASSUME NEW fragments, NEW maxLength \in Nat, NEW maxRounds \in Nat
  PROVE  LET g == Rounds(fragments, maxLength, maxRounds)
         IN  /\ g[0] = [text |-> <<>>, more |-> TRUE]
             /\ \A n \in 0..maxRounds : n # maxRounds =>
                  g[n + 1] = Exchanged(g[n], fragments, maxLength)
<1> DEFINE g == Rounds(fragments, maxLength, maxRounds)
<1>1. g = [n \in 0..maxRounds |-> AfterRound(g, fragments, maxLength, n)]
  BY RoundsExist
<1> HIDE DEF g
<1>2. \A n \in 0..maxRounds : g[n] = AfterRound(g, fragments, maxLength, n)
  BY <1>1
<1>3. g[0] = [text |-> <<>>, more |-> TRUE]
  BY <1>2 DEF AfterRound
<1>4. ASSUME NEW n \in 0..maxRounds, n # maxRounds
      PROVE  g[n + 1] = Exchanged(g[n], fragments, maxLength)
  <2>1. n + 1 \in 0..maxRounds /\ n + 1 # 0 /\ (n + 1) - 1 = n
    BY <1>4
  <2> QED BY <1>2, <2>1 DEF AfterRound
<1> QED BY <1>3, <1>4 DEF g

(* What holds at first and is kept by every exchange holds at the end. *)
LEMMA KeptByRounds ==
  ASSUME NEW fragments, NEW maxLength \in Nat, NEW maxRounds \in Nat, NEW R,
         [text |-> <<>>, more |-> TRUE] \in R[0],
         \A n \in 0..maxRounds : \A r \in R[n] :
           n # maxRounds => Exchanged(r, fragments, maxLength) \in R[n + 1]
  PROVE  Rounds(fragments, maxLength, maxRounds)[maxRounds] \in R[maxRounds]
<1> DEFINE g == Rounds(fragments, maxLength, maxRounds)
           Bad == {n \in 0..maxRounds : g[n] \notin R[n]}
<1>1. /\ g[0] = [text |-> <<>>, more |-> TRUE]
      /\ \A n \in 0..maxRounds : n # maxRounds =>
           g[n + 1] = Exchanged(g[n], fragments, maxLength)
  BY RoundByRound
<1> HIDE DEF g
<1>2. SUFFICES ASSUME Bad # {} PROVE FALSE
  BY DEF g
<1>3. Bad \subseteq Nat
  OBVIOUS
<1>4. PICK k \in Bad : \A m \in Bad : k <= m
  BY <1>2, <1>3, SmallestNumber
<1>5. k # 0 /\ k \in 0..maxRounds
  BY <1>1, <1>4
<1>6. k - 1 \in 0..maxRounds /\ k - 1 # maxRounds /\ k - 1 \notin Bad /\ (k - 1) + 1 = k
  BY <1>4, <1>5
<1>7. g[k - 1] \in R[k - 1]
  BY <1>6
<1>8. g[k] \in R[k]
  BY <1>1, <1>6, <1>7
<1> QED BY <1>4, <1>8

(***************************************************************************)
(* A display that answers each offset with a piece of its text from there  *)
(* on, of the given size at least while there is as much.                  *)
(***************************************************************************)
Honest(fragments, text, size) ==
  \A offset \in 0..Len(text) : \E upTo \in offset..Len(text) :
    /\ fragments[offset] = SubSeq(text, offset + 1, upTo)
    /\ upTo >= offset + size \/ upTo = Len(text)

LEMMA PieceByPiece ==
  ASSUME NEW S, NEW text \in Seq(S), NEW k \in 0..Len(text), NEW upTo \in k..Len(text)
  PROVE  /\ SubSeq(text, 1, k) \in Seq(S) /\ Len(SubSeq(text, 1, k)) = k
         /\ SubSeq(text, k + 1, upTo) \in Seq(S) /\ Len(SubSeq(text, k + 1, upTo)) = upTo - k
         /\ SubSeq(text, 1, k) \o SubSeq(text, k + 1, upTo) = SubSeq(text, 1, upTo)
         /\ SubSeq(text, 1, Len(text)) = text
<1>1. Len(text) \in Nat /\ k \in Nat /\ upTo \in Nat
  BY LenProperties
<1> QED BY <1>1

(***************************************************************************)
(* readCapabilitiesString loses nothing and adds nothing: a text the       *)
(* display gives piece by piece, answering the offset it is asked for, is  *)
(* read whole if the exchanges and the length allowed are enough for it,   *)
(* however it is cut (the number of exchanges is the code's 128, the       *)
(* length its 4096, the pieces what one read holds).                       *)
(***************************************************************************)
THEOREM EveryTextIsRead ==
  ASSUME NEW S, "broken" \notin S, NEW text \in Seq(S), NEW size \in Nat \ {0},
         NEW maxLength \in Nat, NEW maxRounds \in Nat,
         Len(text) <= maxLength, Len(text) <= size * maxRounds,
         NEW fragments, Honest(fragments, text, size)
  PROVE  Reassembled(fragments, maxLength, maxRounds) = text
<1> DEFINE Read(n) == {r \in [text : Seq(S), more : BOOLEAN] : \E k \in 0..Len(text) :
                         /\ r.text = SubSeq(text, 1, k)
                         /\ k = Len(text) \/ (r.more /\ k >= size * n)}
           R == [n \in 0..maxRounds |-> Read(n)]
<1>1. Len(text) \in Nat
  BY LenProperties
<1>2. [text |-> <<>>, more |-> TRUE] \in R[0]
  <2>1. SubSeq(text, 1, 0) = <<>> /\ size * 0 = 0 /\ 0 \in 0..Len(text) /\ <<>> \in Seq(S)
    BY <1>1
  <2>2. [text |-> <<>>, more |-> TRUE] \in Read(0)
    <3> DEFINE r == [text |-> <<>>, more |-> TRUE]
    <3>1. r \in [text : Seq(S), more : BOOLEAN]
      BY <2>1
    <3>2. r.text = SubSeq(text, 1, 0) /\ r.more /\ 0 >= size * 0
      BY <2>1
    <3> HIDE DEF r
    <3> QED BY <2>1, <3>1, <3>2
  <2> HIDE DEF Read
  <2> QED BY <2>2
<1>3. ASSUME NEW n \in 0..maxRounds, NEW r \in R[n], n # maxRounds
      PROVE  Exchanged(r, fragments, maxLength) \in R[n + 1]
  <2> DEFINE e == Exchanged(r, fragments, maxLength)
  <2>1. n \in Nat /\ n + 1 \in 0..maxRounds
    BY <1>3
  <2>2. PICK k \in 0..Len(text) :
          /\ r.text = SubSeq(text, 1, k)
          /\ k = Len(text) \/ (r.more /\ k >= size * n)
    BY <1>3
  <2>3. r \in [text : Seq(S), more : BOOLEAN]
    BY <1>3
  <2>4. Len(r.text) = k
    BY <2>2, PieceByPiece, <1>1
  <2>5. PICK upTo \in k..Len(text) :
          /\ fragments[k] = SubSeq(text, k + 1, upTo)
          /\ upTo >= k + size \/ upTo = Len(text)
    BY DEF Honest
  <2> DEFINE data == SubSeq(text, k + 1, upTo)
  <2>6. data \in Seq(S) /\ Len(data) = upTo - k /\ r.text \o data = SubSeq(text, 1, upTo)
        /\ SubSeq(text, 1, upTo) \in Seq(S)
    BY <2>2, PieceByPiece, <1>1
  <2>7. data # Broken
    <3>1. ASSUME data = Broken PROVE FALSE
      <4>1. Len(data) = 1 /\ data[1] = "broken"
        <5> HIDE DEF data
        <5> QED BY <3>1 DEF Broken
      <4>2. data[1] \in S
        BY <2>6, <4>1, ElementOfSeq
      <4> QED BY <4>1, <4>2
    <3> QED BY <3>1
  <2> HIDE DEF data
  <2>8. CASE ~r.more
    <3>1. e = r /\ k = Len(text)
      BY <2>2, <2>8 DEF Exchanged
    <3>2. e \in Read(n + 1)
      BY <2>2, <2>3, <3>1
    <3> QED BY <2>1, <3>2
  <2>9. CASE r.more /\ data = <<>>
    <3>1. e = [r EXCEPT !.more = FALSE]
      BY <2>4, <2>5, <2>7, <2>9 DEF Exchanged, data
    <3>2. upTo = k
      BY <2>6, <2>9, <1>1
    <3>3. k = Len(text)
      BY <2>5, <3>2, <1>1
    <3>4. e \in [text : Seq(S), more : BOOLEAN] /\ e.text = r.text
      BY <2>3, <3>1
    <3>5. e \in Read(n + 1)
      BY <2>2, <3>3, <3>4
    <3> QED BY <2>1, <3>5
  <2>10. CASE r.more /\ data # <<>>
    <3>1. ~(Len(r.text) + Len(data) > maxLength)
      BY <2>4, <2>5, <2>6, <1>1
    <3>2. e = [text |-> r.text \o data, more |-> TRUE]
      BY <2>4, <2>5, <2>7, <2>10, <3>1 DEF Exchanged, data
    <3>3. upTo = Len(text) \/ upTo >= size * (n + 1)
      <4>1. size * (n + 1) = size * n + size
        BY <2>1
      <4>2. size * n \in Nat
        BY <2>1
      <4>3. k = Len(text) => upTo = Len(text)
        BY <1>1, <2>5
      <4> HIDE DEF e
      <4> QED BY <2>2, <2>5, <4>1, <4>2, <4>3, <1>1
    <3>4. upTo \in 0..Len(text)
      BY <1>1, <2>5
    <3>5. e \in [text : Seq(S), more : BOOLEAN] /\ e.text = SubSeq(text, 1, upTo) /\ e.more
      BY <2>6, <3>2
    <3>6. e \in Read(n + 1)
      BY <3>3, <3>4, <3>5
    <3> QED BY <2>1, <3>6
  <2> HIDE DEF R, e
  <2> QED BY <2>8, <2>9, <2>10
<1> DEFINE last == Rounds(fragments, maxLength, maxRounds)[maxRounds]
<1>4. last \in R[maxRounds]
  <2> HIDE DEF R
  <2> QED BY <1>2, <1>3, KeptByRounds
<1>5. last.text = text
  <2>1. last \in Read(maxRounds)
    <3>1. maxRounds \in 0..maxRounds
      OBVIOUS
    <3> HIDE DEF Read, last
    <3>2. R[maxRounds] = Read(maxRounds)
      BY <3>1
    <3> QED BY <1>4, <3>2
  <2> HIDE DEF last
  <2>2. PICK k \in 0..Len(text) :
          /\ last.text = SubSeq(text, 1, k)
          /\ k = Len(text) \/ k >= size * maxRounds
    BY <2>1
  <2>3. k = Len(text)
    <3>1. size * maxRounds \in Nat
      OBVIOUS
    <3> QED BY <1>1, <2>2, <3>1
  <2> QED BY <2>2, <2>3, PieceByPiece, <1>1
<1> QED BY <1>5, ReassembledIs

(* The loop before an exchange: given up, or with a string that is not too long. *)
ReadSoFar(W, maxLength) ==
  {r \in [text : Seq(W) \cup {Broken}, more : BOOLEAN] :
     \/ r.text = Broken /\ ~r.more
     \/ r.text \in Seq(W) /\ Len(r.text) <= maxLength}

LEMMA GivenUpIsRead ==
  ASSUME NEW W, NEW maxLength
  PROVE  [text |-> Broken, more |-> FALSE] \in ReadSoFar(W, maxLength)
<1> DEFINE e == [text |-> Broken, more |-> FALSE]
<1>1. e \in [text : Seq(W) \cup {Broken}, more : BOOLEAN]
  OBVIOUS
<1>2. e.text = Broken /\ ~e.more
  OBVIOUS
<1> HIDE DEF e
<1>3. e \in ReadSoFar(W, maxLength)
  BY <1>1, <1>2, Zenon DEF ReadSoFar
<1> QED BY <1>3 DEF e

LEMMA TextIsRead ==
  ASSUME NEW W, NEW maxLength, NEW text \in Seq(W), Len(text) <= maxLength, NEW more \in BOOLEAN
  PROVE  [text |-> text, more |-> more] \in ReadSoFar(W, maxLength)
<1> DEFINE e == [text |-> text, more |-> more]
<1>1. e \in [text : Seq(W) \cup {Broken}, more : BOOLEAN]
  OBVIOUS
<1>2. e.text \in Seq(W) /\ Len(e.text) <= maxLength
  OBVIOUS
<1> HIDE DEF e
<1>3. e \in ReadSoFar(W, maxLength)
  BY <1>1, <1>2, Zenon DEF ReadSoFar
<1> QED BY <1>3 DEF e

(***************************************************************************)
(* Whatever a display answers, repeating itself or making things up,       *)
(* readCapabilitiesString ends with a string no longer than allowed, or    *)
(* with none.                                                              *)
(***************************************************************************)
THEOREM ReaderIsBounded ==
  ASSUME NEW W, NEW maxLength \in Nat, NEW maxRounds \in Nat,
         NEW fragments, \A offset \in 0..maxLength : fragments[offset] \in Seq(W) \cup {Broken}
  PROVE  LET result == Reassembled(fragments, maxLength, maxRounds)
         IN  result = Broken \/ (result \in Seq(W) /\ Len(result) <= maxLength)
<1> DEFINE R == [n \in 0..maxRounds |-> ReadSoFar(W, maxLength)]
<1>1. [text |-> <<>>, more |-> TRUE] \in ReadSoFar(W, maxLength)
  <2>1. <<>> \in Seq(W) /\ Len(<<>>) <= maxLength
    OBVIOUS
  <2> QED BY <2>1, TextIsRead
<1>2. ASSUME NEW r \in ReadSoFar(W, maxLength)
      PROVE  Exchanged(r, fragments, maxLength) \in ReadSoFar(W, maxLength)
  <2> DEFINE e == Exchanged(r, fragments, maxLength)
             data == fragments[Len(r.text)]
  <2>0. r \in [text : Seq(W) \cup {Broken}, more : BOOLEAN]
    BY DEF ReadSoFar
  <2>1. CASE ~r.more
    <3>1. e = r
      BY <2>1 DEF Exchanged
    <3> QED BY <3>1
  <2>2. CASE r.more
    <3>1. r.text \in Seq(W) /\ Len(r.text) <= maxLength /\ Len(r.text) \in Nat
      BY <2>2, LenProperties DEF ReadSoFar
    <3>2. data \in Seq(W) \cup {Broken}
      BY <3>1
    <3> HIDE DEF data
    <3>3. CASE data = Broken
      <4>1. Broken # <<>>
        BY DEF Broken
      <4>2. e = [text |-> Broken, more |-> FALSE]
        BY <2>2, <3>3, <4>1 DEF Exchanged, data
      <4> QED BY <4>2, GivenUpIsRead
    <3>4. CASE data # Broken /\ data = <<>>
      <4>1. e = [r EXCEPT !.more = FALSE]
        BY <2>2, <3>4 DEF Exchanged, data
      <4>2. e = [text |-> r.text, more |-> FALSE]
        BY <2>0, <4>1
      <4> QED BY <3>1, <4>2, TextIsRead
    <3>5. CASE data # Broken /\ data # <<>>
      <4>1. e = IF Len(r.text) + Len(data) > maxLength
                THEN [text |-> Broken, more |-> FALSE]
                ELSE [text |-> r.text \o data, more |-> TRUE]
        BY <2>2, <3>5 DEF Exchanged, data
      <4>2. data \in Seq(W) /\ Len(data) \in Nat
        BY <3>2, <3>5, LenProperties
      <4>3. r.text \o data \in Seq(W) /\ Len(r.text \o data) = Len(r.text) + Len(data)
        BY <3>1, <4>2, ConcatProperties
      <4>4. CASE Len(r.text) + Len(data) > maxLength
        BY <4>1, <4>4, GivenUpIsRead
      <4>5. CASE ~(Len(r.text) + Len(data) > maxLength)
        <5>1. e = [text |-> r.text \o data, more |-> TRUE]
          BY <4>1, <4>5
        <5>2. Len(r.text \o data) <= maxLength
          BY <3>1, <4>2, <4>3, <4>5
        <5> DEFINE whole == r.text \o data
        <5>3. whole \in Seq(W) /\ Len(whole) <= maxLength
          BY <4>3, <5>2
        <5> HIDE DEF whole
        <5>4. [text |-> whole, more |-> TRUE] \in ReadSoFar(W, maxLength)
          BY <5>3, TextIsRead
        <5> QED BY <5>1, <5>4 DEF whole
      <4> QED BY <4>4, <4>5
    <3> QED BY <3>3, <3>4, <3>5
  <2> QED BY <2>0, <2>1, <2>2
<1> DEFINE last == Rounds(fragments, maxLength, maxRounds)[maxRounds]
<1>3. last \in ReadSoFar(W, maxLength)
  <2>1. [text |-> <<>>, more |-> TRUE] \in R[0] /\ R[maxRounds] = ReadSoFar(W, maxLength)
    BY <1>1
  <2>2. \A n \in 0..maxRounds : \A r \in R[n] :
          n # maxRounds => Exchanged(r, fragments, maxLength) \in R[n + 1]
    BY <1>2
  <2> HIDE DEF R
  <2>3. last \in R[maxRounds]
    BY <2>1, <2>2, KeptByRounds
  <2> QED BY <2>1, <2>3
<1> QED BY <1>3, ReassembledIs DEF ReadSoFar


-----------------------------------------------------------------------------
(* A string that was cut off *)

(* The beginning of a text, to where it was cut off. *)
Upto(text, cut) == SubSeq(text, 1, cut)

LEMMA UptoIs ==
  ASSUME NEW W, NEW text \in Seq(W), NEW cut \in 0..Len(text)
  PROVE  /\ Len(text) \in Nat /\ cut \in Nat
         /\ Upto(text, cut) \in Seq(W) /\ Len(Upto(text, cut)) = cut
         /\ \A i \in 1..cut : Upto(text, cut)[i] = text[i] /\ i \in 1..Len(text)
         /\ \A n \in 0..cut : Upto(Upto(text, cut), n) = Upto(text, n)
<1>1. Len(text) \in Nat /\ cut \in Nat
  BY LenProperties
<1>2. /\ Upto(text, cut) \in Seq(W) /\ Len(Upto(text, cut)) = cut
      /\ \A i \in 1..cut : Upto(text, cut)[i] = text[i] /\ i \in 1..Len(text)
  BY <1>1 DEF Upto
<1>3. ASSUME NEW n \in 0..cut PROVE Upto(Upto(text, cut), n) = Upto(text, n)
  BY <1>1 DEF Upto
<1> QED BY <1>1, <1>2, <1>3

LEMMA DepthOfCut ==
  ASSUME NEW W, NEW text \in Seq(W), NEW cut \in 0..Len(text), NEW n \in 0..cut
  PROVE  Depth(Upto(text, cut), n) = Depth(text, n)
<1>1. SubSeq(Upto(text, cut), 1, n) = SubSeq(text, 1, n)
  BY UptoIs DEF Upto
<1> QED BY <1>1, Zenon DEF Depth

(* Where a group may end, and that it ends at the first of them. *)
Ends(text, from) == {i \in from..Len(text) : Depth(text, i) = Depth(text, from - 1)}

LEMMA GroupEndIs ==
  ASSUME NEW W, NEW text \in Seq(W), NEW from \in 1..Len(text)
  PROVE  LET close == GroupEnd(text, from)
         IN  /\ close \in from..(Len(text) + 1)
             /\ close = Len(text) + 1 => Ends(text, from) = {}
             /\ close # Len(text) + 1 => close \in Ends(text, from)
             /\ \A i \in Ends(text, from) : close <= i
<1> DEFINE ends == Ends(text, from)
           close == GroupEnd(text, from)
<1>1. Len(text) \in Nat /\ from \in Nat
  BY LenProperties
<1>2. close = IF ends = {} THEN Len(text) + 1
              ELSE CHOOSE i \in ends : \A other \in ends : i <= other
  BY DEF GroupEnd, Ends
<1>3. ends \subseteq from..Len(text) /\ ends \subseteq Nat
  BY <1>1 DEF Ends
<1> HIDE DEF ends, close
<1>4. ends # {} => close \in ends /\ \A i \in ends : close <= i
  BY <1>2, <1>3, SmallestNumber
<1>5. ends = {} => close = Len(text) + 1
  BY <1>2
<1>6. close \in from..(Len(text) + 1)
  <2>1. CASE ends = {}
    BY <1>1, <1>5, <2>1
  <2>2. CASE ends # {}
    <3>1. close \in from..Len(text)
      BY <1>3, <1>4, <2>2
    <3> QED BY <1>1, <3>1
  <2> QED BY <2>1, <2>2
<1>7. close = Len(text) + 1 <=> ends = {}
  <2>1. ends # {} => close \in from..Len(text)
    BY <1>3, <1>4
  <2> QED BY <1>1, <1>5, <2>1
<1> QED BY <1>4, <1>6, <1>7 DEF ends, close

(* A group ends where it did, or was cut off and runs to the end. *)
LEMMA GroupEndOfCut ==
  ASSUME NEW W, NEW text \in Seq(W), NEW cut \in 0..Len(text), NEW from \in 1..cut
  PROVE  GroupEnd(Upto(text, cut), from) =
           IF GroupEnd(text, from) <= cut THEN GroupEnd(text, from) ELSE cut + 1
<1> DEFINE part == Upto(text, cut)
           here == GroupEnd(part, from)
           there == GroupEnd(text, from)
<1>1. /\ Len(text) \in Nat /\ cut \in Nat /\ part \in Seq(W) /\ Len(part) = cut
      /\ from \in 1..Len(text) /\ from \in 1..Len(part) /\ from - 1 \in 0..cut
  BY UptoIs
<1>2. \A n \in 0..cut : Depth(part, n) = Depth(text, n)
  BY DepthOfCut
<1> HIDE DEF part
<1>3. \A i \in from..cut : i \in Ends(part, from) <=> i \in Ends(text, from)
  BY <1>1, <1>2 DEF Ends
<1>4. /\ here \in from..(cut + 1)
      /\ here = cut + 1 => Ends(part, from) = {}
      /\ here # cut + 1 => here \in Ends(part, from)
      /\ \A i \in Ends(part, from) : here <= i
  BY <1>1, GroupEndIs
<1>5. /\ there \in from..(Len(text) + 1)
      /\ there = Len(text) + 1 => Ends(text, from) = {}
      /\ there # Len(text) + 1 => there \in Ends(text, from)
      /\ \A i \in Ends(text, from) : there <= i
  BY <1>1, GroupEndIs
<1> HIDE DEF here, there
<1>0. here \in Int /\ there \in Int /\ cut \in Int
  <2>1. from \in Int /\ cut \in Int /\ Len(text) \in Int
    BY <1>1
  <2> QED BY <1>4, <1>5, <2>1
<1>6. CASE there <= cut
  <2>1. there \in Ends(part, from)
    BY <1>1, <1>3, <1>5, <1>6
  <2>2. here <= there /\ here \in Ends(part, from)
    BY <1>1, <1>4, <2>1
  <2>3. here \in from..cut
    BY <1>1, <1>4, <1>5, <1>6, <2>2
  <2>4. here \in Ends(text, from)
    BY <1>3, <2>2, <2>3
  <2>5. there <= here
    BY <1>5, <2>4
  <2>6. here = there
    BY <1>0, <2>2, <2>5
  <2> QED BY <1>6, <2>6 DEF here, there, part
<1>7. CASE there > cut
  <2>1. ASSUME here # cut + 1 PROVE FALSE
    <3>1. here \in from..cut /\ here \in Ends(text, from)
      BY <1>1, <1>3, <1>4, <2>1
    <3> QED BY <1>1, <1>5, <1>7, <3>1
  <2>2. ~(there <= cut)
    BY <1>0, <1>7
  <2> QED BY <2>1, <2>2 DEF here, there, part
<1> QED BY <1>0, <1>6, <1>7 DEF here, there, part

LEMMA LeastIsThere ==
  ASSUME NEW S \in SUBSET Nat, S # {}
  PROVE  Min(S) \in S /\ \A n \in S : Min(S) <= n
<1>1. \E n \in S : \A m \in S : n <= m
  BY SmallestNumber
<1> QED BY <1>1 DEF Min

(* Past is where it says, and nothing before it ends the class. *)
LEMMA PastIs ==
  ASSUME NEW W, NEW text \in Seq(W), NEW i \in 1..(Len(text) + 1), NEW class
  PROVE  /\ Past(text, i, class) \in i..(Len(text) + 1)
         /\ Past(text, i, class) # Len(text) + 1 => ~In(text[Past(text, i, class)], class)
         /\ \A k \in i..Len(text) : k < Past(text, i, class) => In(text[k], class)
<1> DEFINE L == Len(text)
           ends == {k \in i..L : ~In(text[k], class)}
           p == Past(text, i, class)
<1>1. L \in Nat /\ i \in Nat /\ i <= L + 1
  BY LenProperties
<1>2. ends \cup {L + 1} \in SUBSET Nat
  <2> HIDE DEF L
  <2> QED BY <1>1
<1>3. p = Min(ends \cup {L + 1})
  BY DEF Past
<1>4. \A k : k \in ends <=> k \in i..L /\ ~In(text[k], class)
  OBVIOUS
<1> HIDE DEF ends, p, L
<1>5. p \in ends \cup {L + 1} /\ \A n \in ends \cup {L + 1} : p <= n
  BY <1>2, <1>3, LeastIsThere
<1>6. p \in i..(L + 1) /\ (p # L + 1 => p \in ends)
  BY <1>1, <1>4, <1>5
<1>7. ASSUME NEW k \in i..L, k < p PROVE In(text[k], class)
  <2>1. ~(p <= k)
    BY <1>1, <1>6, <1>7
  <2> QED BY <1>4, <1>5, <2>1
<1> QED BY <1>4, <1>6, <1>7 DEF p, L

(* Where a class ends in a text that was cut off: where it did, or at the cut. *)
Clip(p, cut) == IF p <= cut THEN p ELSE cut + 1

LEMMA PastOfCut ==
  ASSUME NEW W, NEW text \in Seq(W), NEW cut \in 0..Len(text), NEW i \in 1..(cut + 1), NEW class
  PROVE  Past(Upto(text, cut), i, class) = Clip(Past(text, i, class), cut)
<1> DEFINE part == Upto(text, cut)
           p == Past(text, i, class)
           q == Past(part, i, class)
<1>1. /\ Len(text) \in Nat /\ cut \in Nat /\ cut <= Len(text)
      /\ part \in Seq(W) /\ Len(part) = cut /\ i \in Nat /\ i \in 1..(Len(text) + 1)
      /\ \A n \in 1..cut : part[n] = text[n]
  BY UptoIs
<1>2. /\ p \in i..(Len(text) + 1)
      /\ p # Len(text) + 1 => ~In(text[p], class)
      /\ \A k \in i..Len(text) : k < p => In(text[k], class)
  BY <1>1, PastIs
<1> HIDE DEF part
<1>3. /\ q \in i..(cut + 1)
      /\ q # cut + 1 => ~In(part[q], class)
      /\ \A k \in i..cut : k < q => In(part[k], class)
  BY <1>1, PastIs
<1> HIDE DEF p, q
<1>4. p \in Int /\ q \in Int
  BY <1>1, <1>2, <1>3
<1>5. ASSUME q # cut + 1 PROVE ~(q < p)
  <2>1. q \in 1..cut /\ q \in i..Len(text)
    BY <1>1, <1>3, <1>4, <1>5
  <2>2. ~In(text[q], class)
    BY <1>1, <1>3, <1>5, <2>1
  <2> QED BY <1>2, <2>1, <2>2
<1>6. ASSUME p <= cut PROVE ~(p < q)
  <2>1. p \in 1..cut /\ p \in i..cut /\ p # Len(text) + 1
    BY <1>1, <1>2, <1>4, <1>6
  <2>2. ~In(part[p], class)
    BY <1>1, <1>2, <2>1
  <2> QED BY <1>3, <2>1, <2>2
<1>7. CASE p <= cut
  <2>1. q # cut + 1
    BY <1>1, <1>4, <1>6, <1>7
  <2>2. q = p
    BY <1>4, <1>5, <1>6, <1>7, <2>1
  <2> QED BY <1>7, <2>2 DEF Clip, p, q, part
<1>8. CASE ~(p <= cut)
  <2>1. q = cut + 1
    BY <1>1, <1>3, <1>4, <1>5, <1>8
  <2> QED BY <1>8, <2>1 DEF Clip, p, q, part
<1> QED BY <1>7, <1>8

(***************************************************************************)
(* The entry that is found from a character on: where it starts, where its *)
(* name stops, where its group may open and closes, and where the next is  *)
(* looked for.                                                             *)
(***************************************************************************)
Start(text, i, x) == Past(text, i, x.skip)
Stop(text, i, x) == Past(text, Start(text, i, x), x.name)
OpenAt(text, i, x) == Past(text, Stop(text, i, x), x.gap)
Grouped(text, i, x) == ~(OpenAt(text, i, x) > Len(text) \/ text[OpenAt(text, i, x)] # Open)
Closed(text, i, x) == GroupEnd(text, OpenAt(text, i, x))
NameAt(text, i, x) == SubSeq(text, Start(text, i, x), Stop(text, i, x) - 1)
BodyAt(text, i, x) == SubSeq(text, OpenAt(text, i, x) + 1, Closed(text, i, x) - 1)
Item(text, i, x) ==
  IF Grouped(text, i, x)
  THEN [name |-> NameAt(text, i, x), body |-> BodyAt(text, i, x), group |-> TRUE]
  ELSE [name |-> NameAt(text, i, x), body |-> <<>>, group |-> FALSE]
After(text, i, x) ==
  IF ~Grouped(text, i, x) THEN OpenAt(text, i, x)
  ELSE IF Closed(text, i, x) > Len(text) THEN Len(text) + 1 ELSE Closed(text, i, x) + 1

EntriesAt(g, text, x, i) ==
  IF Start(text, i, x) > Len(text) THEN <<>>
  ELSE <<Item(text, i, x)>> \o g[After(text, i, x)]

EntriesFrom(text, x) == CHOOSE g : g = [i \in 1..Len(text) + 1 |-> EntriesAt(g, text, x, i)]

LEMMA EntriesIs ==
  ASSUME NEW text, NEW x
  PROVE  Entries(text, x) = EntriesFrom(text, x)[1]
<1> DEFINE Step(g, i) ==
             LET start == Past(text, i, x.skip)
                 stop  == Past(text, start, x.name)
                 open  == Past(text, stop, x.gap)
                 close == GroupEnd(text, open)
                 name  == SubSeq(text, start, stop - 1)
             IN  IF start > Len(text) THEN <<>>
                 ELSE IF open > Len(text) \/ text[open] # Open
                 THEN <<[name |-> name, body |-> <<>>, group |-> FALSE]>> \o g[open]
                 ELSE <<[name |-> name, body |-> SubSeq(text, open + 1, close - 1), group |-> TRUE]>> \o
                      g[IF close > Len(text) THEN Len(text) + 1 ELSE close + 1]
           F == CHOOSE g : g = [i \in 1..Len(text) + 1 |-> Step(g, i)]
<1>1. Entries(text, x) = F[1]
  BY DEF Entries
<1>2. \A g, i : Step(g, i) = EntriesAt(g, text, x, i)
  <2> TAKE g, i
  <2>1. CASE Start(text, i, x) > Len(text)
    BY <2>1, Zenon DEF EntriesAt, Start
  <2>2. CASE ~(Start(text, i, x) > Len(text)) /\ Grouped(text, i, x)
    BY <2>2, Zenon DEF EntriesAt, Item, After, Grouped, NameAt, BodyAt, Closed, OpenAt, Stop, Start
  <2>3. CASE ~(Start(text, i, x) > Len(text)) /\ ~Grouped(text, i, x)
    BY <2>3, Zenon DEF EntriesAt, Item, After, Grouped, NameAt, BodyAt, Closed, OpenAt, Stop, Start
  <2> QED BY <2>1, <2>2, <2>3
<1> HIDE DEF Step
<1>3. F = EntriesFrom(text, x)
  BY <1>2, Zenon DEF EntriesFrom
<1> QED BY <1>1, <1>3

(***************************************************************************)
(* A syntax under which every entry takes up some text: what is not        *)
(* skipped belongs to a name or opens a group.  Those of splitSections and *)
(* parseVcpBody are such.                                                  *)
(***************************************************************************)
Moves(W, x) ==
  /\ \A c \in W : ~In(c, x.skip) => In(c, x.name) \/ c = Open
  /\ ~In(Open, x.gap)

LEMMA SyntaxesMove ==
  ASSUME NEW W
  PROVE  Moves(W, SectionSyntax) /\ Moves(W, TableSyntax)
<1>1. Open # " "
  BY DEF Open
<1>2. Moves(W, SectionSyntax)
  BY <1>1 DEF Moves, SectionSyntax, In, Only, AnyBut
<1>3. Moves(W, TableSyntax)
  BY DEF Moves, TableSyntax, In, Only, AnyBut
<1> QED BY <1>2, <1>3

(* What a name is spelled with. *)
Spelling(W, x) == {c \in W : In(c, x.name)}

Entry(N, W) == [name : Seq(N), body : Seq(W), group : BOOLEAN]

LEMMA IsEntry ==
  ASSUME NEW N, NEW W, NEW name \in Seq(N), NEW body \in Seq(W), NEW group \in BOOLEAN
  PROVE  [name |-> name, body |-> body, group |-> group] \in Entry(N, W)
BY DEF Entry

LEMMA Places ==
  ASSUME NEW W, NEW text \in Seq(W), NEW x, Moves(W, x), NEW i \in 1..(Len(text) + 1),
         ~(Start(text, i, x) > Len(text))
  PROVE  /\ Start(text, i, x) \in i..Len(text)
         /\ Stop(text, i, x) \in Start(text, i, x)..(Len(text) + 1)
         /\ \A k \in Start(text, i, x)..Len(text) : k < Stop(text, i, x) => In(text[k], x.name)
         /\ OpenAt(text, i, x) \in Stop(text, i, x)..(Len(text) + 1)
         /\ Grouped(text, i, x) => /\ OpenAt(text, i, x) \in 1..Len(text)
                                   /\ Closed(text, i, x) \in OpenAt(text, i, x)..(Len(text) + 1)
         /\ After(text, i, x) \in (i + 1)..(Len(text) + 1)
<1> DEFINE L == Len(text)
           s == Start(text, i, x)
           t == Stop(text, i, x)
           o == OpenAt(text, i, x)
           c == Closed(text, i, x)
<1>0. L \in Nat /\ i \in Nat /\ i >= 1 /\ i <= L + 1
  BY LenProperties
<1>1. s \in i..(L + 1) /\ (s # L + 1 => ~In(text[s], x.skip))
  BY PastIs DEF Start
<1>2. s \in i..L /\ s \in 1..(L + 1) /\ s # L + 1 /\ s \in 1..L
  <2>1. ~(s > L)
    OBVIOUS
  <2> HIDE DEF L, s
  <2> QED BY <1>0, <1>1, <2>1
<1>3. /\ t \in s..(L + 1) /\ (t # L + 1 => ~In(text[t], x.name))
      /\ \A k \in s..L : k < t => In(text[k], x.name)
  <2>1. s \in 1..(Len(text) + 1)
    BY <1>2
  <2> HIDE DEF s, L
  <2>2. t = Past(text, s, x.name)
    BY Zenon DEF Stop, s
  <2> QED BY <2>1, <2>2, PastIs DEF L
<1>4. o \in t..(L + 1) /\ (\A k \in t..L : k < o => In(text[k], x.gap))
  <2>1. t \in 1..(L + 1)
    <3> HIDE DEF s, t, L
    <3> QED BY <1>0, <1>2, <1>3
  <2> HIDE DEF t
  <2>2. o = Past(text, t, x.gap)
    BY Zenon DEF OpenAt, t
  <2> QED BY <2>1, <2>2, PastIs
<1>5. Grouped(text, i, x) => o \in 1..L /\ c \in o..(L + 1)
  <2>1. Grouped(text, i, x) => o \in 1..L
    <3>1. Grouped(text, i, x) => ~(o > L)
      BY Zenon DEF Grouped
    <3> HIDE DEF s, t, o, L
    <3> QED BY <1>0, <1>2, <1>3, <1>4, <3>1
  <2>2. c = GroupEnd(text, o)
    BY Zenon DEF Closed
  <2> HIDE DEF o, c
  <2> QED BY <2>1, <2>2, GroupEndIs
<1>6. t = s => Grouped(text, i, x) /\ o = s
  <2> SUFFICES ASSUME t = s PROVE Grouped(text, i, x) /\ o = s
    OBVIOUS
  <2>1. text[s] \in W
    <3> HIDE DEF s
    <3> QED BY <1>2
  <2>2. ~In(text[s], x.skip) /\ ~In(text[s], x.name)
    <3> HIDE DEF s, t
    <3> QED BY <1>1, <1>2, <1>3
  <2>3. text[s] = Open
    <3> HIDE DEF s
    <3> QED BY <2>1, <2>2 DEF Moves
  <2>4. ~In(text[s], x.gap)
    <3> HIDE DEF s
    <3> QED BY <2>3 DEF Moves
  <2>5. s \in t..L
    <3> HIDE DEF s, t
    <3> QED BY <1>0, <1>2
  <2>6. ~(s < o)
    <3> HIDE DEF s, t, o
    <3> QED BY <1>4, <2>4, <2>5
  <2>7. o = s /\ ~(o > L)
    <3> HIDE DEF s, t, o, L
    <3> QED BY <1>0, <1>2, <1>3, <1>4, <2>6
  <2> HIDE DEF s
  <2> QED BY <2>3, <2>7 DEF Grouped
<1>7. After(text, i, x) = IF ~Grouped(text, i, x) THEN o ELSE IF c > L THEN L + 1 ELSE c + 1
  BY DEF After
<1> HIDE DEF s, t, o, c, L
<1>8. After(text, i, x) \in (i + 1)..(L + 1)
  <2>1. CASE ~Grouped(text, i, x)
    BY <1>0, <1>2, <1>3, <1>4, <1>6, <1>7, <2>1
  <2>2. CASE Grouped(text, i, x)
    BY <1>0, <1>2, <1>3, <1>4, <1>5, <1>7, <2>2
  <2> QED BY <2>1, <2>2
<1> QED BY <1>2, <1>3, <1>4, <1>5, <1>8 DEF s, t, o, c, L

LEMMA EntryIs ==
  ASSUME NEW W, NEW text \in Seq(W), NEW x, Moves(W, x), NEW i \in 1..(Len(text) + 1),
         ~(Start(text, i, x) > Len(text))
  PROVE  /\ NameAt(text, i, x) \in Seq(Spelling(W, x))
         /\ Item(text, i, x) \in Entry(Spelling(W, x), W)
<1> DEFINE L == Len(text)
           s == Start(text, i, x)
           t == Stop(text, i, x)
           o == OpenAt(text, i, x)
           c == Closed(text, i, x)
           name == NameAt(text, i, x)
           body == BodyAt(text, i, x)
<1>1. /\ L \in Nat /\ i \in Nat /\ i >= 1
      /\ s \in i..L /\ t \in s..(L + 1) /\ (\A k \in s..L : k < t => In(text[k], x.name))
      /\ Grouped(text, i, x) => o \in 1..L /\ c \in o..(L + 1)
  BY LenProperties, Places
<1>2. name = SubSeq(text, s, t - 1) /\ body = SubSeq(text, o + 1, c - 1)
  BY DEF NameAt, BodyAt
<1>3. /\ Grouped(text, i, x) => Item(text, i, x) = [name |-> name, body |-> body, group |-> TRUE]
      /\ ~Grouped(text, i, x) => Item(text, i, x) = [name |-> name, body |-> <<>>, group |-> FALSE]
  BY DEF Item
<1> HIDE DEF s, t, o, c, name, body
<1>4. name \in Seq(Spelling(W, x))
  <2>1. \A k \in 1..(t - s) : s + k - 1 \in s..L /\ s + k - 1 < t /\ s + k - 1 \in 1..L
    BY <1>1
  <2>2. name = [k \in 1..(t - s) |-> text[s + k - 1]]
    BY <1>1, <1>2
  <2>3. ASSUME NEW k \in 1..(t - s) PROVE text[s + k - 1] \in Spelling(W, x)
    <3>1. text[s + k - 1] \in W
      BY <2>1
    <3> QED BY <1>1, <2>1, <3>1 DEF Spelling
  <2> DEFINE n == t - s
  <2>4. n \in Nat
    BY <1>1
  <2>5. name = [k \in 1..n |-> text[s + k - 1]] /\ \A k \in 1..n : text[s + k - 1] \in Spelling(W, x)
    BY <2>2, <2>3
  <2> HIDE DEF n
  <2> QED BY <2>4, <2>5
<1>5. Grouped(text, i, x) => body \in Seq(W)
  BY <1>1, <1>2
<1>6. Item(text, i, x) \in Entry(Spelling(W, x), W)
  <2>1. CASE Grouped(text, i, x)
    BY <1>3, <1>4, <1>5, <2>1, IsEntry
  <2>2. CASE ~Grouped(text, i, x)
    <3>1. <<>> \in Seq(W)
      OBVIOUS
    <3> QED BY <1>3, <1>4, <2>2, <3>1, IsEntry
  <2> QED BY <2>1, <2>2
<1> QED BY <1>4, <1>6 DEF name

(* The entries from each character on are a function of it. *)
LEMMA EntriesExist ==
  ASSUME NEW W, NEW text \in Seq(W), NEW x, Moves(W, x)
  PROVE  EntriesFrom(text, x) =
           [i \in 1..Len(text) + 1 |-> EntriesAt(EntriesFrom(text, x), text, x, i)]
<1> DEFINE L == Len(text)
           Good(g, k) == /\ g = [i \in 1..L + 1 |-> g[i]]
                         /\ \A i \in (L + 1 - k)..(L + 1) : g[i] = EntriesAt(g, text, x, i)
           Bad == {k \in 0..L : ~\E g : Good(g, k)}
<1>1. L \in Nat
  BY LenProperties
<1>2. 0 \notin Bad
  <2> DEFINE g == [i \in 1..L + 1 |-> <<>>]
  <2>1. \A i \in (L + 1 - 0)..(L + 1) : i = L + 1 /\ i \in 1..L + 1
    BY <1>1
  <2>2. Start(text, L + 1, x) > L
    <3>1. L + 1 \in 1..(Len(text) + 1)
      BY <1>1
    <3>2. Start(text, L + 1, x) \in (L + 1)..(Len(text) + 1)
      BY <3>1, PastIs DEF Start
    <3> QED BY <1>1, <3>2
  <2>3. EntriesAt(g, text, x, L + 1) = <<>>
    BY <2>2 DEF EntriesAt
  <2>4. Good(g, 0)
    BY <2>1, <2>3
  <2> HIDE DEF Good
  <2> QED BY <2>4
<1>3. ASSUME NEW k \in 0..L, k # L, k \notin Bad PROVE k + 1 \notin Bad
  <2> HIDE DEF L
  <2>1. PICK g : Good(g, k)
    BY <1>3
  <2> DEFINE new == L + 1 - (k + 1)
             h == [i \in 1..L + 1 |-> IF i = new THEN EntriesAt(g, text, x, i) ELSE g[i]]
  <2>2. h = [i \in 1..L + 1 |-> h[i]]
    OBVIOUS
  <2>3. new \in 1..L /\ k + 1 \in 0..L
    BY <1>1, <1>3
  <2>4. ASSUME NEW i \in new..(L + 1) PROVE h[i] = EntriesAt(h, text, x, i)
    <3>1. i \in 1..(L + 1) /\ (i # new => i \in (L + 1 - k)..(L + 1))
      BY <1>1, <1>3, <2>3
    <3>2. ~(Start(text, i, x) > L) => After(text, i, x) \in (i + 1)..(L + 1)
      BY <3>1, Places DEF L
    <3>3. ~(Start(text, i, x) > L) => After(text, i, x) \in 1..(L + 1) /\ After(text, i, x) # new
      BY <1>1, <2>3, <3>1, <3>2
    <3>4. ~(Start(text, i, x) > L) => h[After(text, i, x)] = g[After(text, i, x)]
      BY <3>3
    <3>5. EntriesAt(h, text, x, i) = EntriesAt(g, text, x, i)
      <4> HIDE DEF h
      <4> QED BY <3>4 DEF EntriesAt, L
    <3>6. h[i] = EntriesAt(g, text, x, i)
      <4>1. CASE i = new
        BY <3>1, <4>1
      <4>2. CASE i # new
        <5>1. h[i] = g[i]
          BY <3>1, <4>2
        <5> QED BY <2>1, <3>1, <4>2, <5>1
      <4> QED BY <4>1, <4>2
    <3> QED BY <3>5, <3>6
  <2>5. Good(h, k + 1)
    <3> HIDE DEF h
    <3> QED BY <2>2, <2>4
  <2> HIDE DEF Good, h
  <2> QED BY <2>3, <2>5
<1>4. L \notin Bad
  <2> HIDE DEF Good
  <2>1. SUFFICES ASSUME Bad # {} PROVE FALSE
    BY <1>1
  <2>2. Bad \subseteq 0..L /\ Bad \subseteq Nat
    BY <1>1
  <2> HIDE DEF Bad
  <2>3. PICK k \in Bad : \A m \in Bad : k <= m
    BY <2>1, <2>2, SmallestNumber
  <2>4. k \in 0..L /\ k # 0
    BY <1>2, <2>2, <2>3
  <2> HIDE DEF L
  <2>5. k - 1 \in 0..L /\ k - 1 # L /\ k - 1 \notin Bad /\ (k - 1) + 1 = k
    BY <1>1, <2>3, <2>4
  <2> QED BY <1>3, <2>3, <2>5
<1>5. PICK g : Good(g, L)
  <2> HIDE DEF Good
  <2>1. L \in 0..L
    BY <1>1
  <2> QED BY <1>4, <2>1
<1>6. \A i \in 1..L + 1 : i \in (L + 1 - L)..(L + 1)
  BY <1>1
<1>7. g = [i \in 1..L + 1 |-> EntriesAt(g, text, x, i)]
  BY <1>5, <1>6
<1> QED BY <1>7, Zenon DEF EntriesFrom

(* From the last character to the first: what is so of one when it is so of all after it. *)
LEMMA Backwards ==
  ASSUME NEW L \in Nat, NEW P,
         \A i \in 1..(L + 1) : (\A j \in (i + 1)..(L + 1) : j \in P) => i \in P
  PROVE  \A i \in 1..(L + 1) : i \in P
<1> DEFINE Bad == {k \in 0..L : L + 1 - k \notin P}
<1>1. SUFFICES ASSUME NEW i \in 1..(L + 1), i \notin P PROVE FALSE
  OBVIOUS
<1>2. L + 1 - i \in 0..L /\ L + 1 - (L + 1 - i) = i
  OBVIOUS
<1>3. Bad # {} /\ Bad \subseteq Nat
  BY <1>1, <1>2
<1>4. PICK k \in Bad : \A m \in Bad : k <= m
  <2> HIDE DEF Bad
  <2> QED BY <1>3, SmallestNumber
<1>5. k \in 0..L /\ L + 1 - k \in 1..(L + 1) /\ L + 1 - k \notin P
  BY <1>4
<1>6. ASSUME NEW j \in (L + 1 - k + 1)..(L + 1) PROVE j \in P
  <2>1. L + 1 - j \in 0..L /\ L + 1 - j < k /\ L + 1 - (L + 1 - j) = j
    BY <1>5
  <2>2. L + 1 - j \notin Bad
    <3> HIDE DEF Bad
    <3>1. k \in Int /\ L + 1 - j \in Int /\ ~(k <= L + 1 - j)
      BY <1>5, <2>1
    <3> QED BY <1>4, <3>1
  <2> QED BY <2>1, <2>2
<1> QED BY <1>5, <1>6

LEMMA EntriesAreTyped ==
  ASSUME NEW W, NEW text \in Seq(W), NEW x, Moves(W, x)
  PROVE  \A i \in 1..Len(text) + 1 : EntriesFrom(text, x)[i] \in Seq(Entry(Spelling(W, x), W))
<1> DEFINE F == EntriesFrom(text, x)
           E == Entry(Spelling(W, x), W)
           P == {i \in 1..Len(text) + 1 : F[i] \in Seq(E)}
<1>1. Len(text) \in Nat
  BY LenProperties
<1>2. \A i \in 1..Len(text) + 1 : F[i] = EntriesAt(F, text, x, i)
  BY <1>1, EntriesExist
<1> HIDE DEF F, E
<1>3. ASSUME NEW i \in 1..(Len(text) + 1), \A j \in (i + 1)..(Len(text) + 1) : j \in P
      PROVE  i \in P
  <2>1. CASE Start(text, i, x) > Len(text)
    <3>1. F[i] = <<>>
      BY <1>2, <2>1 DEF EntriesAt
    <3>2. <<>> \in Seq(E)
      OBVIOUS
    <3> QED BY <3>1, <3>2
  <2>2. CASE ~(Start(text, i, x) > Len(text))
    <3>1. After(text, i, x) \in (i + 1)..(Len(text) + 1)
      BY <2>2, Places
    <3> DEFINE rest == F[After(text, i, x)]
               item == Item(text, i, x)
    <3>2. rest \in Seq(E)
      BY <1>3, <3>1
    <3>3. item \in E
      BY <2>2, EntryIs DEF E
    <3>4. F[i] = <<item>> \o rest
      BY <1>2, <2>2 DEF EntriesAt
    <3> HIDE DEF rest, item
    <3>5. <<item>> \o rest \in Seq(E)
      BY <3>2, <3>3
    <3> QED BY <3>4, <3>5
  <2> QED BY <2>1, <2>2
<1> HIDE DEF P
<1>4. \A i \in 1..(Len(text) + 1) : i \in P
  BY <1>1, <1>3, Backwards
<1> QED BY <1>4 DEF P, F, E

LEMMA EntriesTyped ==
  ASSUME NEW W, NEW text \in Seq(W), NEW x, Moves(W, x)
  PROVE  Entries(text, x) \in Seq(Entry(Spelling(W, x), W))
<1>1. Len(text) \in Nat
  BY LenProperties
<1>2. 1 \in 1..Len(text) + 1
  BY <1>1
<1> QED BY <1>2, EntriesAreTyped, EntriesIs

(* An entry that was cut off, in its name or in its body. *)
ShortOf(short, entry) ==
  /\ \E k \in 0..Len(entry.name) : short.name = Upto(entry.name, k)
  /\ short.group => entry.group /\ short.name = entry.name
  /\ \E k \in 0..Len(entry.body) : short.body = Upto(entry.body, k)

(* Only the last entry of a text that was cut off may be short. *)
CutOff(part, whole) ==
  /\ Len(part) <= Len(whole)
  /\ \A j \in 1..Len(part) : ShortOf(part[j], whole[j])
  /\ \A j \in 1..Len(part) : j # Len(part) => part[j] = whole[j]

LEMMA AllOfIt ==
  ASSUME NEW W, NEW text \in Seq(W)
  PROVE  /\ \E k \in 0..Len(text) : text = Upto(text, k)
         /\ \E k \in 0..Len(text) : <<>> = Upto(text, k)
<1>1. Len(text) \in Nat
  BY LenProperties
<1>2. Upto(text, Len(text)) = text /\ Len(text) \in 0..Len(text)
  BY <1>1 DEF Upto
<1>3. Upto(text, 0) = <<>> /\ 0 \in 0..Len(text)
  BY <1>1 DEF Upto
<1> QED BY <1>2, <1>3

LEMMA NothingIsCut ==
  ASSUME NEW N, NEW W, NEW entry \in Entry(N, W)
  PROVE  ShortOf(entry, entry)
<1>1. entry.body \in Seq(W) /\ entry.name \in Seq(N)
  BY DEF Entry
<1>2. \E k \in 0..Len(entry.name) : entry.name = Upto(entry.name, k)
  BY <1>1, AllOfIt
<1>3. \E k \in 0..Len(entry.body) : entry.body = Upto(entry.body, k)
  BY <1>1, AllOfIt
<1> QED BY <1>2, <1>3 DEF ShortOf

(* Between two places of a text that was cut off. *)
LEMMA BetweenOfCut ==
  ASSUME NEW W, NEW text \in Seq(W), NEW cut \in 0..Len(text),
         NEW from \in 1..(cut + 1), NEW to \in Int, from - 1 <= to, to <= Len(text)
  PROVE  /\ to <= cut => SubSeq(Upto(text, cut), from, to) = SubSeq(text, from, to)
         /\ cut <= to => \E k \in 0..Len(SubSeq(text, from, to)) :
              SubSeq(Upto(text, cut), from, cut) = Upto(SubSeq(text, from, to), k)
<1>1. /\ Len(text) \in Nat /\ cut \in Nat /\ cut <= Len(text)
      /\ Upto(text, cut) \in Seq(W) /\ Len(Upto(text, cut)) = cut
      /\ \A n \in 1..cut : Upto(text, cut)[n] = text[n]
  BY UptoIs
<1>2. ASSUME to <= cut PROVE SubSeq(Upto(text, cut), from, to) = SubSeq(text, from, to)
  BY <1>1, <1>2
<1>3. ASSUME cut <= to
      PROVE  \E k \in 0..Len(SubSeq(text, from, to)) :
               SubSeq(Upto(text, cut), from, cut) = Upto(SubSeq(text, from, to), k)
  <2> DEFINE body == SubSeq(text, from, to)
             k == cut + 1 - from
  <2>1. k \in Nat /\ from - 1 + k = cut
    BY <1>1
  <2>2. Len(body) = to + 1 - from /\ Len(body) \in Nat
    BY <1>1
  <2>3. k \in 0..Len(body)
    <3> HIDE DEF body
    <3> QED BY <1>1, <1>3, <2>1, <2>2
  <2>4. SubSeq(Upto(text, cut), from, cut) = Upto(body, k)
    BY <1>1, <1>3, <2>1 DEF Upto
  <2> QED BY <2>3, <2>4
<1> QED BY <1>2, <1>3

(* Where the places of an entry are in a text that was cut off. *)
LEMMA PlacesOfCut ==
  ASSUME NEW W, NEW text \in Seq(W), NEW x, Moves(W, x),
         NEW cut \in 0..Len(text), NEW i \in 1..(cut + 1)
  PROVE  LET part == Upto(text, cut)
         IN  /\ Start(part, i, x) = Clip(Start(text, i, x), cut)
             /\ Start(text, i, x) <= cut =>
                  /\ Stop(part, i, x) = Clip(Stop(text, i, x), cut)
                  /\ OpenAt(part, i, x) = Clip(OpenAt(text, i, x), cut)
<1> DEFINE part == Upto(text, cut)
           s == Start(text, i, x)
           t == Stop(text, i, x)
           o == OpenAt(text, i, x)
<1>1. /\ Len(text) \in Nat /\ cut \in Nat /\ cut <= Len(text) /\ i \in Nat
      /\ i \in 1..(Len(text) + 1) /\ part \in Seq(W) /\ Len(part) = cut
  BY UptoIs
<1> HIDE DEF part
<1>2. Start(part, i, x) = Clip(s, cut)
  BY PastOfCut DEF Start, part
<1>3. ASSUME s <= cut
      PROVE  Stop(part, i, x) = Clip(t, cut) /\ OpenAt(part, i, x) = Clip(o, cut)
  <2>1. /\ s \in i..Len(text) /\ t \in s..(Len(text) + 1) /\ o \in t..(Len(text) + 1)
    <3>1. s \in i..(Len(text) + 1)
      BY <1>1, PastIs DEF Start
    <3>2. ~(s > Len(text))
      <4> HIDE DEF s
      <4> QED BY <1>1, <1>3, <3>1
    <3> QED BY <1>1, <3>2, Places
  <2>2. Start(part, i, x) = s
    BY <1>2, <1>3 DEF Clip
  <2>3. t = Past(text, s, x.name) /\ o = Past(text, t, x.gap)
    BY Zenon DEF Stop, OpenAt
  <2>4. Stop(part, i, x) = Past(part, s, x.name)
    BY <2>2, Zenon DEF Stop
  <2>5. OpenAt(part, i, x) = Past(part, Stop(part, i, x), x.gap)
    BY Zenon DEF OpenAt
  <2> HIDE DEF s, t, o
  <2>6. s \in 1..(cut + 1) /\ s \in Int /\ t \in Int /\ o \in Int
    BY <1>1, <1>3, <2>1
  <2>7. Stop(part, i, x) = Clip(t, cut)
    BY <2>3, <2>4, <2>6, PastOfCut DEF part
  <2>8. CASE t <= cut
    <3>1. Stop(part, i, x) = t /\ t \in 1..(cut + 1)
      BY <1>1, <2>1, <2>6, <2>7, <2>8 DEF Clip
    <3>2. OpenAt(part, i, x) = Clip(o, cut)
      BY <2>3, <2>5, <3>1, PastOfCut DEF part
    <3> QED BY <2>7, <3>2
  <2>9. CASE ~(t <= cut)
    <3>1. Stop(part, i, x) = cut + 1 /\ Clip(o, cut) = cut + 1
      BY <1>1, <2>1, <2>6, <2>7, <2>9 DEF Clip
    <3>2. Past(part, cut + 1, x.gap) = cut + 1
      <4>1. cut + 1 \in 1..(Len(part) + 1)
        BY <1>1
      <4>2. Past(part, cut + 1, x.gap) \in (cut + 1)..(Len(part) + 1)
        BY <1>1, <4>1, PastIs
      <4> QED BY <1>1, <4>2
    <3> QED BY <2>5, <2>7, <3>1, <3>2
  <2> QED BY <2>8, <2>9
<1> QED BY <1>2, <1>3 DEF s, t, o, part

(* The entry at a character before the cut is the same, or the last and short. *)
LEMMA ItemOfCut ==
  ASSUME NEW W, NEW text \in Seq(W), NEW x, Moves(W, x),
         NEW cut \in 0..Len(text), NEW i \in 1..(cut + 1), Start(text, i, x) <= cut
  PROVE  LET part == Upto(text, cut)
         IN  \/ /\ Item(part, i, x) = Item(text, i, x)
                /\ After(part, i, x) = After(text, i, x)
                /\ After(text, i, x) <= cut + 1
             \/ /\ ShortOf(Item(part, i, x), Item(text, i, x))
                /\ After(part, i, x) = cut + 1
<1> DEFINE part == Upto(text, cut)
           s == Start(text, i, x)
           t == Stop(text, i, x)
           o == OpenAt(text, i, x)
           c == Closed(text, i, x)
<1>1. /\ Len(text) \in Nat /\ cut \in Nat /\ cut <= Len(text) /\ part \in Seq(W) /\ Len(part) = cut
      /\ i \in Nat /\ i \in 1..(Len(text) + 1)
      /\ \A n \in 1..cut : part[n] = text[n]
  BY UptoIs
<1>2. ~(s > Len(text))
  <2>1. s \in i..(Len(text) + 1)
    BY <1>1, PastIs DEF Start
  <2> HIDE DEF s
  <2>2. s <= cut
    BY DEF s
  <2> QED BY <1>1, <2>1, <2>2
<1>3. /\ s \in i..Len(text) /\ t \in s..(Len(text) + 1) /\ o \in t..(Len(text) + 1)
      /\ Grouped(text, i, x) => o \in 1..Len(text) /\ c \in o..(Len(text) + 1)
  BY <1>1, <1>2, Places
<1>4. /\ Start(part, i, x) = Clip(s, cut) /\ Stop(part, i, x) = Clip(t, cut)
      /\ OpenAt(part, i, x) = Clip(o, cut)
  BY PlacesOfCut
<1>5. s <= cut
  OBVIOUS
<1>6. Start(part, i, x) = s
  BY <1>4, <1>5 DEF Clip
<1>7. /\ NameAt(part, i, x) = SubSeq(part, s, Stop(part, i, x) - 1)
      /\ NameAt(text, i, x) = SubSeq(text, s, t - 1)
  BY <1>6 DEF NameAt
<1>8. Item(text, i, x) \in Entry(Spelling(W, x), W)
  BY <1>1, <1>2, EntryIs
<1>9. /\ Grouped(text, i, x) => Item(text, i, x) =
           [name |-> NameAt(text, i, x), body |-> BodyAt(text, i, x), group |-> TRUE]
      /\ ~Grouped(text, i, x) => Item(text, i, x) =
           [name |-> NameAt(text, i, x), body |-> <<>>, group |-> FALSE]
      /\ Grouped(part, i, x) => Item(part, i, x) =
           [name |-> NameAt(part, i, x), body |-> BodyAt(part, i, x), group |-> TRUE]
      /\ ~Grouped(part, i, x) => Item(part, i, x) =
           [name |-> NameAt(part, i, x), body |-> <<>>, group |-> FALSE]
  BY Zenon DEF Item
<1>10. /\ (Grouped(part, i, x) <=> ~(OpenAt(part, i, x) > cut \/ part[OpenAt(part, i, x)] # Open))
       /\ (Grouped(text, i, x) <=> ~(o > Len(text) \/ text[o] # Open))
  BY <1>1 DEF Grouped
<1>11. /\ After(part, i, x) = IF ~Grouped(part, i, x) THEN OpenAt(part, i, x)
                              ELSE IF Closed(part, i, x) > cut THEN cut + 1
                              ELSE Closed(part, i, x) + 1
       /\ After(text, i, x) = IF ~Grouped(text, i, x) THEN o
                              ELSE IF c > Len(text) THEN Len(text) + 1 ELSE c + 1
  BY <1>1 DEF After
<1>12. /\ BodyAt(part, i, x) = SubSeq(part, OpenAt(part, i, x) + 1, Closed(part, i, x) - 1)
       /\ BodyAt(text, i, x) = SubSeq(text, o + 1, c - 1)
       /\ Closed(part, i, x) = GroupEnd(part, OpenAt(part, i, x)) /\ c = GroupEnd(text, o)
  BY Zenon DEF BodyAt, Closed
<1> HIDE DEF part, s, t, o, c
<1>13. s \in Int /\ t \in Int /\ o \in Int /\ s \in 1..(cut + 1) /\ s - 1 <= t - 1 /\ t - 1 <= Len(text)
  BY <1>1, <1>3, <1>5
<1>14. \E k \in 0..Len(NameAt(text, i, x)) : NameAt(part, i, x) = Upto(NameAt(text, i, x), k)
  <2>1. CASE t <= cut
    <3>1. Stop(part, i, x) - 1 = t - 1 /\ t - 1 <= cut /\ t - 1 \in Int
      BY <1>1, <1>4, <1>13, <2>1 DEF Clip
    <3>2. SubSeq(part, s, t - 1) = SubSeq(text, s, t - 1)
      BY <1>13, <3>1, BetweenOfCut DEF part
    <3>3. NameAt(part, i, x) = NameAt(text, i, x)
      BY <1>7, <3>1, <3>2
    <3>4. NameAt(text, i, x) \in Seq(Spelling(W, x))
      BY <1>1, <1>2, EntryIs DEF s
    <3> QED BY <3>3, <3>4, AllOfIt
  <2>2. CASE ~(t <= cut)
    <3>1. Stop(part, i, x) - 1 = cut /\ cut <= t - 1 /\ t - 1 \in Int
      BY <1>1, <1>4, <1>13, <2>2 DEF Clip
    <3> DEFINE to == t - 1
    <3>2. to \in Int /\ s - 1 <= to /\ to <= Len(text) /\ cut <= to
      BY <1>13, <3>1
    <3> HIDE DEF to
    <3>3. \E k \in 0..Len(SubSeq(text, s, to)) :
            SubSeq(part, s, cut) = Upto(SubSeq(text, s, to), k)
      BY <1>13, <3>2, BetweenOfCut DEF part
    <3> QED BY <1>7, <3>1, <3>3 DEF to
  <2> QED BY <2>1, <2>2
<1>15. CASE ~(o <= cut)
  <2>1. OpenAt(part, i, x) = cut + 1 /\ ~Grouped(part, i, x)
    BY <1>1, <1>4, <1>10, <1>15 DEF Clip
  <2>2. After(part, i, x) = cut + 1
    BY <1>11, <2>1
  <2>3. /\ Item(part, i, x).name = NameAt(part, i, x) /\ Item(part, i, x).body = <<>>
        /\ ~Item(part, i, x).group /\ Item(text, i, x).name = NameAt(text, i, x)
    BY <1>9, <2>1
  <2>4. \E k \in 0..Len(Item(text, i, x).body) : <<>> = Upto(Item(text, i, x).body, k)
    <3>1. Item(text, i, x).body \in Seq(W)
      BY <1>8 DEF Entry
    <3> QED BY <3>1, AllOfIt
  <2>5. ShortOf(Item(part, i, x), Item(text, i, x))
    BY <1>14, <2>3, <2>4 DEF ShortOf
  <2> QED BY <2>2, <2>5 DEF part
<1>16. CASE o <= cut
  <2>1. t <= cut /\ o \in 1..cut /\ o <= Len(text)
    BY <1>1, <1>3, <1>13, <1>16
  <2>2. OpenAt(part, i, x) = o /\ Stop(part, i, x) = t
    BY <1>4, <1>16, <2>1 DEF Clip
  <2>3. NameAt(part, i, x) = NameAt(text, i, x)
    <3>1. t - 1 <= cut /\ t - 1 \in Int
      BY <1>1, <1>13, <2>1
    <3>2. SubSeq(part, s, t - 1) = SubSeq(text, s, t - 1)
      BY <1>13, <3>1, BetweenOfCut DEF part
    <3> QED BY <1>7, <2>2, <3>2
  <2>4. Grouped(part, i, x) <=> Grouped(text, i, x)
    <3>1. part[o] = text[o] /\ ~(o > cut) /\ ~(o > Len(text))
      BY <1>1, <2>1
    <3> QED BY <1>10, <2>2, <3>1
  <2>5. CASE ~Grouped(text, i, x)
    <3>1. Item(part, i, x) = Item(text, i, x)
      BY <1>9, <2>3, <2>4, <2>5
    <3>2. After(part, i, x) = o /\ After(text, i, x) = o /\ o <= cut + 1
      BY <1>1, <1>11, <2>1, <2>2, <2>4, <2>5
    <3> QED BY <3>1, <3>2 DEF part
  <2>6. CASE Grouped(text, i, x)
    <3> DEFINE mine == Closed(part, i, x)
    <3>1. mine = Clip(c, cut)
      BY <1>12, <2>1, <2>2, GroupEndOfCut DEF Clip, part
    <3>2. c \in o..(Len(text) + 1) /\ c \in Int
      BY <1>1, <1>3, <1>13, <2>6
    <3>3. /\ BodyAt(part, i, x) = SubSeq(part, o + 1, mine - 1)
          /\ After(part, i, x) = IF mine > cut THEN cut + 1 ELSE mine + 1
          /\ After(text, i, x) = IF c > Len(text) THEN Len(text) + 1 ELSE c + 1
      BY <1>11, <1>12, <2>2, <2>4, <2>6
    <3>4. /\ Item(part, i, x).name = NameAt(text, i, x) /\ Item(part, i, x).body = BodyAt(part, i, x)
          /\ Item(text, i, x).name = NameAt(text, i, x) /\ Item(text, i, x).body = BodyAt(text, i, x)
          /\ Item(text, i, x).group
      BY <1>9, <2>3, <2>4, <2>6
    <3> HIDE DEF mine
    <3>5. o + 1 \in 1..(cut + 1) /\ c - 1 \in Int /\ (o + 1) - 1 <= (c - 1) + 1 /\ c - 1 <= Len(text)
      BY <1>1, <2>1, <3>2
    <3>6. CASE c <= cut
      <4>1. mine = c /\ c - 1 <= cut
        BY <1>1, <3>1, <3>2, <3>6 DEF Clip
      <4>2. SubSeq(part, o + 1, c - 1) = SubSeq(text, o + 1, c - 1)
        <5> DEFINE from == o + 1
                   to == c - 1
        <5>1. from \in Nat /\ from >= 1 /\ to \in Int /\ to <= cut
          BY <1>1, <3>5, <4>1
        <5> HIDE DEF from, to
        <5>2. SubSeq(part, from, to) = SubSeq(text, from, to)
          BY <1>1, <5>1
        <5> QED BY <5>2 DEF from, to
      <4>3. Item(part, i, x) = Item(text, i, x)
        BY <1>9, <1>12, <2>3, <2>4, <2>6, <3>3, <4>1, <4>2
      <4>4. After(part, i, x) = c + 1 /\ After(text, i, x) = c + 1 /\ c + 1 <= cut + 1
        BY <1>1, <3>2, <3>3, <3>6, <4>1
      <4> QED BY <4>3, <4>4 DEF part
    <3>7. CASE ~(c <= cut)
      <4>1. mine = cut + 1 /\ mine - 1 = cut /\ cut <= c - 1
        BY <1>1, <3>1, <3>2, <3>7 DEF Clip
      <4>2. After(part, i, x) = cut + 1
        BY <1>1, <3>3, <4>1
      <4>3. (o + 1) - 1 <= c - 1
        BY <1>1, <2>1, <3>2, <4>1
      <4> DEFINE from == o + 1
                 to == c - 1
      <4>8. from \in 1..(cut + 1) /\ to \in Int /\ from - 1 <= to /\ to <= Len(text) /\ cut <= to
        BY <3>5, <4>1, <4>3
      <4> HIDE DEF from, to
      <4>4. \E k \in 0..Len(SubSeq(text, from, to)) :
              SubSeq(part, from, cut) = Upto(SubSeq(text, from, to), k)
        BY <4>8, BetweenOfCut DEF part
      <4>5. \E k \in 0..Len(BodyAt(text, i, x)) : BodyAt(part, i, x) = Upto(BodyAt(text, i, x), k)
        BY <1>12, <3>3, <4>1, <4>4 DEF from, to
      <4>6. \E k \in 0..Len(NameAt(text, i, x)) : NameAt(text, i, x) = Upto(NameAt(text, i, x), k)
        BY <1>14, <2>3
      <4>7. ShortOf(Item(part, i, x), Item(text, i, x))
        BY <3>4, <4>5, <4>6 DEF ShortOf
      <4> QED BY <4>2, <4>7 DEF part
    <3> QED BY <3>6, <3>7
  <2> QED BY <2>5, <2>6
<1> QED BY <1>15, <1>16

LEMMA SameFirst ==
  ASSUME NEW E, NEW e \in E, NEW s \in Seq(E), NEW t \in Seq(E), ShortOf(e, e), CutOff(s, t)
  PROVE  CutOff(<<e>> \o s, <<e>> \o t)
<1> DEFINE es == <<e>> \o s
           et == <<e>> \o t
<1>1. Len(s) \in Nat /\ Len(t) \in Nat /\ Len(s) <= Len(t)
  BY LenProperties DEF CutOff
<1>2. Len(es) = Len(s) + 1 /\ Len(et) = Len(t) + 1 /\ es[1] = e /\ et[1] = e
  BY <1>1
<1>3. ASSUME NEW j \in 1..Len(es), j # 1
      PROVE  j - 1 \in 1..Len(s) /\ j - 1 \in 1..Len(t) /\ es[j] = s[j - 1] /\ et[j] = t[j - 1]
  BY <1>1, <1>2, <1>3
<1>4. /\ \A j \in 1..Len(s) : ShortOf(s[j], t[j])
      /\ \A j \in 1..Len(s) : j # Len(s) => s[j] = t[j]
  BY DEF CutOff
<1> HIDE DEF es, et
<1>5. ASSUME NEW j \in 1..Len(es) PROVE ShortOf(es[j], et[j])
  <2>1. CASE j = 1
    BY <1>2, <2>1
  <2>2. CASE j # 1
    BY <1>3, <1>4, <2>2
  <2> QED BY <2>1, <2>2
<1>6. ASSUME NEW j \in 1..Len(es), j # Len(es) PROVE es[j] = et[j]
  <2>1. CASE j = 1
    BY <1>2, <2>1
  <2>2. CASE j # 1
    <3>1. j - 1 # Len(s)
      BY <1>1, <1>2, <1>6
    <3> QED BY <1>3, <1>4, <2>2, <3>1
  <2> QED BY <2>1, <2>2
<1>7. Len(es) <= Len(et)
  BY <1>1, <1>2
<1>8. CutOff(es, et)
  BY <1>5, <1>6, <1>7 DEF CutOff
<1> QED BY <1>8 DEF es, et

LEMMA ShortLast ==
  ASSUME NEW E, NEW e \in E, NEW f \in E, NEW t \in Seq(E), ShortOf(e, f)
  PROVE  CutOff(<<e>> \o <<>>, <<f>> \o t)
<1> DEFINE es == <<e>> \o <<>>
           ft == <<f>> \o t
<1>1. Len(es) = 1 /\ es[1] = e
  OBVIOUS
<1>2. Len(ft) \in Nat /\ 1 <= Len(ft) /\ ft[1] = f
  BY LenProperties
<1> HIDE DEF es, ft
<1>3. \A j \in 1..Len(es) : j = 1 /\ j = Len(es)
  BY <1>1
<1>4. CutOff(es, ft)
  BY <1>1, <1>2, <1>3 DEF CutOff
<1> QED BY <1>4 DEF es, ft

LEMMA NoneOfNone ==
  ASSUME NEW E, NEW t \in Seq(E)
  PROVE  CutOff(<<>>, t)
<1>1. Len(t) \in Nat /\ Len(<<>>) = 0
  BY LenProperties
<1>2. \A j \in 1..0 : FALSE
  OBVIOUS
<1> QED BY <1>1, <1>2 DEF CutOff

LEMMA RestOfCut ==
  ASSUME NEW W, NEW text \in Seq(W), NEW x, Moves(W, x), NEW cut \in 0..Len(text)
  PROVE  \A i \in 1..(cut + 1) :
           CutOff(EntriesFrom(Upto(text, cut), x)[i], EntriesFrom(text, x)[i])
<1> DEFINE part == Upto(text, cut)
           G == EntriesFrom(part, x)
           F == EntriesFrom(text, x)
           E == Entry(Spelling(W, x), W)
           P == {i \in 1..(cut + 1) : CutOff(G[i], F[i])}
<1>1. /\ Len(text) \in Nat /\ cut \in Nat /\ cut <= Len(text) /\ part \in Seq(W) /\ Len(part) = cut
  BY UptoIs
<1> HIDE DEF part
<1>2. /\ \A i \in 1..cut + 1 : G[i] = EntriesAt(G, part, x, i)
      /\ \A i \in 1..Len(text) + 1 : F[i] = EntriesAt(F, text, x, i)
  BY <1>1, EntriesExist
<1>3. /\ \A i \in 1..cut + 1 : G[i] \in Seq(E)
      /\ \A i \in 1..Len(text) + 1 : F[i] \in Seq(E)
  <2>1. \A i \in 1..Len(part) + 1 : G[i] \in Seq(E)
    BY <1>1, EntriesAreTyped
  <2>2. \A i \in 1..Len(text) + 1 : F[i] \in Seq(E)
    BY EntriesAreTyped
  <2> QED BY <1>1, <2>1, <2>2
<1> HIDE DEF G, F
<1>4. ASSUME NEW i \in 1..(cut + 1), \A j \in (i + 1)..(cut + 1) : j \in P
      PROVE  i \in P
  <2>0. i \in 1..(Len(text) + 1) /\ i \in 1..(Len(part) + 1) /\ i \in Nat
    BY <1>1
  <2> DEFINE s == Start(text, i, x)
             g == G[After(part, i, x)]
             f == F[After(text, i, x)]
             e == Item(part, i, x)
             d == Item(text, i, x)
  <2>1. Start(part, i, x) = Clip(s, cut) /\ s \in i..(Len(text) + 1)
    <3>1. Start(part, i, x) = Clip(s, cut)
      BY PlacesOfCut DEF part
    <3>2. s \in i..(Len(text) + 1)
      BY <2>0, PastIs DEF Start
    <3> QED BY <3>1, <3>2
  <2>2. /\ G[i] = IF Start(part, i, x) > cut THEN <<>> ELSE <<e>> \o g
        /\ F[i] = IF s > Len(text) THEN <<>> ELSE <<d>> \o f
    <3>1. G[i] = EntriesAt(G, part, x, i) /\ F[i] = EntriesAt(F, text, x, i)
      BY <1>2, <2>0
    <3> QED BY <1>1, <3>1 DEF EntriesAt
  <2>3. CASE ~(s <= cut)
    <3>1. Start(part, i, x) > cut
      <4> HIDE DEF s
      <4> QED BY <1>1, <2>1, <2>3 DEF Clip
    <3>2. G[i] = <<>> /\ F[i] \in Seq(E)
      BY <1>3, <2>0, <2>2, <3>1
    <3> HIDE DEF E
    <3>3. CutOff(G[i], F[i])
      BY <3>2, NoneOfNone
    <3> QED BY <3>3
  <2>4. CASE s <= cut
    <3>1. Start(part, i, x) = s /\ ~(Start(part, i, x) > cut) /\ ~(s > Len(text))
      <4> HIDE DEF s
      <4> QED BY <1>1, <2>0, <2>1, <2>4 DEF Clip
    <3>2. G[i] = <<e>> \o g /\ F[i] = <<d>> \o f
      BY <2>2, <3>1
    <3>3. After(part, i, x) \in (i + 1)..(cut + 1) /\ e \in E
      <4>1. ~(Start(part, i, x) > Len(part))
        BY <1>1, <3>1
      <4> QED BY <1>1, <2>0, <4>1, Places, EntryIs
    <3>4. After(text, i, x) \in (i + 1)..(Len(text) + 1) /\ d \in E
      BY <2>0, <3>1, Places, EntryIs
    <3>5. g \in Seq(E) /\ f \in Seq(E)
      <4>1. After(part, i, x) \in 1..cut + 1 /\ After(text, i, x) \in 1..Len(text) + 1
        BY <2>0, <3>3, <3>4
      <4> QED BY <1>3, <4>1
    <3>6. ASSUME After(part, i, x) = After(text, i, x) PROVE CutOff(g, f)
      BY <1>4, <3>3, <3>6
    <3>7. ShortOf(d, d)
      BY <3>4, NothingIsCut
    <3>8. \/ e = d /\ After(part, i, x) = After(text, i, x)
          \/ ShortOf(e, d) /\ After(part, i, x) = cut + 1
      BY <2>4, ItemOfCut DEF part
    <3>9. G[cut + 1] = <<>>
      <4>1. cut + 1 \in 1..(Len(part) + 1) /\ cut + 1 \in 1..(cut + 1)
        BY <1>1
      <4>2. Start(part, cut + 1, x) \in (cut + 1)..(Len(part) + 1)
        BY <1>1, <4>1, PastIs DEF Start
      <4>3. Start(part, cut + 1, x) > Len(part)
        BY <1>1, <4>2
      <4> QED BY <1>2, <4>1, <4>3 DEF EntriesAt
    <3> HIDE DEF E, s
    <3>10. CASE e = d /\ After(part, i, x) = After(text, i, x)
      <4>1. CutOff(g, f)
        BY <3>6, <3>10
      <4> HIDE DEF g, f, d, e
      <4>2. CutOff(<<d>> \o g, <<d>> \o f)
        BY <3>4, <3>5, <3>7, <4>1, SameFirst
      <4>3. CutOff(G[i], F[i])
        BY <3>2, <3>10, <4>2
      <4> QED BY <4>3
    <3>11. CASE ShortOf(e, d) /\ After(part, i, x) = cut + 1
      <4>1. g = <<>>
        BY <3>9, <3>11
      <4> HIDE DEF g, f, d, e
      <4>2. CutOff(<<e>> \o <<>>, <<d>> \o f)
        BY <3>3, <3>4, <3>5, <3>11, ShortLast
      <4>3. CutOff(G[i], F[i])
        BY <3>2, <4>1, <4>2
      <4> QED BY <4>3
    <3> QED BY <3>8, <3>10, <3>11
  <2> QED BY <2>3, <2>4
<1> HIDE DEF P
<1>5. \A i \in 1..(cut + 1) : i \in P
  BY <1>1, <1>4, Backwards
<1> QED BY <1>5 DEF P, F, G, part

(***************************************************************************)
(* splitSections and parseVcpBody, on a text that arrives cut off at any   *)
(* character, whatever is in it: the entries found are those of the whole  *)
(* text as far as it came, and only the last of them may be short, in its  *)
(* name or in the body of its group.                                       *)
(***************************************************************************)
THEOREM CutTextKeepsEntries ==
  ASSUME NEW W, NEW text \in Seq(W), NEW x \in {SectionSyntax, TableSyntax},
         NEW cut \in 0..Len(text)
  PROVE  CutOff(Entries(SubSeq(text, 1, cut), x), Entries(text, x))
<1>1. cut \in Nat /\ 1 \in 1..(cut + 1)
  BY UptoIs
<1>2. Moves(W, x)
  BY SyntaxesMove
<1>3. CutOff(EntriesFrom(Upto(text, cut), x)[1], EntriesFrom(text, x)[1])
  BY <1>1, <1>2, RestOfCut
<1> QED BY <1>3, EntriesIs, Zenon DEF Upto

(* A text without an outer group, or that is one outer group, which may never end. *)
Wrapped(text) == text # <<>> /\ text[1] = Open => GroupEnd(text, 1) >= Len(text)

(* What is within the outer group of the text that arrived was within that of the whole. *)
LEMMA InsideOfCut ==
  ASSUME NEW W, NEW text \in Seq(W), Wrapped(text), NEW cut \in 0..Len(text)
  PROVE  LET inside == StripOuterGroup(text)
         IN  /\ inside \in Seq(W)
             /\ \E k \in 0..Len(inside) : StripOuterGroup(Upto(text, cut)) = Upto(inside, k)
<1> DEFINE inside == StripOuterGroup(text)
           part == Upto(text, cut)
           mine == StripOuterGroup(part)
           L == Len(text)
<1>1. /\ L \in Nat /\ cut \in Nat /\ cut <= L /\ part \in Seq(W) /\ Len(part) = cut
      /\ \A n \in 1..cut : part[n] = text[n]
  BY UptoIs
<1>2. part = <<>> <=> cut = 0
  <2> HIDE DEF part
  <2> QED BY <1>1
<1>3. CASE text = <<>> \/ text[1] # Open
  <2>1. inside = text
    BY <1>3 DEF StripOuterGroup
  <2>2. part = <<>> \/ part[1] # Open
    BY <1>1, <1>2, <1>3
  <2>3. mine = part
    BY <2>2 DEF StripOuterGroup
  <2> QED BY <2>1, <2>3
<1>4. CASE text # <<>> /\ text[1] = Open
  <2>1. L >= 1 /\ GroupEnd(text, 1) >= L
    BY <1>1, <1>4 DEF Wrapped
  <2>2. GroupEnd(text, 1) \in {L, L + 1}
    <3>1. 1 \in 1..L
      BY <1>1, <2>1
    <3>2. GroupEnd(text, 1) \in 1..(L + 1)
      BY <3>1, GroupEndIs
    <3> QED BY <1>1, <2>1, <3>2
  <2> DEFINE last == IF GroupEnd(text, 1) = L THEN L - 1 ELSE L
  <2>3. inside = SubSeq(text, 2, last)
    <3>1. CASE GroupEnd(text, 1) = L
      BY <1>4, <3>1 DEF StripOuterGroup
    <3>2. CASE GroupEnd(text, 1) = L + 1
      <4>1. L + 1 # L /\ L + 1 > L
        BY <1>1
      <4>2. inside = Tail(text)
        BY <1>4, <3>2, <4>1 DEF StripOuterGroup
      <4>3. Tail(text) = SubSeq(text, 2, L)
        BY <1>1, <2>1
      <4> QED BY <3>2, <4>1, <4>2, <4>3
    <3> QED BY <2>2, <3>1, <3>2
  <2>4. last \in Nat /\ last <= L /\ last >= L - 1
    BY <1>1, <2>1
  <2> HIDE DEF last, inside
  <2>5. inside \in Seq(W) /\ Len(inside) = last - 1 + (IF last = 0 THEN 1 ELSE 0)
    BY <1>1, <2>1, <2>3, <2>4
  <2>6. CASE cut = 0
    <3>1. mine = <<>>
      BY <1>2, <2>6 DEF StripOuterGroup
    <3>2. Upto(inside, 0) = <<>> /\ 0 \in 0..Len(inside)
      BY <2>5 DEF Upto
    <3> QED BY <2>5, <3>1, <3>2 DEF inside
  <2>7. CASE cut = L
    <3>1. part = text
      BY <1>1, <2>7 DEF Upto
    <3>2. Len(inside) \in Nat /\ Upto(inside, Len(inside)) = inside
      BY <2>5 DEF Upto
    <3>3. Len(inside) \in 0..Len(inside)
      BY <3>2
    <3> QED BY <2>5, <3>1, <3>2, <3>3 DEF inside
  <2>8. CASE cut # 0 /\ cut # L
    <3>1. cut \in 1..last /\ 1 \in 1..cut /\ GroupEnd(text, 1) > cut
      <4>1. cut \in Int /\ L \in Int /\ last \in Int /\ cut >= 1 /\ cut <= L - 1
        BY <1>1, <2>4, <2>8
      <4>2. GroupEnd(text, 1) = L \/ GroupEnd(text, 1) = L + 1
        BY <2>2
      <4> HIDE DEF L
      <4> QED BY <2>4, <4>1, <4>2
    <3>2. GroupEnd(part, 1) = cut + 1
      <4>1. ~(GroupEnd(text, 1) <= cut)
        BY <1>1, <2>2, <3>1
      <4> QED BY <3>1, <4>1, GroupEndOfCut
    <3>3. mine = Tail(part)
      <4>1. part # <<>> /\ part[1] = Open
        BY <1>1, <1>2, <1>4, <2>8, <3>1
      <4>2. cut + 1 # cut /\ cut + 1 > cut
        BY <1>1
      <4> HIDE DEF part
      <4> QED BY <1>1, <3>2, <4>1, <4>2 DEF StripOuterGroup
    <3>4. Tail(part) = SubSeq(text, 2, cut)
      BY <1>1, <2>8 DEF Upto
    <3>5. SubSeq(text, 2, cut) = Upto(inside, cut - 1)
      BY <1>1, <2>3, <2>4, <3>1 DEF Upto
    <3>6. cut - 1 \in 0..Len(inside)
      BY <1>1, <2>4, <2>5, <3>1
    <3> QED BY <2>5, <3>3, <3>4, <3>5, <3>6 DEF inside
  <2> QED BY <2>6, <2>7, <2>8
<1> QED BY <1>3, <1>4

(* Of the entries: those that are groups of a name. *)
Named(entries, name) == {j \in 1..Len(entries) : entries[j].group /\ entries[j].name = name}

LEMMA SectionIs ==
  ASSUME NEW text, NEW name
  PROVE  LET entries == Entries(StripOuterGroup(text), SectionSyntax)
             found == Named(entries, name)
         IN  SectionBody(text, name) = IF found = {} THEN <<>> ELSE entries[Min(found)].body
<1> DEFINE entries == Entries(StripOuterGroup(text), SectionSyntax)
           found == Named(entries, name)
           at == SelectInSeq(entries, LAMBDA e : e.group /\ e.name = name)
<1>1. at = IF found # {} THEN Min(found) ELSE 0
  BY DEF SelectInSeq, Named
<1>2. SectionBody(text, name) = IF at = 0 THEN <<>> ELSE entries[at].body
  BY DEF SectionBody, FirstGroup
<1>3. found \in SUBSET Nat /\ 0 \notin found
  <2> HIDE DEF entries
  <2> QED BY DEF Named
<1> HIDE DEF at, found, entries
<1>4. found # {} => Min(found) # 0
  BY <1>3, LeastIsThere
<1> QED BY <1>1, <1>2, <1>4 DEF found, entries

LEMMA SectionOfCut ==
  ASSUME NEW W, NEW text \in Seq(W), Wrapped(text), NEW cut \in 0..Len(text), NEW name
  PROVE  /\ SectionBody(text, name) \in Seq(W)
         /\ \E k \in 0..Len(SectionBody(text, name)) :
              SectionBody(SubSeq(text, 1, cut), name) = Upto(SectionBody(text, name), k)
<1> DEFINE inside == StripOuterGroup(text)
           part == Upto(text, cut)
           es == Entries(StripOuterGroup(part), SectionSyntax)
           et == Entries(inside, SectionSyntax)
           fs == Named(es, name)
           ft == Named(et, name)
           bs == SectionBody(part, name)
           bt == SectionBody(text, name)
<1>1. inside \in Seq(W)
  BY InsideOfCut
<1>2. PICK n \in 0..Len(inside) : StripOuterGroup(part) = Upto(inside, n)
  BY InsideOfCut
<1>3. /\ bs = IF fs = {} THEN <<>> ELSE es[Min(fs)].body
      /\ bt = IF ft = {} THEN <<>> ELSE et[Min(ft)].body
  BY SectionIs
<1> HIDE DEF inside, part, bs, bt
<1>4. CutOff(es, et)
  BY <1>1, <1>2, CutTextKeepsEntries DEF Upto
<1> DEFINE E == Entry(Spelling(W, SectionSyntax), W)
<1>5. et \in Seq(E) /\ Len(et) \in Nat
  BY <1>1, SyntaxesMove, EntriesTyped, LenProperties
<1> HIDE DEF es, et
<1>6. ft \in SUBSET Nat /\ fs \in SUBSET Nat
  BY DEF Named
<1>7. \A j \in 1..Len(es) : j \in 1..Len(et) /\ ShortOf(es[j], et[j])
                          /\ (j # Len(es) => es[j] = et[j])
  <2>1. Len(es) <= Len(et) /\ (Len(es) \in Nat \/ 1..Len(es) = {})
    <3>1. es \in Seq(E)
      <4>1. StripOuterGroup(part) \in Seq(W)
        BY <1>1, <1>2, UptoIs
      <4> QED BY <4>1, SyntaxesMove, EntriesTyped DEF es
    <3> QED BY <1>4, <3>1, LenProperties DEF CutOff
  <2> QED BY <1>4, <1>5, <2>1 DEF CutOff
<1>8. fs \subseteq ft
  BY <1>7 DEF Named, ShortOf
<1>9. ASSUME NEW j \in ft, NEW m \in fs, j < m PROVE j \in fs
  <2>1. j \in 1..Len(es) /\ j # Len(es) /\ m \in 1..Len(es)
    BY <1>6, <1>9 DEF Named
  <2>2. es[j] = et[j]
    BY <1>7, <2>1
  <2> QED BY <2>1, <2>2 DEF Named
<1> DEFINE a == Min(fs)
           b == Min(ft)
<1>10. bt \in Seq(W)
  <2>1. CASE ft = {}
    <3>1. <<>> \in Seq(W)
      OBVIOUS
    <3> QED BY <1>3, <2>1, <3>1
  <2>2. CASE ft # {}
    <3>1. b \in ft
      BY <1>6, <2>2, LeastIsThere
    <3>2. et[b] \in E
      BY <1>5, <3>1 DEF Named
    <3> QED BY <1>3, <2>2, <3>2 DEF Entry
  <2> QED BY <2>1, <2>2
<1>11. \E k \in 0..Len(bt) : bs = Upto(bt, k)
  <2>1. CASE fs = {}
    <3>1. Upto(bt, 0) = <<>> /\ 0 \in 0..Len(bt)
      BY <1>10 DEF Upto
    <3> QED BY <1>3, <2>1, <3>1
  <2>2. CASE fs # {}
    <3>1. a \in fs /\ \A m \in fs : a <= m
      BY <1>6, <2>2, LeastIsThere
    <3>2. b \in ft /\ \A m \in ft : b <= m
      BY <1>6, <1>8, <2>2, LeastIsThere
    <3> HIDE DEF a, b
    <3>3. b <= a /\ a \in Nat /\ b \in Nat
      BY <1>6, <1>8, <3>1, <3>2
    <3>4. b = a
      <4>1. b < a => b \in fs
        BY <1>9, <3>1, <3>2
      <4> QED BY <3>1, <3>3, <4>1
    <3>5. bs = es[a].body /\ bt = et[a].body
      BY <1>3, <1>8, <2>2, <3>4 DEF a, b
    <3>6. ShortOf(es[a], et[a])
      BY <1>7, <3>1 DEF Named
    <3> QED BY <3>5, <3>6 DEF ShortOf
  <2> QED BY <2>1, <2>2
<1> QED BY <1>10, <1>11 DEF bs, bt, part, Upto

(***************************************************************************)
(* parseCapabilities on a string that arrives cut off anywhere: what       *)
(* sections.find returns for a name is what it would have returned for the *)
(* whole string, as far as it came, and nothing of another section.        *)
(***************************************************************************)
THEOREM CutSectionIsPrefix ==
  ASSUME NEW W, NEW text \in Seq(W), Wrapped(text), NEW cut \in 0..Len(text), NEW name
  PROVE  IsPrefix(SectionBody(SubSeq(text, 1, cut), name), SectionBody(text, name))
<1> DEFINE body == SectionBody(text, name)
           short == SectionBody(SubSeq(text, 1, cut), name)
<1>1. body \in Seq(W)
  BY SectionOfCut
<1>2. PICK k \in 0..Len(body) : short = Upto(body, k)
  BY SectionOfCut
<1> HIDE DEF body, short
<1>3. Len(short) = k /\ k \in Nat /\ k <= Len(body) /\ Len(body) \in Nat
  BY <1>1, <1>2, UptoIs
<1>4. SubSeq(short, 1, Len(short)) = SubSeq(body, 1, Len(short))
  BY <1>1, <1>2, <1>3 DEF Upto
<1>5. IsPrefix(short, body)
  BY <1>3, <1>4 DEF IsPrefix
<1> QED BY <1>5 DEF body, short

(* What is read of the VCP section of a text that was cut off. *)
LEMMA CodesOfCut ==
  ASSUME NEW W, NEW text \in Seq(W), Wrapped(text), NEW cut \in 0..Len(text)
  PROVE  LET es == Entries(SectionBody(SubSeq(text, 1, cut), Vcp), TableSyntax)
             et == Entries(SectionBody(text, Vcp), TableSyntax)
             E == Entry(Spelling(W, TableSyntax), W)
         IN  /\ es \in Seq(E) /\ et \in Seq(E)
             /\ \A j \in DOMAIN es : /\ j \in DOMAIN et
                                     /\ j # Len(es) => es[j] = et[j]
                                     /\ \E k \in 0..Len(et[j].name) : es[j].name = Upto(et[j].name, k)
<1> DEFINE body == SectionBody(text, Vcp)
           short == SectionBody(SubSeq(text, 1, cut), Vcp)
           es == Entries(short, TableSyntax)
           et == Entries(body, TableSyntax)
           E == Entry(Spelling(W, TableSyntax), W)
<1>1. body \in Seq(W)
  BY SectionOfCut
<1>2. PICK k \in 0..Len(body) : short = Upto(body, k)
  BY SectionOfCut
<1> HIDE DEF body, short
<1>3. short \in Seq(W)
  BY <1>1, <1>2, UptoIs
<1>4. es \in Seq(E) /\ et \in Seq(E)
  BY <1>1, <1>3, SyntaxesMove, EntriesTyped
<1>5. CutOff(es, et)
  BY <1>1, <1>2, CutTextKeepsEntries DEF Upto
<1> HIDE DEF es, et, E
<1>6. ASSUME NEW j \in DOMAIN es
      PROVE  /\ j \in DOMAIN et /\ (j # Len(es) => es[j] = et[j])
             /\ \E n \in 0..Len(et[j].name) : es[j].name = Upto(et[j].name, n)
  <2>1. j \in 1..Len(es) /\ Len(es) \in Nat /\ Len(et) \in Nat /\ Len(es) <= Len(et)
    BY <1>4, <1>5, LenProperties DEF CutOff
  <2>2. j \in 1..Len(et) /\ DOMAIN et = 1..Len(et)
    BY <1>4, <2>1, LenProperties
  <2>3. ShortOf(es[j], et[j]) /\ (j # Len(es) => es[j] = et[j])
    BY <1>5, <2>1 DEF CutOff
  <2> QED BY <2>2, <2>3 DEF ShortOf
<1> QED BY <1>4, <1>6 DEF es, et, E, body, short

(* At most one digit stands for less than 16. *)
LEMMA OneDigit ==
  ASSUME NEW digits \in Seq(Hex), Len(digits) <= 1
  PROVE  HexValue(digits) \in 0..15
<1> DEFINE At(g, n) == IF n = 0 THEN 0 ELSE 16 * g[n - 1] + Digit(digits[n])
           L == Len(digits)
           F == CHOOSE g : g = [n \in 0..L |-> At(g, n)]
<1>1. L \in Nat /\ L \in {0, 1}
  <2>1. L \in Nat /\ L <= 1
    BY LenProperties
  <2> HIDE DEF L
  <2> QED BY <2>1
<1>2. HexValue(digits) = F[L]
  BY DEF HexValue
<1>3. ASSUME NEW d \in Hex PROVE Digit(d) \in 0..15
  <2>1. PICK n \in 1..16 : d = UpperDigits[n] \/ d = LowerDigits[n]
    BY <1>3 DEF Hex
  <2>2. n - 1 \in 0..15 /\ (n - 1) + 1 = n
    OBVIOUS
  <2>3. \E m \in 0..15 : d \in {UpperDigits[m + 1], LowerDigits[m + 1]}
    BY <2>1, <2>2
  <2> QED BY <2>3, Zenon DEF Digit
<1> DEFINE f == [n \in 0..L |-> IF n = 0 THEN 0 ELSE Digit(digits[1])]
<1>4. L = 1 => Digit(digits[1]) \in 0..15
  <2>1. L = 1 => digits[1] \in Hex
    <3> SUFFICES ASSUME L = 1 PROVE digits[1] \in Hex
      OBVIOUS
    <3>1. 1 \in 1..Len(digits)
      OBVIOUS
    <3> HIDE DEF L
    <3> QED BY <3>1, ElementOfSeq
  <2> QED BY <1>3, <2>1
<1>5. f = [n \in 0..L |-> At(f, n)]
  <2>1. ASSUME NEW n \in 0..L PROVE f[n] = At(f, n)
    <3>1. CASE n = 0
      BY <3>1
    <3>2. CASE n # 0
      <4>1. n = 1 /\ L = 1 /\ n - 1 = 0 /\ 0 \in 0..L
        BY <1>1, <3>2
      <4>2. f[n] = Digit(digits[1]) /\ f[0] = 0
        BY <4>1
      <4> HIDE DEF f, L
      <4>3. At(f, n) = 16 * 0 + Digit(digits[1])
        BY <4>1, <4>2
      <4>4. Digit(digits[1]) \in Int
        BY <1>4, <4>1
      <4> QED BY <4>2, <4>3, <4>4
    <3> QED BY <3>1, <3>2
  <2> HIDE DEF At
  <2> QED BY <2>1
<1> HIDE DEF f
<1>6. F = [n \in 0..L |-> At(F, n)]
  <2> HIDE DEF At
  <2> QED BY <1>5, Zenon
<1> HIDE DEF F
<1>7. CASE L = 0
  <2>1. F[0] = 0
    BY <1>6, <1>7
  <2> QED BY <1>2, <1>7, <2>1
<1>8. CASE L = 1
  <2>1. F[0] = 0 /\ F[1] = 16 * F[0] + Digit(digits[1])
    BY <1>6, <1>8
  <2> QED BY <1>2, <1>4, <1>8, <2>1
<1> QED BY <1>1, <1>7, <1>8

(***************************************************************************)
(* What arrives of a capabilities string never makes a display able to do  *)
(* what the whole string does not.  Wherever it is cut off, inside a       *)
(* number too: if codes are written with at most two digits, every code    *)
(* parseVcpBody finds is one of the whole string, or what is left of one,  *)
(* which is less than 16; and that is none of those capabilitiesFromVcp    *)
(* looks for.                                                              *)
(***************************************************************************)
THEOREM CutInventsNothing ==
  ASSUME NEW W, NEW text \in Seq(W), Wrapped(text), NEW cut \in 0..Len(text),
         LET entries == Entries(SectionBody(text, Vcp), TableSyntax)
         IN  \A j \in DOMAIN entries : Len(entries[j].name) <= 2
  PROVE  LET part == VcpTable(SubSeq(text, 1, cut))
             whole == VcpTable(text)
         IN  /\ \A code \in DOMAIN part : code \in DOMAIN whole \/ code \in 0..15
             /\ CapabilitiesFromVcp(part) \subseteq CapabilitiesFromVcp(whole)
<1> DEFINE part == VcpTable(SubSeq(text, 1, cut))
           whole == VcpTable(text)
           es == Entries(SectionBody(SubSeq(text, 1, cut), Vcp), TableSyntax)
           et == Entries(SectionBody(text, Vcp), TableSyntax)
           N == Spelling(W, TableSyntax)
<1>1. /\ DOMAIN part = {CodeAt(es, i) : i \in DOMAIN es}
      /\ DOMAIN whole = {CodeAt(et, i) : i \in DOMAIN et}
  BY DEF VcpTable, TableOf
<1>2. /\ es \in Seq(Entry(N, W)) /\ et \in Seq(Entry(N, W))
      /\ \A j \in DOMAIN es : /\ j \in DOMAIN et
                              /\ \E k \in 0..Len(et[j].name) : es[j].name = Upto(et[j].name, k)
  BY CodesOfCut
<1>3. \A j \in DOMAIN et : Len(et[j].name) <= 2
  OBVIOUS
<1>4. N \subseteq Hex
  BY DEF Spelling, TableSyntax, In, Only
<1> HIDE DEF part, whole, es, et, N
<1>5. ASSUME NEW code \in DOMAIN part PROVE code \in DOMAIN whole \/ code \in 0..15
  <2>1. PICK j \in DOMAIN es : code = CodeAt(es, j)
    BY <1>1
  <2>2. PICK k \in 0..Len(et[j].name) : es[j].name = Upto(et[j].name, k)
    BY <1>2
  <2> DEFINE all == et[j].name
             mine == es[j].name
  <2>3. et[j] \in Entry(N, W) /\ j \in DOMAIN et
    <3>1. j \in DOMAIN et
      BY <1>2
    <3> HIDE DEF Entry
    <3> QED BY <1>2, <3>1
  <2>4. all \in Seq(N) /\ Len(all) <= 2
    BY <1>3, <2>3 DEF Entry
  <2>5. mine = Upto(all, k) /\ k \in 0..Len(all)
    BY <2>2
  <2>6. code = HexValue(mine)
    BY <2>1 DEF CodeAt
  <2>7. CodeAt(et, j) = HexValue(all)
    BY DEF CodeAt
  <2> HIDE DEF all, mine
  <2>8. mine \in Seq(N) /\ Len(mine) = k /\ Len(all) \in Nat
    BY <2>4, <2>5, UptoIs
  <2>9. CASE k = Len(all)
    <3>1. mine = all
      BY <2>4, <2>5, <2>8, <2>9 DEF Upto
    <3> QED BY <1>1, <2>3, <2>6, <2>7, <3>1
  <2>10. CASE k # Len(all)
    <3>1. Len(mine) <= 1
      BY <2>4, <2>5, <2>8, <2>10
    <3>2. mine \in Seq(Hex)
      BY <1>4, <2>8
    <3>3. HexValue(mine) \in 0..15
      BY <3>1, <3>2, OneDigit
    <3> QED BY <2>6, <3>3
  <2> QED BY <2>9, <2>10
<1>6. DOMAIN part \cap {16, 96, 214} \subseteq DOMAIN whole
  <2>1. 16 \notin 0..15 /\ 96 \notin 0..15 /\ 214 \notin 0..15
    OBVIOUS
  <2>2. ASSUME NEW code \in DOMAIN part, code \in {16, 96, 214} PROVE code \in DOMAIN whole
    <3>1. code = 16 \/ code = 96 \/ code = 214
      BY <2>2
    <3>2. code \notin 0..15
      BY <2>1, <3>1
    <3> QED BY <1>5, <3>2
  <2> QED BY <2>2
<1>7. CapabilitiesFromVcp(part) \subseteq CapabilitiesFromVcp(whole)
  BY <1>6 DEF CapabilitiesFromVcp, InputCode, BrightnessCode, PowerCode
<1> QED BY <1>5, <1>7 DEF part, whole

(* A VCP table that lists each code once. *)
NoCodeTwice(entries) ==
  \A i \in DOMAIN entries : \A j \in DOMAIN entries : CodeAt(entries, i) = CodeAt(entries, j) => i = j

LEMMA OnlyOneListed ==
  ASSUME NEW E, NEW entries \in Seq(E), NEW i \in DOMAIN entries,
         \A j \in DOMAIN entries : CodeAt(entries, j) = CodeAt(entries, i) => j = i
  PROVE  LastOf(entries, CodeAt(entries, i)) = i
<1>1. i \in Int
  <2>1. Len(entries) \in Nat /\ DOMAIN entries = 1..Len(entries)
    BY LenProperties
  <2> DEFINE L == Len(entries)
  <2>2. L \in Nat /\ i \in 1..L
    BY <2>1
  <2> HIDE DEF L
  <2> QED BY <2>2
<1> HIDE DEF CodeAt
<1>2. \A j \in DOMAIN entries : CodeAt(entries, j) = CodeAt(entries, i) => j <= i
  BY <1>1
<1> QED BY <1>2 DEF LastOf

(***************************************************************************)
(* If the string lists no code twice, all codes that are found but one, at *)
(* which it was cut off, are codes of the whole string, with all the       *)
(* values it lists for them.                                               *)
(***************************************************************************)
THEOREM CutKeepsValues ==
  ASSUME NEW W, NEW text \in Seq(W), Wrapped(text), NEW cut \in 0..Len(text),
         NoCodeTwice(Entries(SectionBody(text, Vcp), TableSyntax))
  PROVE  LET part == VcpTable(SubSeq(text, 1, cut))
             whole == VcpTable(text)
         IN  \E last : \A code \in DOMAIN part :
               code # last => code \in DOMAIN whole /\ part[code] = whole[code]
<1> DEFINE part == VcpTable(SubSeq(text, 1, cut))
           whole == VcpTable(text)
           es == Entries(SectionBody(SubSeq(text, 1, cut), Vcp), TableSyntax)
           et == Entries(SectionBody(text, Vcp), TableSyntax)
           E == Entry(Spelling(W, TableSyntax), W)
           last == CodeAt(es, Len(es))
<1>1. part = TableOf(es) /\ whole = TableOf(et)
  BY DEF VcpTable
<1>2. /\ es \in Seq(E) /\ et \in Seq(E)
      /\ \A j \in DOMAIN es : j \in DOMAIN et /\ (j # Len(es) => es[j] = et[j])
  BY CodesOfCut
<1>3. NoCodeTwice(et)
  OBVIOUS
<1> HIDE DEF part, whole, es, et, E
<1>4. ASSUME NEW code \in DOMAIN part, code # last
      PROVE  code \in DOMAIN whole /\ part[code] = whole[code]
  <2>1. PICK i \in DOMAIN es : CodeAt(es, i) = code
    BY <1>1 DEF TableOf
  <2>2. i # Len(es)
    BY <1>4, <2>1
  <2>3. i \in DOMAIN et /\ es[i] = et[i]
    BY <1>2, <2>2
  <2>4. CodeAt(et, i) = code
    BY <2>1, <2>3 DEF CodeAt
  <2>5. \A j \in DOMAIN et : CodeAt(et, j) = CodeAt(et, i) => j = i
    BY <1>3, <2>3 DEF NoCodeTwice
  <2>6. \A j \in DOMAIN es : CodeAt(es, j) = CodeAt(es, i) => j = i
    <3> SUFFICES ASSUME NEW j \in DOMAIN es, CodeAt(es, j) = CodeAt(es, i) PROVE j = i
      OBVIOUS
    <3>1. j # Len(es)
      BY <1>4, <2>1
    <3>2. j \in DOMAIN et /\ es[j] = et[j]
      BY <1>2, <3>1
    <3>3. CodeAt(et, j) = CodeAt(et, i)
      BY <2>1, <2>4, <3>2 DEF CodeAt
    <3> QED BY <2>5, <3>2, <3>3
  <2>7. LastOf(es, code) = i /\ LastOf(et, code) = i
    BY <1>2, <2>1, <2>3, <2>4, <2>5, <2>6, OnlyOneListed
  <2>8. code \in {CodeAt(es, j) : j \in DOMAIN es} /\ code \in {CodeAt(et, j) : j \in DOMAIN et}
    BY <2>1, <2>3, <2>4
  <2>9. TableOf(es)[code] = Values(es[i].body)
    BY <2>7, <2>8, Zenon DEF TableOf
  <2>10. TableOf(et)[code] = Values(et[i].body) /\ code \in DOMAIN TableOf(et)
    BY <2>7, <2>8, Zenon DEF TableOf
  <2> QED BY <1>1, <2>3, <2>9, <2>10
<1> QED BY <1>4 DEF part, whole

(* A display that answers every offset with the same text, after n exchanges. *)
LEMMA SameAgain ==
  ASSUME NEW S, "broken" \notin S, NEW data \in Seq(S), data # <<>>,
         NEW maxLength \in Nat, NEW maxRounds \in Nat,
         NEW fragments, \A offset \in 0..maxLength : fragments[offset] = data,
         NEW n \in Nat, NEW text \in Seq(S), Len(text) = Len(data) * n,
         Len(text) <= maxLength
  PROVE  LET e == Exchanged([text |-> text, more |-> TRUE], fragments, maxLength)
         IN  /\ e \in [text : Seq(S) \cup {Broken}, more : BOOLEAN]
             /\ IF Len(data) * (n + 1) > maxLength THEN e.text = Broken /\ ~e.more
                ELSE e.text \in Seq(S) /\ Len(e.text) = Len(data) * (n + 1) /\ e.more
<1> DEFINE before == [text |-> text, more |-> TRUE]
           size == Len(data)
<1>1. size \in Nat /\ Len(text) \in Nat /\ Len(text) \in 0..maxLength
  BY LenProperties
<1>2. data # Broken
  <2>1. ASSUME data = Broken PROVE FALSE
    <3>1. Len(data) = 1 /\ data[1] = "broken"
      BY <2>1 DEF Broken
    <3>2. data[1] \in S
      BY <3>1, ElementOfSeq
    <3> QED BY <3>1, <3>2
  <2> QED BY <2>1
<1>3. fragments[Len(before.text)] = data /\ before.more
  BY <1>1
<1>4. Exchanged(before, fragments, maxLength) =
        IF Len(text) + size > maxLength THEN [text |-> Broken, more |-> FALSE]
        ELSE [text |-> text \o data, more |-> TRUE]
  BY <1>2, <1>3 DEF Exchanged
<1>5. size * (n + 1) = Len(text) + size
  <2>1. size * (n + 1) = size * n + size
    BY <1>1
  <2> QED BY <2>1
<1>6. text \o data \in Seq(S) /\ Len(text \o data) = Len(text) + size
  OBVIOUS
<1> HIDE DEF before, size
<1>7. CASE Len(text) + size > maxLength
  <2>1. Exchanged(before, fragments, maxLength) = [text |-> Broken, more |-> FALSE]
    BY <1>4, <1>7
  <2>2. size * (n + 1) > maxLength
    BY <1>5, <1>7
  <2> DEFINE e == Exchanged(before, fragments, maxLength)
  <2>3. e = [text |-> Broken, more |-> FALSE]
    BY <2>1
  <2> HIDE DEF e
  <2>4. e.text = Broken /\ ~e.more /\ e \in [text : Seq(S) \cup {Broken}, more : BOOLEAN]
    BY <2>3
  <2> QED BY <2>2, <2>4, Zenon DEF before, size, e
<1>8. CASE ~(Len(text) + size > maxLength)
  <2> DEFINE longer == text \o data
  <2>1. Exchanged(before, fragments, maxLength) = [text |-> longer, more |-> TRUE]
    BY <1>4, <1>8
  <2>2. longer \in Seq(S) /\ Len(longer) = size * (n + 1) /\ ~(size * (n + 1) > maxLength)
    BY <1>5, <1>6, <1>8
  <2> DEFINE e == Exchanged(before, fragments, maxLength)
  <2>3. e = [text |-> longer, more |-> TRUE]
    BY <2>1
  <2> HIDE DEF longer, e
  <2>4. e.text = longer /\ e.more /\ e \in [text : Seq(S) \cup {Broken}, more : BOOLEAN]
    BY <2>2, <2>3
  <2> QED BY <2>2, <2>4, Zenon DEF before, size, e
<1> QED BY <1>7, <1>8

(***************************************************************************)
(* A display that answers every request with the same text is asked no     *)
(* more often than allowed, whatever they are: readCapabilitiesString then *)
(* returns what it has, or gives up as soon as that is too long.           *)
(***************************************************************************)
THEOREM RepeatingDisplayEnds ==
  ASSUME NEW S, "broken" \notin S, NEW data \in Seq(S), data # <<>>,
         NEW maxLength \in Nat, NEW maxRounds \in Nat,
         NEW fragments, \A offset \in 0..maxLength : fragments[offset] = data
  PROVE  IF Len(data) * maxRounds > maxLength
         THEN Reassembled(fragments, maxLength, maxRounds) = Broken
         ELSE Len(Reassembled(fragments, maxLength, maxRounds)) = Len(data) * maxRounds
<1> DEFINE size == Len(data)
           Then(n) == {r \in [text : Seq(S) \cup {Broken}, more : BOOLEAN] :
                           IF size * n > maxLength THEN r.text = Broken /\ ~r.more
                           ELSE r.text \in Seq(S) /\ Len(r.text) = size * n /\ r.more}
           R == [n \in 0..maxRounds |-> Then(n)]
<1>1. size \in Nat /\ size # 0
  BY LenProperties, EmptySeq
<1>2. [text |-> <<>>, more |-> TRUE] \in R[0]
  <2> DEFINE r == [text |-> <<>>, more |-> TRUE]
  <2>1. <<>> \in Seq(S) /\ Len(<<>>) = 0 /\ size * 0 = 0 /\ ~(0 > maxLength)
    BY <1>1
  <2>2. r \in [text : Seq(S) \cup {Broken}, more : BOOLEAN]
    BY <2>1
  <2>3. r.text = <<>> /\ r.more
    OBVIOUS
  <2> HIDE DEF r, size
  <2>4. r \in Then(0)
    BY <2>1, <2>2, <2>3
  <2> HIDE DEF Then
  <2>5. R[0] = Then(0)
    OBVIOUS
  <2> QED BY <2>4, <2>5 DEF r
<1>3. ASSUME NEW n \in 0..maxRounds, NEW r \in R[n], n # maxRounds
      PROVE  Exchanged(r, fragments, maxLength) \in R[n + 1]
  <2> DEFINE e == Exchanged(r, fragments, maxLength)
  <2>1. n \in Nat /\ n + 1 \in 0..maxRounds
    BY <1>3
  <2>2. R[n] = Then(n) /\ R[n + 1] = Then(n + 1)
    <3> HIDE DEF Then
    <3> QED BY <2>1
  <2>3. /\ r \in [text : Seq(S) \cup {Broken}, more : BOOLEAN]
        /\ IF size * n > maxLength THEN r.text = Broken /\ ~r.more
           ELSE r.text \in Seq(S) /\ Len(r.text) = size * n /\ r.more
    BY <2>2
  <2>4. size * (n + 1) = size * n + size /\ size * n \in Nat
    BY <1>1, <2>1
  <2> HIDE DEF R
  <2>5. CASE size * n > maxLength
    <3>1. e = r
      BY <2>3, <2>5 DEF Exchanged
    <3>2. size * (n + 1) > maxLength
      <4> HIDE DEF size
      <4> QED BY <1>1, <2>4, <2>5
    <3> HIDE DEF e, size
    <3>3. e \in Then(n + 1)
      BY <2>3, <2>5, <3>1, <3>2
    <3> QED BY <2>2, <3>3 DEF e
  <2>6. CASE ~(size * n > maxLength)
    <3>1. r.text \in Seq(S) /\ Len(r.text) = size * n /\ r.more
      BY <2>3, <2>6
    <3>2. r = [text |-> r.text, more |-> TRUE]
      BY <2>3, <3>1
    <3>3. Len(r.text) <= maxLength
      BY <2>4, <2>6, <3>1
    <3>4. /\ e \in [text : Seq(S) \cup {Broken}, more : BOOLEAN]
          /\ IF size * (n + 1) > maxLength THEN e.text = Broken /\ ~e.more
             ELSE e.text \in Seq(S) /\ Len(e.text) = size * (n + 1) /\ e.more
      <4> DEFINE text == r.text
      <4>1. text \in Seq(S) /\ Len(text) = size * n /\ Len(text) <= maxLength
            /\ r = [text |-> text, more |-> TRUE]
        BY <3>1, <3>2, <3>3
      <4> DEFINE d == Exchanged([text |-> text, more |-> TRUE], fragments, maxLength)
      <4> HIDE DEF text
      <4>2. /\ d \in [text : Seq(S) \cup {Broken}, more : BOOLEAN]
            /\ IF size * (n + 1) > maxLength THEN d.text = Broken /\ ~d.more
               ELSE d.text \in Seq(S) /\ Len(d.text) = size * (n + 1) /\ d.more
        BY <2>1, <4>1, SameAgain
      <4>3. e = d
        BY <4>1
      <4> HIDE DEF d, e, size
      <4> QED BY <4>2, <4>3
    <3> HIDE DEF e, size
    <3>6. e \in Then(n + 1)
      BY <3>4
    <3> QED BY <2>2, <3>6 DEF e
  <2> QED BY <2>5, <2>6
<1> DEFINE last == Rounds(fragments, maxLength, maxRounds)[maxRounds]
<1>4. last \in R[maxRounds]
  <2> HIDE DEF R
  <2> QED BY <1>2, <1>3, KeptByRounds
<1>5. last \in Then(maxRounds)
  <2>1. maxRounds \in 0..maxRounds
    OBVIOUS
  <2> HIDE DEF Then, last
  <2>2. R[maxRounds] = Then(maxRounds)
    BY <2>1
  <2> QED BY <1>4, <2>2
<1> HIDE DEF last, R
<1>6. IF size * maxRounds > maxLength THEN last.text = Broken ELSE Len(last.text) = size * maxRounds
  BY <1>5
<1> QED BY <1>6, ReassembledIs DEF last, size

(***************************************************************************)
(* A display with a name and a serial of its own has one id on every       *)
(* platform, whatever its handle there is and whether its capabilities     *)
(* could be read (buildMonitorId); displays without a serial are told      *)
(* apart by their handles.                                                 *)
(***************************************************************************)
THEOREM IdentityHolds ==
  ASSUME NEW edid, NEW described, NEW elsewhere, NEW handle, NEW other
  PROVE  /\ edid.name # Missing /\ Serial(edid) # Missing =>
              StableId(edid, described, handle) = StableId(edid, elsewhere, other)
         /\ Serial(edid) = Missing /\ handle # other =>
              StableId(edid, described, handle) # StableId(edid, described, other)
<1>1. ASSUME edid.name # Missing, Serial(edid) # Missing
      PROVE  StableId(edid, described, handle) = StableId(edid, elsewhere, other)
  BY <1>1, Zenon DEF StableId
<1>2. ASSUME Serial(edid) = Missing, handle # other
      PROVE  StableId(edid, described, handle) # StableId(edid, described, other)
  <2> DEFINE here == StableId(edid, described, handle)
             there == StableId(edid, described, other)
  <2>1. here.which = handle /\ there.which = other
    BY <1>2 DEF StableId
  <2> HIDE DEF here, there
  <2>2. here # there
    BY <1>2, <2>1
  <2> QED BY <2>2 DEF here, there
<1> QED BY <1>1, <1>2

LEMMA LettersAreRead ==
  ASSUME NEW length \in 0..Len(Letters), NEW size \in 1..4, NEW rounds \in {2, 8}, NEW max \in {6, 20},
         length <= size * rounds, length <= max
  PROVE  LET text == SubSeq(Letters, 1, length)
             upTo(offset) == IF offset + size > length THEN length ELSE offset + size
             honest == [offset \in 0..max |-> Arriving(SubSeq(text, offset + 1, upTo(offset)), 9)]
         IN  Reassembled(honest, max, rounds) = text
<1> DEFINE S == {"a", "b", "c", "d", "e", "f", "g"}
           text == SubSeq(Letters, 1, length)
           upTo(offset) == IF offset + size > length THEN length ELSE offset + size
           honest == [offset \in 0..max |-> Arriving(SubSeq(text, offset + 1, upTo(offset)), 9)]
<1>1. Letters \in Seq(S) /\ Len(Letters) = 7
  BY DEF Letters
<1>2. length \in Nat /\ length <= 7 /\ size \in Nat \ {0} /\ rounds \in Nat /\ max \in Nat
  BY <1>1
<1>3. text \in Seq(S) /\ Len(text) = length
  <2> HIDE DEF S
  <2>1. Upto(Letters, length) \in Seq(S) /\ Len(Upto(Letters, length)) = length
    BY <1>1, UptoIs
  <2> QED BY <2>1 DEF Upto
<1> HIDE DEF text
<1>4. ASSUME NEW offset \in 0..length
      PROVE  /\ upTo(offset) \in offset..length
             /\ upTo(offset) >= offset + size \/ upTo(offset) = length
             /\ honest[offset] = SubSeq(text, offset + 1, upTo(offset))
  <2> DEFINE to == upTo(offset)
             data == SubSeq(text, offset + 1, to)
  <2>1. /\ offset \in Nat /\ offset \in 0..max
        /\ to \in offset..length /\ to <= offset + 4 /\ (to >= offset + size \/ to = length)
    BY <1>2
  <2>2. honest[offset] = Arriving(data, 9)
    BY <2>1
  <2> HIDE DEF to
  <2>3. Len(data) <= 4 /\ Len(data) \in Nat
    BY <1>2, <1>3, <2>1
  <2> HIDE DEF data
  <2>4. Arriving(data, 9) = data
    BY <2>3 DEF Arriving
  <2> HIDE DEF honest
  <2> QED BY <2>1, <2>2, <2>4 DEF to, data
<1> HIDE DEF honest
<1>5. Honest(honest, text, size)
  BY <1>3, <1>4 DEF Honest
<1>6. "broken" \notin S
  OBVIOUS
<1> HIDE DEF S
<1>7. Reassembled(honest, max, rounds) = text
  BY <1>2, <1>3, <1>5, <1>6, EveryTextIsRead
<1> QED BY <1>7 DEF honest, text

LEMMA LettersAreRepeated ==
  ASSUME NEW size \in 1..4, NEW rounds \in {2, 8}, NEW max \in {6, 20}
  PROVE  LET repeating == [offset \in 0..max |-> Arriving(SubSeq(Letters, 1, size), 9)]
         IN  IF size * rounds > max THEN Reassembled(repeating, max, rounds) = Broken
             ELSE Len(Reassembled(repeating, max, rounds)) = size * rounds
<1> DEFINE S == {"a", "b", "c", "d", "e", "f", "g"}
           data == SubSeq(Letters, 1, size)
           repeating == [offset \in 0..max |-> Arriving(data, 9)]
<1>1. Letters \in Seq(S) /\ Len(Letters) = 7
  BY DEF Letters
<1>2. size \in Nat /\ size # 0 /\ size <= 4 /\ rounds \in Nat /\ max \in Nat
  OBVIOUS
<1>3. data \in Seq(S) /\ Len(data) = size
  <2>1. size \in 0..Len(Letters)
    BY <1>1, <1>2
  <2> HIDE DEF S
  <2>2. Upto(Letters, size) \in Seq(S) /\ Len(Upto(Letters, size)) = size
    BY <1>1, <2>1, UptoIs
  <2> QED BY <2>2 DEF Upto
<1> HIDE DEF data
<1>4. data # <<>>
  BY <1>2, <1>3
<1>5. Arriving(data, 9) = data
  BY <1>2, <1>3 DEF Arriving
<1>6. \A offset \in 0..max : repeating[offset] = data
  BY <1>5
<1>7. "broken" \notin S
  OBVIOUS
<1> HIDE DEF S, repeating
<1>8. IF Len(data) * rounds > max THEN Reassembled(repeating, max, rounds) = Broken
      ELSE Len(Reassembled(repeating, max, rounds)) = Len(data) * rounds
  BY <1>2, <1>3, <1>4, <1>6, <1>7, RepeatingDisplayEnds
<1> QED BY <1>3, <1>8, Zenon DEF repeating, data

(***************************************************************************)
(* Of what the run checks of the codec, all but one thing holds whatever   *)
(* the constants are: only that the strings the displays of an instance    *)
(* have say what they are meant to (Understood) depends on it.             *)
(***************************************************************************)
THEOREM CodecIsExactIfUnderstood == Spec => [](CodecIsExact <=> setup \in Understood)
<1>1. ReadBackWithinTolerance
  <2>1. ASSUME NEW max \in 15..100, NEW percent \in 0..100
        PROVE  PercentOf(RawOf(percent, max), max) - percent \in -3..3
    <3>1. max \in Nat /\ max >= 15
      OBVIOUS
    <3> QED BY <3>1, RoundingIsTolerated
  <2> QED BY <2>1 DEF ReadBackWithinTolerance
<1>2. ReaderIsExact
  <2>1. ASSUME NEW length \in 0..Len(Letters), NEW size \in 1..4, NEW rounds \in {2, 8}, NEW max \in {6, 20}
        PROVE  LET text == SubSeq(Letters, 1, length)
                   upTo(offset) == IF offset + size > length THEN length ELSE offset + size
                   honest == [offset \in 0..max |-> Arriving(SubSeq(text, offset + 1, upTo(offset)), 9)]
                   repeating == [offset \in 0..max |-> Arriving(SubSeq(Letters, 1, size), 9)]
               IN  /\ length <= size * rounds /\ length <= max => Reassembled(honest, max, rounds) = text
                   /\ IF size * rounds > max THEN Reassembled(repeating, max, rounds) = Broken
                      ELSE Len(Reassembled(repeating, max, rounds)) = size * rounds
    <3> DEFINE text == SubSeq(Letters, 1, length)
               upTo(offset) == IF offset + size > length THEN length ELSE offset + size
               honest == [offset \in 0..max |-> Arriving(SubSeq(text, offset + 1, upTo(offset)), 9)]
    <3>1. length <= size * rounds /\ length <= max => Reassembled(honest, max, rounds) = text
      BY LettersAreRead
    <3> QED BY <3>1, LettersAreRepeated
  <2> QED BY <2>1, Zenon DEF ReaderIsExact
<1>3. IdentityIsStable
  <2>1. ASSUME NEW edid \in Edids, NEW described \in {"PA278", Missing}
        PROVE  /\ edid.name # Missing /\ Serial(edid) # Missing =>
                    StableId(edid, described, "windows") = StableId(edid, Missing, "mac")
               /\ Serial(edid) = Missing =>
                    StableId(edid, described, "left") # StableId(edid, described, "right")
    <3>1. "left" # "right"
      OBVIOUS
    <3>2. edid.name # Missing /\ Serial(edid) # Missing =>
            StableId(edid, described, "windows") = StableId(edid, Missing, "mac")
      BY IdentityHolds
    <3>3. Serial(edid) = Missing => StableId(edid, described, "left") # StableId(edid, described, "right")
      BY <3>1, IdentityHolds
    <3> QED BY <3>2, <3>3, Zenon
  <2> QED BY <2>1 DEF IdentityIsStable
<1>4. CodecIsExact <=> setup \in Understood
  BY <1>1, <1>2, <1>3 DEF CodecIsExact
<1> QED BY <1>4, PTL

-----------------------------------------------------------------------------
(* Calls only go on *)

(* How many phases a call in this one may still go through, counted downwards. *)
Remaining(phase) ==
  CASE phase = "listing" -> 9 [] phase = "describing" -> 8 [] phase = "probing" -> 7
    [] phase \in {"sweeping", "ranging"} -> 6
    [] phase \in {"brightness", "writing"} -> 5
    [] OTHER -> 4

(***************************************************************************)
(* A call that is touched has ended, or is in a later phase; or it is in   *)
(* the same one and only lost its KnownMonitor to the discovery of another *)
(* call, asked for what it reads, or looks once more whether the input was *)
(* switched.                                                               *)
(***************************************************************************)
NearerItsEnd(c) ==
  \/ Idle(c)'
  \/ Remaining(calls'[c].phase) < Remaining(calls[c].phase)
  \/ calls'[c] = [calls[c] EXCEPT !.current = FALSE]
  \/ calls'[c] = [calls[c] EXCEPT !.asked = TRUE] /\ ~calls[c].asked
  \/ calls'[c] = Into(c, "verifying") /\ calls[c].phase = "verifying"

OnItsWay(c) == ~Idle(c) => calls'[c] = calls[c] \/ NearerItsEnd(c)

(***************************************************************************)
(* The safety half of CallsEnd: no call ever goes back, whatever others    *)
(* do, so that one which goes on being answered ends after a few answers,  *)
(* but for verifySwitch, which only its deadline bounds.                   *)
(***************************************************************************)
CallsOnlyGoOn == [][\A c \in Calls : OnItsWay(c)]_vars

LEMMA RemainingIs ==
  /\ Remaining("listing") = 9 /\ Remaining("describing") = 8 /\ Remaining("probing") = 7
  /\ Remaining("sweeping") = 6 /\ Remaining("ranging") = 6
  /\ Remaining("brightness") = 5 /\ Remaining("writing") = 5
  /\ Remaining("power") = 4 /\ Remaining("verifying") = 4 /\ Remaining("confirming") = 4
<1>1. Remaining("listing") = 9 /\ Remaining("describing") = 8 /\ Remaining("probing") = 7
  BY DEF Remaining
<1>2. /\ Remaining("sweeping") = 6 /\ Remaining("ranging") = 6
      /\ Remaining("brightness") = 5 /\ Remaining("writing") = 5
  BY DEF Remaining
<1>3. Remaining("power") = 4 /\ Remaining("verifying") = 4 /\ Remaining("confirming") = 4
  BY DEF Remaining
<1> QED BY <1>1, <1>2, <1>3

(* Where one call alone moves, it is enough to look at that one. *)
LEMMA OneMoves ==
  ASSUME ProviderInv, NEW c \in Calls, NEW call, calls' = [calls EXCEPT ![c] = call],
         \/ call = NoCall
         \/ Remaining(call.phase) < Remaining(calls[c].phase)
         \/ call = [calls[c] EXCEPT !.asked = TRUE] /\ ~calls[c].asked
         \/ call = Into(c, "verifying") /\ calls[c].phase = "verifying"
  PROVE  \A o \in Calls : OnItsWay(o)
<1> SUFFICES ASSUME NEW o \in Calls PROVE OnItsWay(o)
  OBVIOUS
<1>1. c \in DOMAIN calls /\ o \in DOMAIN calls
  BY DEF ProviderInv, TypeOK
<1>2. CASE o = c
  <2>1. calls'[o] = call
    BY <1>1, <1>2
  <2> QED BY <1>2, <2>1 DEF OnItsWay, NearerItsEnd, Idle
<1>3. CASE o # c
  <2>1. calls'[o] = calls[o]
    BY <1>1, <1>3
  <2> QED BY <2>1 DEF OnItsWay
<1> QED BY <1>2, <1>3

(* The phase a call goes into. *)
LEMMA IntoPhase ==
  ASSUME ProviderInv, NEW c \in Calls, calls[c].phase # "ended",
         NEW phase \in {"listing", "describing", "probing", "sweeping", "brightness", "power",
                        "ranging", "writing", "verifying", "confirming"}
  PROVE  /\ Into(c, phase).phase = phase /\ Into(c, phase) \in Call
         /\ \A one \in BOOLEAN, two \in BOOLEAN :
              /\ [Into(c, phase) EXCEPT !.sure = one].phase = phase
              /\ [Into(c, phase) EXCEPT !.able = one].phase = phase
              /\ [Into(c, phase) EXCEPT !.current = one].phase = phase
              /\ [Into(c, phase) EXCEPT !.sure = one, !.able = two].phase = phase
<1> DEFINE r == Into(c, phase)
<1>1. r.phase = phase /\ r \in Call
  BY UnderWay, GoesOn, IntoIsOnward
<1> HIDE DEF r
<1>2. ASSUME NEW one \in BOOLEAN, NEW two \in BOOLEAN
      PROVE  /\ [r EXCEPT !.sure = one].phase = phase
             /\ [r EXCEPT !.able = one].phase = phase
             /\ [r EXCEPT !.current = one].phase = phase
             /\ [r EXCEPT !.sure = one, !.able = two].phase = phase
  <2>1. /\ SameCall([r EXCEPT !.sure = one], r)
        /\ SameCall([r EXCEPT !.able = one], r)
        /\ SameCall([r EXCEPT !.current = one], r)
    BY <1>1, MarksAreNotGoals
  <2>2. /\ [r EXCEPT !.sure = one].phase = phase
        /\ [r EXCEPT !.able = one].phase = phase
        /\ [r EXCEPT !.current = one].phase = phase
    BY <1>1, <2>1, Zenon DEF SameCall
  <2>3. [r EXCEPT !.sure = one, !.able = two].phase = phase
    BY <1>1, CallLearns
  <2> QED BY <2>2, <2>3
<1> QED BY <1>1, <1>2 DEF r

(* A step that begins a call finds it idle and touches no other. *)
LEMMA BeginsGoOn ==
  ASSUME ProviderInv, NEW c \in Calls, Idle(c), NEW goal, NEW id, StartAs(c, goal, id)
  PROVE  \A o \in Calls : OnItsWay(o)
<1> SUFFICES ASSUME NEW o \in Calls, o # c PROVE calls'[o] = calls[o]
  BY DEF OnItsWay
<1>1. PICK call : calls' = [calls EXCEPT ![c] = call]
  BY DEF StartAs
<1> QED BY <1>1 DEF ProviderInv, TypeOK

(* A discovery that ends takes the KnownMonitor of the others and goes on by itself. *)
LEMMA ProbeGoesOn ==
  ASSUME ProviderInv, NEW c \in Calls, NEW ok \in BOOLEAN, Probe(c, ok)
  PROVE  \A o \in Calls : OnItsWay(o)
<1> SUFFICES ASSUME NEW o \in Calls, ~Idle(o) PROVE OnItsWay(o)
  BY DEF OnItsWay
<1> DEFINE next == PhaseOf(calls[c].goal, Learned(c))
<1>1. calls[c].phase = "probing" /\ calls[c].goal \in Goals \cup {Observation, Discovery}
  <2>1. calls[c].phase = "probing"
    BY DEF Probe
  <2> QED BY <2>1, UnderWay DEF Call
<1>2. next \in {"sweeping", "ranging", "writing", "ended"}
  BY <1>1, PhaseFits
<1>3. CASE o # c
  <2>1. calls'[o] = [calls[o] EXCEPT !.current = FALSE]
    BY <1>3 DEF Probe, Idle
  <2> QED BY <2>1 DEF OnItsWay, NearerItsEnd
<1>4. CASE o = c /\ next = "ended"
  <2>1. calls'[o] = NoCall
    BY <1>4 DEF Probe
  <2> QED BY <2>1 DEF OnItsWay, NearerItsEnd, Idle
<1>5. CASE o = c /\ next # "ended"
  <2> DEFINE held == Learned(c) # None
  <2>1. calls'[c] = [Into(c, next) EXCEPT !.sure = FALSE, !.able = FALSE, !.current = held]
    BY <1>5 DEF Probe
  <2>2. held \in BOOLEAN
    OBVIOUS
  <2> HIDE DEF next, held
  <2> DEFINE r == Into(c, next)
  <2>3. r \in Call /\ r.phase = next
    BY <1>1, <1>2, <1>5, IntoPhase
  <2> HIDE DEF r
  <2>4. [r EXCEPT !.sure = FALSE, !.able = FALSE, !.current = held].phase = next
    BY <2>2, <2>3, MarksAreNotGoals DEF SameCall
  <2>5. calls'[c].phase = next
    BY <2>1, <2>4 DEF r
  <2>6. Remaining(calls'[c].phase) < Remaining(calls[c].phase)
    BY <1>1, <1>2, <1>5, <2>5, RemainingIs
  <2> QED BY <1>5, <2>6 DEF OnItsWay, NearerItsEnd
<1> QED BY <1>3, <1>4, <1>5

(* Where the steps lead, but for the end and the choice after a discovery. *)
Leads(from, to) ==
  \/ from = "listing" /\ to \in {"describing", "probing"}
  \/ from = "describing" /\ to = "probing"
  \/ from = "sweeping" /\ to = "brightness"
  \/ from = "brightness" /\ to = "power"
  \/ from = "ranging" /\ to = "writing"
  \/ from = "writing" /\ to \in {"verifying", "confirming"}

LEMMA LeadsOn ==
  ASSUME NEW from, NEW to, Leads(from, to)
  PROVE  /\ from # "ended" /\ Remaining(to) < Remaining(from)
         /\ to \in {"describing", "probing", "brightness", "power", "writing", "verifying", "confirming"}
<1>1. /\ from # "ended"
      /\ to \in {"describing", "probing", "brightness", "power", "writing", "verifying", "confirming"}
  BY DEF Leads
<1>2. Remaining(to) < Remaining(from)
  BY RemainingIs DEF Leads
<1> QED BY <1>1, <1>2

(* A call that goes there, with what it has learned. *)
Moved(c, phase, call) ==
  \/ call = Into(c, phase)
  \/ \E one \in BOOLEAN, two \in BOOLEAN :
       \/ call = [Into(c, phase) EXCEPT !.sure = one]
       \/ call = [Into(c, phase) EXCEPT !.able = one]
       \/ call = [Into(c, phase) EXCEPT !.current = one]
       \/ call = [Into(c, phase) EXCEPT !.sure = one, !.able = two]

LEMMA LaterGoesOn ==
  ASSUME ProviderInv, NEW c \in Calls, NEW phase, Leads(calls[c].phase, phase),
         NEW call, Moved(c, phase, call), calls' = [calls EXCEPT ![c] = call]
  PROVE  \A o \in Calls : OnItsWay(o)
<1>1. call.phase = phase
  <2>1. /\ calls[c].phase # "ended"
        /\ phase \in {"describing", "probing", "brightness", "power", "writing", "verifying", "confirming"}
    BY LeadsOn
  <2>2. /\ Into(c, phase).phase = phase
        /\ \A one \in BOOLEAN, two \in BOOLEAN :
             /\ [Into(c, phase) EXCEPT !.sure = one].phase = phase
             /\ [Into(c, phase) EXCEPT !.able = one].phase = phase
             /\ [Into(c, phase) EXCEPT !.current = one].phase = phase
             /\ [Into(c, phase) EXCEPT !.sure = one, !.able = two].phase = phase
    BY <2>1, IntoPhase
  <2> QED BY <2>2, Zenon DEF Moved
<1>2. Remaining(phase) < Remaining(calls[c].phase)
  BY LeadsOn
<1> QED BY <1>1, <1>2, OneMoves

LEMMA RepliesGoOn ==
  ASSUME ProviderInv, NEW c \in Calls, NEW ok \in BOOLEAN, Reply(c, ok)
  PROVE  \A o \in Calls : OnItsWay(o)
<1>1. CASE Describe(c, ok)
  <2>1. PICK whole \in BOOLEAN : calls' = [calls EXCEPT ![c] = [Into(c, "probing") EXCEPT !.able = ok /\ whole]]
    BY <1>1 DEF Describe
  <2> DEFINE able == ok /\ whole
  <2>2. able \in BOOLEAN /\ calls[c].phase = "describing"
    BY <1>1 DEF Describe
  <2>3. calls' = [calls EXCEPT ![c] = [Into(c, "probing") EXCEPT !.able = able]]
    BY <2>1
  <2> HIDE DEF able
  <2> QED BY <2>2, <2>3, LaterGoesOn DEF Leads, Moved
<1>2. CASE Probe(c, ok)
  BY <1>2, ProbeGoesOn
<1>3. CASE Sweep(c, ok)
  <2>1. CASE calls' = [calls EXCEPT ![c] = [Into(c, "brightness") EXCEPT !.current = TRUE]]
    BY <1>3, <2>1, LaterGoesOn DEF Sweep, Leads, Moved
  <2>2. CASE calls' = [calls EXCEPT ![c] = NoCall]
    BY <2>2, OneMoves
  <2> QED BY <1>3, <2>1, <2>2 DEF Sweep, End
<1>4. CASE ReadBrightness(c, ok)
  BY <1>4, LaterGoesOn DEF ReadBrightness, Go, Leads, Moved
<1>5. CASE ReadPower(c, ok) \/ Confirm(c, ok)
  BY <1>5, OneMoves DEF ReadPower, Confirm, End
<1>6. CASE ReadRange(c, ok)
  BY <1>6, LaterGoesOn DEF ReadRange, Leads, Moved
<1>7. CASE Verify(c, ok)
  <2>1. calls[c].phase = "verifying" /\ (calls' = [calls EXCEPT ![c] = NoCall] \/
                                         calls' = [calls EXCEPT ![c] = Into(c, "verifying")])
    BY <1>7 DEF Verify, End, Go
  <2> QED BY <2>1, OneMoves
<1> QED BY <1>1, <1>2, <1>3, <1>4, <1>5, <1>6, <1>7 DEF Reply

LEMMA WorkGoesOn ==
  ASSUME ProviderInv, NEW c \in Calls, Works(c) \/ Deadline(c)
  PROVE  \A o \in Calls : OnItsWay(o)
<1>1. CASE Ask(c)
  BY <1>1, OneMoves DEF Ask
<1>2. CASE List(c)
  <2> DEFINE phase == IF setup.whole \/ ~panel.plugged THEN "probing" ELSE "describing"
             there == panel.plugged
  <2>1. PICK able \in {setup.whole /\ Answers} \cup IF setup.flaky THEN {FALSE} ELSE {} :
          calls' = [calls EXCEPT ![c] = [Into(c, phase) EXCEPT !.sure = there, !.able = able]]
    BY <1>2 DEF List
  <2>2. /\ phase \in {"probing", "describing"} /\ calls[c].phase = "listing"
        /\ able \in BOOLEAN /\ there \in BOOLEAN
    BY <1>2 DEF List, ProviderInv, TypeOK, Panel, Answers
  <2> HIDE DEF phase, there
  <2> QED BY <2>1, <2>2, LaterGoesOn DEF Leads, Moved
<1>3. CASE ListFails(c) \/ SweepFails(c) \/ WriteFails(c) \/ Deadline(c)
  BY <1>3, OneMoves DEF ListFails, SweepFails, WriteFails, Deadline, End
<1>4. CASE Write(c)
  <2>1. calls[c].phase = "writing"
    BY <1>4 DEF Write
  <2>2. \/ calls' = [calls EXCEPT ![c] = NoCall]
        \/ calls' = [calls EXCEPT ![c] = Into(c, "verifying")]
        \/ calls' = [calls EXCEPT ![c] = Into(c, "confirming")]
    BY <1>4 DEF Write, End, Go
  <2> QED BY <2>1, <2>2, OneMoves, LaterGoesOn DEF Leads, Moved
<1>5. CASE \E ok \in BOOLEAN : Reply(c, ok)
  BY <1>5, RepliesGoOn
<1> QED BY <1>1, <1>2, <1>3, <1>4, <1>5 DEF Works

(***************************************************************************)
(* CallsOnlyGoOn, for any number of calls under way, any display and any   *)
(* bridge, also one whose halves interleave.                               *)
(***************************************************************************)
THEOREM CallsNeverGoBack == Spec => CallsOnlyGoOn
<1> DEFINE All == \A c \in Calls : OnItsWay(c)
<1>1. ASSUME ProviderInv, Next PROVE All
  <2>1. ASSUME UNCHANGED calls PROVE All
    BY <2>1 DEF OnItsWay
  <2>2. ASSUME NEW c \in Calls, Works(c) \/ Deadline(c) PROVE All
    BY <1>1, <2>2, WorkGoesOn
  <2>3. ASSUME NEW c \in Observers, Observe(c) PROVE All
    BY <1>1, <2>3, BeginsGoOn DEF Observe, Calls
  <2>4. ASSUME NEW c \in Callers, Discover(c) PROVE All
    BY <1>1, <2>4, BeginsGoOn DEF Discover, Calls
  <2>5. ASSUME NEW c \in Callers, NEW id \in Ids, NEW goal \in Wanted, Command(c, id, goal) PROVE All
    <3>1. c \in Calls /\ Idle(c) /\ (UNCHANGED calls \/ StartAs(c, goal, id))
      BY <2>5 DEF Command, Calls
    <3> QED BY <1>1, <2>1, <3>1, BeginsGoOn
  <2>6. PanelSwitches \/ Touch => UNCHANGED calls
    BY DEF PanelSwitches, Touch
  <2> QED BY <1>1, <2>1, <2>2, <2>3, <2>4, <2>5, <2>6 DEF Next
<1>2. ASSUME ProviderInv, [Next]_vars PROVE [All]_vars
  BY <1>1, <1>2
<1> QED BY <1>2, InitHasTypes, StepKeepsProvider, PTL DEF Spec, CallsOnlyGoOn

(* What the readings say of the display, whether it is able or not. *)
ReadingsTrue ==
  known # None => known.level \in {None, panel.level} /\ known.power \in {"unknown", panel.power}

(***************************************************************************)
(* The stability half of ReadingsSettle: while nobody changes brightness   *)
(* or power, readings of a display that are true or say they are not known *)
(* stay so, whatever commands, discoveries and observations overlap, on a  *)
(* bus that garbles what it carries and with a helper that fails.          *)
(***************************************************************************)
ReadingsStayTrue ==
  [][ReadingsTrue /\ UNCHANGED <<panel.level, panel.power>> => ReadingsTrue']_vars

(* Only a command for it switches a display on. *)
LEMMA OnlyOnIsOn ==
  ASSUME NEW listed, NEW state \in {"standby", "off"}
  PROVE  DescribePower(ResolvePower(listed, state)) # "on"
<1> DEFINE preferred == PowerPreferences[state]
           Hits == {i \in 1..Len(preferred) : preferred[i] \in listed}
           best == SelectInSeq(preferred, LAMBDA value : value \in listed)
<1>1. /\ Len(preferred) \in 1..3
      /\ \A i \in 1..Len(preferred) : preferred[i] \in 2..5
  <2>1. CASE state = "standby"
    BY <2>1 DEF PowerPreferences
  <2>2. CASE state = "off"
    BY <2>2 DEF PowerPreferences
  <2> QED BY <2>1, <2>2
<1>2. best \in {0} \cup 1..Len(preferred)
  <2>1. Hits \in SUBSET 1..3 /\ Hits \subseteq 1..Len(preferred)
    BY <1>1
  <2>2. best = IF Hits # {} THEN Min(Hits) ELSE 0
    BY DEF SelectInSeq
  <2> HIDE DEF Hits, best, preferred
  <2> QED BY <2>1, <2>2, LeastOfThree
<1>3. ResolvePower(listed, state) = IF best # 0 THEN preferred[best] ELSE Unsupported
  BY DEF ResolvePower
<1> HIDE DEF best, preferred
<1>4. ResolvePower(listed, state) \in {0} \cup 2..5
  BY <1>1, <1>2, <1>3 DEF Unsupported
<1> QED BY <1>4 DEF DescribePower

(* A reading that is noted is true. *)
LEMMA NotedIsTrue ==
  ASSUME ProviderInv, ReadingsTrue, UNCHANGED <<panel.level, panel.power>>, NEW c, NEW field, NEW value,
         known' = Noted(c, field, value),
         \/ field = "level" /\ value \in {None, panel.level}
         \/ field = "power" /\ value \in {"unknown", panel.power}
  PROVE  ReadingsTrue'
<1>1. known \in Known \cup {None}
  BY DEF ProviderInv, TypeOK
<1>2. CASE known' = known
  BY <1>2 DEF ReadingsTrue
<1>3. CASE known' = [known EXCEPT ![field] = value] /\ known # None
  <2>1. known \in Known /\ known.level \in {None, panel.level} /\ known.power \in {"unknown", panel.power}
    BY <1>1, <1>3 DEF ReadingsTrue
  <2>2. CASE field = "level" /\ value \in {None, panel.level}
    <3>1. known'.level = value /\ known'.power = known.power
      BY <1>3, <2>1, <2>2 DEF Known
    <3> QED BY <2>1, <2>2, <3>1 DEF ReadingsTrue
  <2>3. CASE field = "power" /\ value \in {"unknown", panel.power}
    <3>1. known'.power = value /\ known'.level = known.level
      BY <1>3, <2>1, <2>3 DEF Known
    <3> QED BY <2>1, <2>3, <3>1 DEF ReadingsTrue
  <2> QED BY <2>2, <2>3
<1> QED BY <1>2, <1>3 DEF Noted

LEMMA RepliesStayTrue ==
  ASSUME ProviderInv, ReadingsTrue, NEW c \in Calls, NEW ok \in BOOLEAN, Reply(c, ok)
  PROVE  ReadingsTrue'
<1>1. UNCHANGED panel
  BY DEF Reply, Replied, Describe, Probe, Sweep, ReadBrightness, ReadPower, ReadRange, Confirm, Verify
<1>2. CASE Describe(c, ok) \/ Sweep(c, ok) \/ ReadRange(c, ok) \/ Verify(c, ok)
  <2>1. UNCHANGED known
    BY <1>2 DEF Describe, Sweep, ReadRange, Verify
  <2> QED BY <1>1, <2>1 DEF ReadingsTrue
<1>3. CASE Probe(c, ok)
  <2>1. known' = Learned(c)
    BY <1>3 DEF Probe
  <2> QED BY <1>1, <2>1 DEF Learned, ReadingsTrue
<1>4. CASE ReadBrightness(c, ok) \/ Confirm(c, ok)
  <2>1. known' = Noted(c, "level", IF ok THEN panel.level ELSE None)
    BY <1>4 DEF ReadBrightness, Confirm
  <2> QED BY <1>1, <2>1, NotedIsTrue
<1>5. CASE ReadPower(c, ok)
  <2>1. known' = Noted(c, "power", IF ok THEN panel.power ELSE "unknown")
    BY <1>5 DEF ReadPower
  <2> QED BY <1>1, <2>1, NotedIsTrue
<1> QED BY <1>2, <1>3, <1>4, <1>5 DEF Reply

LEMMA WriteStaysTrue ==
  ASSUME ProviderInv, ReadingsTrue, UNCHANGED <<panel.level, panel.power>>, NEW c \in Calls, Write(c)
  PROVE  ReadingsTrue'
<1>1. CASE UNCHANGED known
  BY <1>1 DEF ReadingsTrue
<1>2. CASE Kind(c) = "power"
  <2> DEFINE value == calls[c].goal.value
             becomes == DescribePower(ResolvePower(ListedPower, value))
  <2>1. /\ known' = Noted(c, "power", value) /\ panel.power = "on"
        /\ panel' = [panel EXCEPT !.power = becomes]
    BY <1>2 DEF Write, Written, Answers
  <2>2. value \in Powers
    <3>1. calls[c].phase = "writing" /\ calls[c].goal.kind = "power"
      BY <1>2 DEF Write, Kind
    <3>2. calls[c] # NoCall
      BY <3>1 DEF NoCall
    <3>3. Fits(ListedPower, calls[c])
      BY DEF ProviderInv, CallsFit
    <3>4. calls[c].goal \in Goals
      BY <3>1, <3>2, <3>3 DEF Fits
    <3> QED BY <3>1, <3>4, GoalsApart
  <2>3. becomes = "on"
    <3> HIDE DEF becomes
    <3>1. panel \in Panel
      BY DEF ProviderInv, TypeOK
    <3> QED BY <2>1, <3>1 DEF Panel
  <2>4. value = "on"
    BY <2>2, <2>3, OnlyOnIsOn DEF Powers
  <2> HIDE DEF value
  <2> QED BY <2>1, <2>4, NotedIsTrue
<1> QED BY <1>1, <1>2 DEF Write

(***************************************************************************)
(* ReadingsStayTrue, for any number of calls and any display: no reading   *)
(* is noted late enough to be wrong, and the value that setPower notes     *)
(* without reading it back is one the display is then in.                  *)
(***************************************************************************)
THEOREM ReadingsAreKept == Spec => ReadingsStayTrue
<1> DEFINE Kept == ReadingsTrue /\ UNCHANGED <<panel.level, panel.power>> => ReadingsTrue'
<1>1. ASSUME ProviderInv, [Next]_vars PROVE Kept
  <2> SUFFICES ASSUME ReadingsTrue, UNCHANGED <<panel.level, panel.power>> PROVE ReadingsTrue'
    OBVIOUS
  <2>1. CASE UNCHANGED known
    BY <2>1 DEF ReadingsTrue
  <2>2. ASSUME NEW c \in Calls, Works(c) PROVE ReadingsTrue'
    <3>1. CASE Ask(c) \/ List(c) \/ ListFails(c) \/ SweepFails(c) \/ WriteFails(c)
      BY <2>1, <3>1 DEF Ask, List, ListFails, SweepFails, WriteFails
    <3>2. CASE Write(c)
      BY <1>1, <3>2, WriteStaysTrue
    <3>3. CASE \E ok \in BOOLEAN : Reply(c, ok)
      BY <1>1, <3>3, RepliesStayTrue
    <3> QED BY <2>2, <3>1, <3>2, <3>3 DEF Works
  <2>3. ASSUME NEW c \in Calls, Deadline(c) \/ Observe(c) \/ Discover(c) PROVE ReadingsTrue'
    BY <2>1, <2>3 DEF Deadline, Observe, Discover
  <2>4. ASSUME NEW c \in Callers, NEW id \in Ids, NEW goal \in Wanted, Command(c, id, goal)
        PROVE  ReadingsTrue'
    BY <2>1, <2>4 DEF Command
  <2>5. PanelSwitches \/ Touch \/ UNCHANGED vars => UNCHANGED known
    BY DEF PanelSwitches, Touch, vars
  <2>6. Observers \subseteq Calls /\ Callers \subseteq Calls
    BY DEF Calls
  <2> QED BY <1>1, <2>1, <2>2, <2>3, <2>4, <2>5, <2>6 DEF Next
<1>2. ASSUME ProviderInv, [Next]_vars PROVE [Kept]_vars
  BY <1>1, <1>2
<1> QED BY <1>2, InitHasTypes, StepKeepsProvider, PTL DEF Spec, ReadingsStayTrue
=============================================================================
