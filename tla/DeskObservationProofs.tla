----------------------- MODULE DeskObservationProofs -----------------------
(***************************************************************************)
(* Proofs about DeskObservation, SimulatedDesk and Reconcile.              *)
(***************************************************************************)
EXTENDS DeskObservation, FunctionTheorems, SequenceTheorems, FiniteSetTheorems,
        WellFoundedInduction, TLAPS

-----------------------------------------------------------------------------
(* The first entry of a sequence, and a sequence without one entry *)

Below == {pair \in Nat \X Nat : pair[1] < pair[2]}

(* Every set of numbers has a least one: what stands in for induction here. *)
LEMMA LeastNumber ==
  ASSUME NEW T, T \subseteq Nat, T # {}
  PROVE  \E n \in T : \A m \in T : n <= m
<1>1. IsWellFoundedOn(Below, Nat)
  BY NatLessThanWellFounded DEF OpToRel, Below
<1>2. \E n \in T : \A m \in T : ~(<<m, n>> \in Below)
  BY <1>1, WFMin
<1>3. PICK n \in T : \A m \in T : ~(<<m, n>> \in Below)
  BY <1>2
<1>4. \A m \in T : <<m, n>> \in Below <=> m < n
  BY DEF Below
<1>5. ASSUME NEW m \in T PROVE n <= m
  <2>1. ~(m < n)
    BY <1>3, <1>4
  <2>2. m \in Nat /\ n \in Nat
    OBVIOUS
  <2> QED BY <2>1, <2>2
<1> QED BY <1>5

(* The least element of a set of numbers, as Min chooses it. *)
LEMMA MinIsLeast ==
  ASSUME NEW T, T \subseteq Nat, T # {}
  PROVE  Min(T) \in T /\ \A m \in T : Min(T) <= m
<1>1. \E n \in T : \A m \in T : n <= m
  BY LeastNumber
<1> QED BY <1>1 DEF Min

(* An agent's entry taken out of a sequence at place k: what comes after it moves up. *)
SkipsPlace(S, s, a, k) ==
  /\ s[k].agent = a
  /\ Without(s, a) \in Seq(S) /\ DOMAIN Without(s, a) = 1..Len(s) - 1
  /\ \A i \in 1..Len(s) - 1 : Without(s, a)[i] = s[IF i < k THEN i ELSE i + 1]

LEMMA WithoutSkipsOne ==
  ASSUME NEW S, NEW s \in Seq(S), NEW a, {i \in 1..Len(s) : s[i].agent = a} # {}
  PROVE  \E k \in 1..Len(s) : SkipsPlace(S, s, a, k)
<1> DEFINE Hits == {i \in 1..Len(s) : s[i].agent = a}
           k == Min(Hits)
           front == SubSeq(s, 1, k - 1)
           back == SubSeq(s, k + 1, Len(s))
<1>1. k \in 1..Len(s) /\ s[k].agent = a
  <2>1. Hits \subseteq Nat /\ Hits # {}
    OBVIOUS
  <2>2. k \in Hits
    <3> HIDE DEF Hits
    <3> QED BY <2>1, MinIsLeast
  <2> QED BY <2>2
<1>2. Without(s, a) = front \o back
  <2>1. \E i \in 1..Len(s) : s[i].agent = a
    OBVIOUS
  <2>2. SelectInSeq(s, LAMBDA entry : entry.agent = a) = k
    BY DEF SelectInSeq
  <2>3. Without(s, a) = RemoveAt(s, SelectInSeq(s, LAMBDA entry : entry.agent = a))
    BY <2>1 DEF Without, RemoveFirstMatch
  <2> QED BY <2>2, <2>3 DEF RemoveAt
<1> HIDE DEF k
<1>3. Len(s) \in Nat /\ DOMAIN s = 1..Len(s)
  OBVIOUS
<1>4. /\ front \in Seq(S) /\ Len(front) = k - 1
      /\ \A i \in 1..k - 1 : front[i] = s[i]
  BY <1>1, <1>3, SubSeqProperties
<1>5. /\ back \in Seq(S) /\ Len(back) = Len(s) - k
      /\ \A i \in 1..Len(s) - k : back[i] = s[k + i]
  <2>1. k + 1 \in Int /\ Len(s) \in Int /\ \A i \in (k + 1)..Len(s) : s[i] \in S
    BY <1>1, <1>3
  <2> DEFINE first == k + 1
             last == Len(s)
  <2> HIDE DEF first, last
  <2>2. /\ SubSeq(s, first, last) \in Seq(S)
        /\ Len(SubSeq(s, first, last)) = IF first <= last THEN last - first + 1 ELSE 0
        /\ \A i \in 1..last - first + 1 : SubSeq(s, first, last)[i] = s[first + i - 1]
    BY <2>1, SubSeqProperties DEF first, last
  <2>3. back = SubSeq(s, first, last)
    BY DEF first, last
  <2>4. (IF first <= last THEN last - first + 1 ELSE 0) = Len(s) - k
    <3>1. k \in Nat /\ Len(s) \in Nat /\ k <= Len(s)
      BY <1>1, <1>3
    <3>2. CASE k = Len(s)
      BY <3>1, <3>2 DEF first, last
    <3>3. CASE k < Len(s)
      BY <3>1, <3>3 DEF first, last
    <3> QED BY <3>1, <3>2, <3>3
  <2>5. ASSUME NEW i \in 1..Len(s) - k PROVE back[i] = s[k + i]
    <3>1. i \in 1..last - first + 1 /\ first + i - 1 = k + i
      BY <1>1, <1>3 DEF first, last
    <3> QED BY <2>2, <2>3, <3>1
  <2> HIDE DEF back
  <2> QED BY <2>2, <2>3, <2>4, <2>5
<1> HIDE DEF front, back
<1> DEFINE t == front \o back
<1>6. /\ t \in Seq(S) /\ DOMAIN t = 1..Len(s) - 1
      /\ \A i \in 1..Len(s) - 1 : t[i] = s[IF i < k THEN i ELSE i + 1]
  <2>1. t \in Seq(S)
    BY <1>4, <1>5, ConcatProperties
  <2>2. Len(t) = Len(s) - 1
    <3> DEFINE f == front
               b == back
    <3>1. f \in Seq(S) /\ b \in Seq(S) /\ t = f \o b
      BY <1>4, <1>5
    <3> HIDE DEF f, b, t
    <3>2. Len(t) = Len(f) + Len(b)
      BY <3>1, ConcatProperties
    <3>3. (k - 1) + (Len(s) - k) = Len(s) - 1
      BY <1>1, <1>3
    <3> QED BY <1>4, <1>5, <3>2, <3>3 DEF f, b
  <2>3. ASSUME NEW i \in 1..Len(s) - 1 PROVE t[i] = s[IF i < k THEN i ELSE i + 1]
    <3>1. t[i] = IF i <= Len(front) THEN front[i] ELSE back[i - Len(front)]
      BY <1>1, <1>3, <1>4, <1>5, <2>2, ConcatProperties
    <3>2. CASE i < k
      BY <1>1, <1>3, <1>4, <3>1, <3>2
    <3>3. CASE ~(i < k)
      <4>1. i - (k - 1) \in 1..Len(s) - k /\ k + (i - (k - 1)) = i + 1 /\ ~(i <= Len(front))
        BY <1>1, <1>3, <1>4, <3>3
      <4>2. t[i] = back[i - (k - 1)]
        BY <1>4, <3>1, <4>1
      <4>3. back[i - (k - 1)] = s[k + (i - (k - 1))]
        BY <1>5, <4>1
      <4> QED BY <3>3, <4>1, <4>2, <4>3
    <3> QED BY <3>2, <3>3
  <2> QED BY <2>1, <2>2, <2>3, LenProperties
<1> HIDE DEF t
<1>7. Without(s, a) = t
  BY <1>2 DEF t
<1> QED BY <1>1, <1>6, <1>7 DEF SkipsPlace

(* An agent's entry taken out of a sequence leaves the others, in their order. *)
LEMMA WithoutKeepsOthers ==
  ASSUME NEW S, NEW s \in Seq(S), NEW a,
         \A m, n \in DOMAIN s : s[m].agent = s[n].agent => m = n
  PROVE  /\ Without(s, a) \in Seq(S)
         /\ \A m \in DOMAIN Without(s, a) :
              Without(s, a)[m].agent # a /\ \E n \in DOMAIN s : Without(s, a)[m] = s[n]
         /\ \A m, n \in DOMAIN Without(s, a) :
              Without(s, a)[m].agent = Without(s, a)[n].agent => m = n
<1> DEFINE Hits == {i \in 1..Len(s) : s[i].agent = a}
<1>1. CASE Hits = {}
  <2>1. Without(s, a) = s
    BY <1>1 DEF Without, RemoveFirstMatch
  <2>2. DOMAIN s = 1..Len(s)
    OBVIOUS
  <2>3. \A m \in DOMAIN s : s[m].agent # a
    BY <1>1, <2>2
  <2> QED BY <2>1, <2>3
<1>2. CASE Hits # {}
  <2>1. PICK k \in 1..Len(s) : /\ s[k].agent = a
                              /\ Without(s, a) \in Seq(S) /\ DOMAIN Without(s, a) = 1..Len(s) - 1
                              /\ \A i \in 1..Len(s) - 1 : Without(s, a)[i] = s[IF i < k THEN i ELSE i + 1]
    <3>1. \E k \in 1..Len(s) : SkipsPlace(S, s, a, k)
      BY <1>2, WithoutSkipsOne
    <3> QED BY <3>1 DEF SkipsPlace
  <2>2. Len(s) \in Nat /\ DOMAIN s = 1..Len(s)
    OBVIOUS
  <2> DEFINE t == Without(s, a)
  <2>3. /\ t \in Seq(S) /\ DOMAIN t = 1..Len(s) - 1
        /\ \A i \in 1..Len(s) - 1 : t[i] = s[IF i < k THEN i ELSE i + 1]
    BY <2>1
  <2> HIDE DEF t
  <2>4. \A i \in 1..Len(s) - 1 : (IF i < k THEN i ELSE i + 1) \in DOMAIN s \ {k}
    BY <2>1, <2>2
  <2>5. \A m \in DOMAIN t : t[m].agent # a /\ \E n \in DOMAIN s : t[m] = s[n]
    <3> SUFFICES ASSUME NEW m \in 1..Len(s) - 1
                 PROVE  t[m].agent # a /\ \E n \in DOMAIN s : t[m] = s[n]
      BY <2>3
    <3>1. PICK n \in DOMAIN s \ {k} : t[m] = s[n]
      BY <2>3, <2>4
    <3>2. s[n].agent # a
      BY <2>1, <2>2, <3>1
    <3> QED BY <3>1, <3>2
  <2>6. \A m, n \in DOMAIN t : t[m].agent = t[n].agent => m = n
    <3> SUFFICES ASSUME NEW m \in 1..Len(s) - 1, NEW n \in 1..Len(s) - 1,
                        t[m].agent = t[n].agent
                 PROVE  m = n
      BY <2>3
    <3> DEFINE Was(i) == IF i < k THEN i ELSE i + 1
    <3>1. Was(m) \in DOMAIN s /\ Was(n) \in DOMAIN s
      BY <2>4
    <3>2. s[Was(m)].agent = s[Was(n)].agent
      BY <2>3
    <3>3. Was(m) = Was(n)
      BY <3>1, <3>2
    <3> QED BY <2>1, <2>2, <3>3
  <2> QED BY <2>3, <2>5, <2>6 DEF t
<1> QED BY <1>1, <1>2

(* ... and no other entry is lost. *)
LEMMA WithoutLosesNoOther ==
  ASSUME NEW S, NEW s \in Seq(S), NEW a, NEW n \in DOMAIN s, s[n].agent # a
  PROVE  \E m \in DOMAIN Without(s, a) : Without(s, a)[m] = s[n]
<1> DEFINE Hits == {i \in 1..Len(s) : s[i].agent = a}
<1>1. CASE Hits = {}
  BY <1>1 DEF Without, RemoveFirstMatch
<1>2. CASE Hits # {}
  <2>1. PICK k \in 1..Len(s) : /\ s[k].agent = a
                              /\ Without(s, a) \in Seq(S) /\ DOMAIN Without(s, a) = 1..Len(s) - 1
                              /\ \A i \in 1..Len(s) - 1 : Without(s, a)[i] = s[IF i < k THEN i ELSE i + 1]
    <3>1. \E k \in 1..Len(s) : SkipsPlace(S, s, a, k)
      BY <1>2, WithoutSkipsOne
    <3> QED BY <3>1 DEF SkipsPlace
  <2>2. n # k /\ n \in 1..Len(s) /\ Len(s) \in Nat
    BY <2>1
  <2> DEFINE m == IF n < k THEN n ELSE n - 1
  <2>3. m \in 1..Len(s) - 1 /\ (IF m < k THEN m ELSE m + 1) = n
    BY <2>1, <2>2
  <2> HIDE DEF m
  <2> QED BY <2>1, <2>3
<1> QED BY <1>1, <1>2

(* The place of the first entry that passes: 0, or a place where one does. *)
LEMMA FirstPlace ==
  ASSUME NEW s, NEW Hits \in SUBSET 1..Len(s), Len(s) \in Nat
  PROVE  (IF Hits # {} THEN Min(Hits) ELSE 0) \in {0} \cup Hits
<1>1. Hits \subseteq Nat
  OBVIOUS
<1>2. Hits # {} => Min(Hits) \in Hits
  BY <1>1, MinIsLeast
<1> QED BY <1>2
-----------------------------------------------------------------------------
(* The panel *)

(***************************************************************************)
(* What makes MovedOnce inductive: the one job there may be is of an id    *)
(* whose outcome nobody remembers yet, and what moved the panel is         *)
(* remembered.                                                             *)
(***************************************************************************)
DeskInv ==
  /\ DeskType
  /\ switchingTo = None <=> jobs = {}
  /\ \A job, other \in jobs : job = other
  /\ \A job \in jobs : completed[job.id] = None
  /\ \A id \in Ids : moved[id] = 0 \/ (moved[id] = 1 /\ completed[id] # None)

LEMMA DeskInvHoldsFirst ==
  ASSUME DeskInit, requiresActiveInput \in BOOLEAN, activeInput \in Inputs
  PROVE  DeskInv
<1>1. DeskType
  BY DEF DeskInit, DeskType
<1>2. \A id \in Ids : moved[id] = 0
  BY DEF DeskInit
<1>3. switchingTo = None /\ jobs = {}
  BY DEF DeskInit
<1> QED BY <1>1, <1>2, <1>3 DEF DeskInv

LEMMA DeskInvImpliesMovedOnce == DeskInv => MovedOnce
<1> SUFFICES ASSUME DeskInv PROVE MovedOnce
  OBVIOUS
<1>1. Cardinality(jobs) <= 1
  <2>1. CASE jobs = {}
    BY <2>1, FS_EmptySet
  <2>2. CASE jobs # {}
    <3>1. PICK job \in jobs : jobs = {job}
      BY <2>2 DEF DeskInv
    <3> QED BY <3>1, FS_Singleton
  <2> QED BY <2>1, <2>2
<1>2. \A id \in Ids : moved[id] <= 1
  BY DEF DeskInv
<1>3. (switchingTo = None) = (jobs = {})
  BY DEF DeskInv
<1> QED BY <1>1, <1>2, <1>3 DEF MovedOnce

(* The panel only starts to move for an id nobody remembers, and only at rest. *)
LEMMA VerdictMovesAtRest ==
  ASSUME DeskInv, NEW id \in Ids, NEW i \in Inputs
  PROVE  /\ Verdict(id, i) \in {None, "ok", "failed"}
         /\ Verdict(id, i) = None => completed[id] = None /\ switchingTo = None
BY DeskAssumption DEF DeskInv, DeskType, Verdict

LEMMA SwitchInputKeepsDesk ==
  ASSUME DeskInv, NEW c \in Computers, NEW id \in Ids, NEW i \in Inputs, SwitchInput(c, id, i)
  PROVE  DeskInv'
<1>1. /\ UNCHANGED <<requiresActiveInput, activeInput, fault, moved>>
      /\ moved \in [Ids -> 0..2] /\ completed \in [Ids -> {None, "ok", "failed"}]
  BY DEF SwitchInput, DeskInv, DeskType
<1>2. CASE Verdict(id, i) = None
  <2> DEFINE new == [id |-> id, input |-> i, by |-> c, stuck |-> fault = "timeout"]
  <2>1. completed[id] = None /\ switchingTo = None /\ jobs = {}
    BY <1>2, VerdictMovesAtRest DEF DeskInv
  <2>2. switchingTo' = i /\ jobs' = {new} /\ completed' = completed
    BY <1>2, <2>1 DEF SwitchInput
  <2>3. new \in DeskJob /\ new.id = id
    BY DEF DeskJob
  <2>4. i # None
    BY DeskAssumption
  <2> QED BY <1>1, <2>1, <2>2, <2>3, <2>4 DEF DeskInv, DeskType
<1>3. CASE Verdict(id, i) # None
  <2> DEFINE outcome == Verdict(id, i)
  <2>1. completed' = Finished(id, outcome) /\ UNCHANGED <<switchingTo, jobs>>
    BY <1>3 DEF SwitchInput
  <2>2. outcome \in {"ok", "failed"}
    BY <1>3, VerdictMovesAtRest
  <2> HIDE DEF outcome
  <2>3. CASE completed[id] = None /\ switchingTo = None
    <3>1. completed' = [completed EXCEPT ![id] = outcome] /\ jobs = {}
      BY <2>1, <2>3 DEF Finished, DeskInv
    <3>2. completed' \in [Ids -> {None, "ok", "failed"}]
      BY <1>1, <2>2, <3>1
    <3>3. \A other \in Ids : completed[other] # None => completed'[other] # None
      BY <1>1, <2>3, <3>1
    <3> QED BY <1>1, <2>1, <3>1, <3>2, <3>3 DEF DeskInv, DeskType
  <2>4. CASE ~(completed[id] = None /\ switchingTo = None)
    <3>1. completed' = completed
      BY <2>1, <2>4 DEF Finished
    <3> QED BY <1>1, <2>1, <3>1 DEF DeskInv, DeskType
  <2> QED BY <2>3, <2>4
<1> QED BY <1>2, <1>3

LEMMA EndSwitchKeepsDesk ==
  ASSUME DeskInv, NEW job, EndSwitch(job)
  PROVE  DeskInv' /\ job \in DeskJob
<1>1. /\ job \in jobs /\ job \in DeskJob
      /\ moved \in [Ids -> 0..2] /\ completed \in [Ids -> {None, "ok", "failed"}]
  BY DEF EndSwitch, DeskInv, DeskType
<1>2. jobs' = {} /\ switchingTo' = None /\ UNCHANGED <<requiresActiveInput, fault>>
  BY <1>1 DEF EndSwitch, DeskInv
<1>3. /\ completed[job.id] = None /\ moved[job.id] = 0 /\ job.id \in Ids
      /\ job.input \in Inputs /\ job.stuck \in BOOLEAN
  BY <1>1 DEF DeskInv, DeskJob
<1>4. PICK outcome \in {"ok", "failed"} : completed' = [completed EXCEPT ![job.id] = outcome]
  BY <1>3 DEF EndSwitch, Remembered
<1>5. /\ completed' \in [Ids -> {None, "ok", "failed"}]
      /\ completed'[job.id] # None
      /\ \A id \in Ids : completed[id] # None => completed'[id] # None
  BY <1>1, <1>3, <1>4, DeskAssumption
<1>6. /\ activeInput' \in Inputs
      /\ moved' = moved \/ moved' = [moved EXCEPT ![job.id] = 1]
  <2>1. CASE job.stuck
    BY <2>1 DEF EndSwitch, DeskInv, DeskType
  <2>2. CASE ~job.stuck
    <3>1. activeInput' = job.input /\ moved' = [moved EXCEPT ![job.id] = moved[job.id] + 1]
      BY <2>2 DEF EndSwitch
    <3> QED BY <1>3, <3>1
  <2> QED BY <2>1, <2>2
<1>7. /\ moved' \in [Ids -> 0..2]
      /\ \A id \in Ids : moved'[id] = 0 \/ (moved'[id] = 1 /\ completed'[id] # None)
  <2>1. CASE moved' = moved
    BY <1>1, <1>5, <2>1 DEF DeskInv
  <2>2. CASE moved' = [moved EXCEPT ![job.id] = 1]
    BY <1>1, <1>3, <1>5, <2>2 DEF DeskInv
  <2> QED BY <1>6, <2>1, <2>2
<1> QED BY <1>1, <1>2, <1>5, <1>6, <1>7 DEF DeskInv, DeskType

LEMMA TouchKeepsDesk ==
  ASSUME DeskInv, Touched
  PROVE  DeskInv'
<1>1. CASE \E f \in Faults \cup {None} : InjectFault(f)
  BY <1>1 DEF InjectFault, DeskInv, DeskType
<1>2. CASE \E i \in Inputs : PressButton(i)
  BY <1>2 DEF PressButton, DeskInv, DeskType
<1> QED BY <1>1, <1>2 DEF Touched

LEMMA DeskStutters ==
  ASSUME DeskInv, UNCHANGED desk
  PROVE  DeskInv'
BY DEF DeskInv, DeskType, desk
-----------------------------------------------------------------------------
(* Types *)

LineTypes ==
  /\ up \subseteq Computers /\ online \subseteq up
  /\ wire \in [Computers -> Seq(AgentFrame)]
  /\ orders \in [Computers -> Seq(Order)]
  /\ handled \in [Computers -> SUBSET Ids]

(* A frame is only under way on a connection that is up: nothing is delivered after it. *)
LinesOfUp == \A a \in Computers : wire[a] # <<>> \/ orders[a] # <<>> => a \in up

OnePerAgent(s) == \A m, n \in DOMAIN s : s[m].agent = s[n].agent => m = n

StoreTypes ==
  /\ wiring \in [Inputs -> Computers \cup Others \cup {None}]
  /\ override \in [Inputs -> Computers \cup Others \cup {None}]
  /\ paths \in Seq(Path) /\ OnePerAgent(paths)
  /\ observations \in Seq(Report) /\ OnePerAgent(observations)
  /\ proven \subseteq Computers
  /\ lastActive \in Inputs \cup {None}

CommandTypes ==
  /\ infers \in BOOLEAN
  /\ desired \in [computer : Computers \cup Others, command : Ids] \cup {None}
  /\ commands \in [Ids -> Command \cup {None}]
  /\ events \in 0..MaxEvents

ObservationTypes == DeskInv /\ LineTypes /\ LinesOfUp /\ StoreTypes /\ CommandTypes

LEMMA ObservationTypesImplyTypeOK == ObservationTypes => TypeOK
BY DEF ObservationTypes, DeskInv, LineTypes, StoreTypes, CommandTypes, OnePerAgent, TypeOK

-----------------------------------------------------------------------------
(* Lines: what is sent, and what is taken from the head *)

LEMMA FrameFields ==
  ASSUME NEW f \in AgentFrame
  PROVE  /\ f.kind \in {"hello", "inventory", "observed", "result"}
         /\ f.kind \in {"hello", "inventory"} => f.via \in Inputs \cup {None}
         /\ f.kind \in {"observed", "result"} => f.seen \in Inputs \cup {None}
         /\ f.kind = "result" => f.id \in Ids /\ f.ok \in BOOLEAN
BY DEF AgentFrame

LEMMA OrderFields ==
  ASSUME NEW o \in Order
  PROVE  o.kind = "command" => o.id \in Ids /\ o.input \in Inputs
BY DEF Order

(* Lines of any kind of item, with one line longer by some items. *)
LEMMA LongerLine ==
  ASSUME NEW Item, NEW lines \in [Computers -> Seq(Item)], NEW a \in Computers,
         NEW items \in Seq(Item)
  PROVE  /\ [lines EXCEPT ![a] = @ \o items] \in [Computers -> Seq(Item)]
         /\ \A b \in Computers : b # a => [lines EXCEPT ![a] = @ \o items][b] = lines[b]
<1>1. lines[a] \o items \in Seq(Item)
  BY ConcatProperties
<1> QED BY <1>1

(* Lines with the first item of one line taken. *)
LEMMA ShorterLine ==
  ASSUME NEW Item, NEW lines \in [Computers -> Seq(Item)], NEW a \in Computers, lines[a] # <<>>
  PROVE  /\ Head(lines[a]) \in Item
         /\ [lines EXCEPT ![a] = Tail(@)] \in [Computers -> Seq(Item)]
         /\ \A b \in Computers : [lines EXCEPT ![a] = Tail(@)][b] # <<>> => lines[b] # <<>>
<1>1. Head(lines[a]) \in Item /\ Tail(lines[a]) \in Seq(Item)
  BY HeadTailProperties
<1> QED BY <1>1

LEMMA SentKeepsLines ==
  ASSUME LineTypes, NEW a \in Computers, NEW frames \in Seq(AgentFrame)
  PROVE  /\ Sent(a, frames) \in [Computers -> Seq(AgentFrame)]
         /\ \A b \in Computers : b # a => Sent(a, frames)[b] = wire[b]
BY LongerLine DEF LineTypes, Sent

LEMMA DeliveredKeepsLines ==
  ASSUME LineTypes, LinesOfUp, NEW a \in Computers, NEW kinds, Delivered(a, kinds)
  PROVE  /\ Head(wire[a]) \in AgentFrame /\ Head(wire[a]).kind \in kinds
         /\ wire' \in [Computers -> Seq(AgentFrame)]
         /\ \A b \in Computers : wire'[b] # <<>> => wire[b] # <<>>
         /\ a \in up
<1>1. wire[a] # <<>> /\ wire' = [wire EXCEPT ![a] = Tail(@)] /\ Head(wire[a]).kind \in kinds
  BY DEF Delivered
<1> QED BY <1>1, ShorterLine DEF LineTypes, LinesOfUp

LEMMA OrderedKeepsLines ==
  ASSUME LineTypes, LinesOfUp, NEW a \in Computers, NEW kind, Ordered(a, kind)
  PROVE  /\ Head(orders[a]) \in Order /\ Head(orders[a]).kind = kind
         /\ orders' \in [Computers -> Seq(Order)]
         /\ \A b \in Computers : orders'[b] # <<>> => orders[b] # <<>>
         /\ a \in up
<1>1. orders[a] # <<>> /\ orders' = [orders EXCEPT ![a] = Tail(@)] /\ Head(orders[a]).kind = kind
  BY DEF Ordered
<1> QED BY <1>1, ShorterLine DEF LineTypes, LinesOfUp

LEMMA ReadingIsInput ==
  ASSUME DeskInv, NEW a
  PROVE  Reading(a) \in Inputs \cup {None}
BY DEF DeskInv, DeskType, Reading

LEMMA ViaIsInput ==
  ASSUME DeskInv, NEW a \in Computers
  PROVE  Via(a) \in Inputs \cup {None}
BY ReadingIsInput, DeskAssumption DEF Via

LEMMA FramesAreLines ==
  ASSUME NEW Item, NEW first \in Item, NEW second \in Item
  PROVE  <<first>> \in Seq(Item) /\ <<first, second>> \in Seq(Item)
OBVIOUS

(* What agents send are frames. *)
LEMMA SentAreFrames ==
  ASSUME DeskInv, NEW a \in Computers
  PROVE  /\ \A kind \in {"hello", "inventory"} : [kind |-> kind, via |-> Via(a)] \in AgentFrame
         /\ SeenBy(a) \in AgentFrame
         /\ \A id \in Ids, ok \in BOOLEAN, seen \in Inputs \cup {None} :
              ResultOf(a, id, ok, seen) \in AgentFrame
BY ViaIsInput, ReadingIsInput DEF AgentFrame, SeenBy, ResultOf
-----------------------------------------------------------------------------
(* The store: one path and one report of each agent *)

LEMMA NewestLast ==
  ASSUME NEW S, NEW s \in Seq(S), OnePerAgent(s), NEW new \in S
  PROVE  /\ Append(Without(s, new.agent), new) \in Seq(S)
         /\ OnePerAgent(Append(Without(s, new.agent), new))
<1> DEFINE others == Without(s, new.agent)
           all == Append(others, new)
<1>1. /\ others \in Seq(S)
      /\ \A m \in DOMAIN others : others[m].agent # new.agent
      /\ \A m, n \in DOMAIN others : others[m].agent = others[n].agent => m = n
  BY WithoutKeepsOthers DEF OnePerAgent
<1> HIDE DEF others
<1>2. /\ all \in Seq(S) /\ DOMAIN all = 1..Len(others) + 1
      /\ all[Len(others) + 1] = new
      /\ \A m \in 1..Len(others) : all[m] = others[m] /\ m \in DOMAIN others
      /\ Len(others) \in Nat
  BY <1>1
<1> HIDE DEF all
<1>3. \A m, n \in 1..Len(others) + 1 : all[m].agent = all[n].agent => m = n
  BY <1>1, <1>2
<1>4. OnePerAgent(all)
  BY <1>2, <1>3 DEF OnePerAgent
<1> QED BY <1>2, <1>4 DEF all, others

LEMMA NewestFirst ==
  ASSUME NEW S, NEW s \in Seq(S), OnePerAgent(s), NEW new \in S
  PROVE  /\ <<new>> \o Without(s, new.agent) \in Seq(S)
         /\ OnePerAgent(<<new>> \o Without(s, new.agent))
<1> DEFINE others == Without(s, new.agent)
           all == <<new>> \o others
<1>1. /\ others \in Seq(S)
      /\ \A m \in DOMAIN others : others[m].agent # new.agent
      /\ \A m, n \in DOMAIN others : others[m].agent = others[n].agent => m = n
  BY WithoutKeepsOthers DEF OnePerAgent
<1> HIDE DEF others
<1>2. Len(others) \in Nat /\ DOMAIN others = 1..Len(others)
  BY <1>1
<1>3. <<new>> \in Seq(S) /\ Len(<<new>>) = 1 /\ <<new>>[1] = new
  OBVIOUS
<1>4. /\ all \in Seq(S) /\ Len(all) = 1 + Len(others)
      /\ \A m \in 1..1 + Len(others) : all[m] = IF m <= 1 THEN <<new>>[m] ELSE others[m - 1]
  BY <1>1, <1>3, ConcatProperties
<1> HIDE DEF all
<1>5. \A m \in 1..1 + Len(others) : IF m = 1 THEN all[m] = new
                                    ELSE all[m] = others[m - 1] /\ m - 1 \in DOMAIN others
  BY <1>2, <1>3, <1>4
<1>6. \A m, n \in 1..1 + Len(others) : all[m].agent = all[n].agent => m = n
  <2> SUFFICES ASSUME NEW m \in 1..1 + Len(others), NEW n \in 1..1 + Len(others),
                      all[m].agent = all[n].agent
               PROVE  m = n
    OBVIOUS
  <2>1. CASE m = 1 \/ n = 1
    BY <1>1, <1>5, <2>1
  <2>2. CASE m # 1 /\ n # 1
    <3>1. m - 1 = n - 1
      BY <1>1, <1>5, <2>2
    <3> QED BY <1>2, <3>1
  <2> QED BY <2>1, <2>2
<1>7. DOMAIN all = 1..1 + Len(others)
  BY <1>4, LenProperties
<1>8. OnePerAgent(all)
  BY <1>6, <1>7 DEF OnePerAgent
<1> QED BY <1>4, <1>8 DEF all, others

LEMMA MergedInputs ==
  ASSUME StoreTypes, NEW a \in Computers, NEW via
  PROVE  MergeInputs(a, via) \in [Inputs -> Computers \cup Others \cup {None}]
BY DEF StoreTypes, MergeInputs

(* The path an inventory makes, of agent a. *)
NewPath(a, via) == [agent |-> a, input |-> via, needsActive |-> ClaimsActive /\ a \notin proven]

LEMMA NewPathIsPath ==
  ASSUME NEW a \in Computers, NEW via \in Inputs \cup {None}
  PROVE  NewPath(a, via) \in Path /\ NewPath(a, via).agent = a
<1>1. (ClaimsActive /\ a \notin proven) \in BOOLEAN
  BY DEF ClaimsActive
<1> QED BY <1>1 DEF NewPath, Path

LEMMA InventoryKeepsStore ==
  ASSUME StoreTypes, NEW a \in Computers, NEW via \in Inputs \cup {None},
         ApplyMonitorReports(a, via)
  PROVE  StoreTypes'
<1>1. /\ wiring' = MergeInputs(a, via)
      /\ paths' = Append(Without(paths, NewPath(a, via).agent), NewPath(a, via))
      /\ UNCHANGED <<override, proven, observations, lastActive>>
  BY NewPathIsPath DEF ApplyMonitorReports, NewPath
<1>2. paths \in Seq(Path) /\ OnePerAgent(paths)
  BY DEF StoreTypes
<1>3. paths' \in Seq(Path) /\ OnePerAgent(paths')
  BY <1>1, <1>2, NewPathIsPath, NewestLast
<1>4. OnePerAgent(observations')
  BY <1>1 DEF StoreTypes
<1> QED BY <1>1, <1>3, <1>4, MergedInputs DEF StoreTypes

LEMMA NotedTypes ==
  ASSUME StoreTypes, NEW a \in Computers, NEW seen \in Inputs \cup {None}
  PROVE  /\ Noted(a, seen).observations \in Seq(Report) /\ OnePerAgent(Noted(a, seen).observations)
         /\ Noted(a, seen).paths \in Seq(Path) /\ OnePerAgent(Noted(a, seen).paths)
         /\ Noted(a, seen).proven \subseteq Computers
         /\ Noted(a, seen).lastActive \in Inputs \cup {None}
<1> DEFINE report == [agent |-> a, seen |-> seen]
           independent == seen # None /\ Proves(a, seen)
           marked == [n \in DOMAIN paths |->
                        IF independent /\ paths[n].agent = a
                        THEN [paths[n] EXCEPT !.needsActive = FALSE] ELSE paths[n]]
<1>1. /\ Noted(a, seen).observations = <<report>> \o Without(observations, a)
      /\ Noted(a, seen).paths = marked
      /\ Noted(a, seen).proven = IF independent THEN proven \cup {a} ELSE proven
      /\ Noted(a, seen).lastActive = IF seen # None THEN seen ELSE lastActive
  BY DEF Noted
<1>2. report \in Report /\ report.agent = a
  BY DEF Report
<1>3. /\ <<report>> \o Without(observations, a) \in Seq(Report)
      /\ OnePerAgent(<<report>> \o Without(observations, a))
  <2> HIDE DEF report
  <2> QED BY <1>2, NewestFirst DEF StoreTypes
<1> HIDE DEF independent
<1>4. ASSUME NEW n \in DOMAIN paths PROVE marked[n] \in Path /\ marked[n].agent = paths[n].agent
  <2>1. paths[n] \in Path
    BY ElementOfSeq DEF StoreTypes
  <2>2. [paths[n] EXCEPT !.needsActive = FALSE] \in Path
    BY <2>1 DEF Path
  <2>3. [paths[n] EXCEPT !.needsActive = FALSE].agent = paths[n].agent
    BY <2>1 DEF Path
  <2>4. marked[n] \in {paths[n], [paths[n] EXCEPT !.needsActive = FALSE]}
    OBVIOUS
  <2> HIDE DEF marked
  <2> QED BY <2>1, <2>2, <2>3, <2>4
<1>5. paths \in Seq(Path) /\ Len(paths) \in Nat /\ DOMAIN paths = 1..Len(paths)
  BY DEF StoreTypes
<1>6. marked \in [1..Len(paths) -> Path] /\ DOMAIN marked = DOMAIN paths
  BY <1>4, <1>5
<1> HIDE DEF marked
<1>7. marked \in Seq(Path)
  BY <1>5, <1>6
<1>8. OnePerAgent(marked)
  BY <1>4, <1>6 DEF OnePerAgent, StoreTypes
<1> QED BY <1>1, <1>3, <1>7, <1>8 DEF StoreTypes
LEMMA NoteKeepsStore ==
  ASSUME StoreTypes, NEW a \in Computers, NEW seen \in Inputs \cup {None},
         Note(Noted(a, seen)), lastActive' \in Inputs \cup {None}, UNCHANGED <<wiring, override>>
  PROVE  StoreTypes'
<1> DEFINE noted == Noted(a, seen)
<1>1. /\ noted.observations \in Seq(Report) /\ OnePerAgent(noted.observations)
      /\ noted.paths \in Seq(Path) /\ OnePerAgent(noted.paths)
      /\ noted.proven \subseteq Computers
  BY NotedTypes
<1>2. observations' = noted.observations /\ paths' = noted.paths /\ proven' = noted.proven
  BY DEF Note
<1> HIDE DEF noted
<1>3. OnePerAgent(observations') /\ OnePerAgent(paths')
  BY <1>1, <1>2
<1> QED BY <1>1, <1>2, <1>3 DEF StoreTypes

LEMMA StoreStutters ==
  ASSUME StoreTypes, UNCHANGED store
  PROVE  StoreTypes'
BY DEF StoreTypes, store, OnePerAgent

-----------------------------------------------------------------------------
(* Commands *)

LEMMA WithStatusKeepsCommands ==
  ASSUME CommandTypes, NEW ids, \A id \in ids \cap Ids : commands[id] # None,
         NEW status \in {"dispatched", "succeeded", "failed", "timed-out", "superseded"}
  PROVE  WithStatus(ids, status) \in [Ids -> Command \cup {None}]
<1>1. ASSUME NEW id \in Ids
      PROVE  (IF id \in ids THEN [commands[id] EXCEPT !.status = status] ELSE commands[id])
               \in Command \cup {None}
  <2>1. CASE id \in ids
    <3>1. commands[id] \in Command
      BY <2>1 DEF CommandTypes
    <3>2. [commands[id] EXCEPT !.status = status] \in Command
      BY <3>1 DEF Command
    <3> QED BY <2>1, <3>2
  <2>2. CASE id \notin ids
    BY <2>2 DEF CommandTypes
  <2> QED BY <2>1, <2>2
<1> QED BY <1>1 DEF WithStatus

LEMMA InFlightIsCommand ==
  ASSUME CommandTypes, NEW id \in Ids, InFlight(id)
  PROVE  commands[id] # None /\ commands[id] \in Command /\ commands[id].input \in Inputs
BY DEF CommandTypes, InFlight, Command

LEMMA InputForIsInput ==
  ASSUME NEW w, NEW c
  PROVE  InputFor(Ports, w, c) \in Inputs \cup {None}
<1> DEFINE wired == {n \in DOMAIN Ports : w[Ports[n]] = c}
<1>1. CASE wired = {}
  BY <1>1 DEF InputFor
<1>2. CASE wired # {}
  <2>1. wired \subseteq Nat /\ wired \subseteq DOMAIN Ports
    BY ObservationAssumption
  <2>2. \E n \in wired : \A other \in wired : n <= other
    <3> HIDE DEF wired
    <3> QED BY <1>2, <2>1, LeastNumber
  <2>3. InputFor(Ports, w, c) = Ports[CHOOSE n \in wired : \A other \in wired : n <= other]
    BY <1>2 DEF InputFor
  <2> HIDE DEF wired
  <2>4. (CHOOSE n \in wired : \A other \in wired : n <= other) \in DOMAIN Ports
    BY <2>1, <2>2
  <2>5. \A n \in DOMAIN Ports : Ports[n] \in Inputs
    BY ObservationAssumption
  <2> QED BY <2>3, <2>4, <2>5
<1> QED BY <1>1, <1>2

(* A request goes to an agent whose connection is up, or to none. *)
LEMMA ControlPathIsOnline ==
  ASSUME StoreTypes
  PROVE  SelectControlPath \in (Computers \cap online) \cup {None}
<1> DEFINE onActive == {i \in 1..Len(paths) : /\ paths[i].agent \in online
                                              /\ paths[i].input \in {BestKnownActiveInput} \ {None}}
           free == {i \in 1..Len(paths) : paths[i].agent \in online /\ ~paths[i].needsActive}
           first(hits) == IF hits # {} THEN Min(hits) ELSE 0
<1>1. SelectControlPath = IF first(onActive) # 0 THEN paths[first(onActive)].agent
                          ELSE IF first(free) # 0 THEN paths[first(free)].agent ELSE None
  BY DEF SelectControlPath, SelectInSeq
<1>2. Len(paths) \in Nat /\ \A i \in 1..Len(paths) : paths[i].agent \in Computers
  <2>1. paths \in Seq(Path)
    BY DEF StoreTypes
  <2>2. \A i \in 1..Len(paths) : paths[i] \in Path
    BY <2>1, ElementOfSeq
  <2>3. \A p \in Path : p.agent \in Computers
    BY DEF Path
  <2> QED BY <2>1, <2>2, <2>3
<1>3. \A i \in onActive \cup free : paths[i].agent \in Computers \cap online
  BY <1>2
<1>4. first(onActive) \in {0} \cup onActive
  <2>1. onActive \in SUBSET 1..Len(paths)
    OBVIOUS
  <2> HIDE DEF onActive
  <2> QED BY <1>2, <2>1, FirstPlace
<1>5. first(free) \in {0} \cup free
  <2>1. free \in SUBSET 1..Len(paths)
    OBVIOUS
  <2> HIDE DEF free
  <2> QED BY <1>2, <2>1, FirstPlace
<1> HIDE DEF onActive, free, first
<1> QED BY <1>1, <1>3, <1>4, <1>5
-----------------------------------------------------------------------------
(* Every step keeps the types *)

LEMMA InventoryKeepsTypes ==
  ASSUME ObservationTypes, NEW a \in Computers, HandleInventory(a)
  PROVE  ObservationTypes'
<1> DEFINE frame == Head(wire[a])
<1>1. Delivered(a, {"hello", "inventory"}) /\ ApplyMonitorReports(a, frame.via)
  BY DEF HandleInventory
<1>2. /\ frame \in AgentFrame /\ frame.kind \in {"hello", "inventory"} /\ a \in up
      /\ wire' \in [Computers -> Seq(AgentFrame)]
      /\ \A b \in Computers : wire'[b] # <<>> => wire[b] # <<>>
  BY <1>1, DeliveredKeepsLines DEF ObservationTypes
<1>3. frame.via \in Inputs \cup {None}
  BY <1>2, FrameFields
<1> HIDE DEF frame
<1>4. StoreTypes'
  BY <1>1, <1>3, InventoryKeepsStore DEF ObservationTypes
<1>5. LineTypes' /\ LinesOfUp'
  BY <1>2 DEF ObservationTypes, LineTypes, LinesOfUp, HandleInventory, agentSide
<1>6. DeskInv' /\ CommandTypes'
  BY DeskStutters DEF ObservationTypes, CommandTypes, HandleInventory
<1> QED BY <1>4, <1>5, <1>6 DEF ObservationTypes

LEMMA ObservedKeepsTypes ==
  ASSUME ObservationTypes, NEW a \in Computers, HandleObserved(a)
  PROVE  ObservationTypes'
<1> DEFINE frame == Head(wire[a])
<1>1. /\ Delivered(a, {"observed"}) /\ Note(Noted(a, frame.seen))
      /\ lastActive' = Noted(a, frame.seen).lastActive
  BY DEF HandleObserved
<1>2. /\ frame \in AgentFrame /\ frame.kind = "observed"
      /\ wire' \in [Computers -> Seq(AgentFrame)]
      /\ \A b \in Computers : wire'[b] # <<>> => wire[b] # <<>>
  BY <1>1, DeliveredKeepsLines DEF ObservationTypes
<1>3. frame.seen \in Inputs \cup {None}
  BY <1>2, FrameFields
<1> HIDE DEF frame
<1>4. StoreTypes'
  <2>1. lastActive' \in Inputs \cup {None}
    BY <1>1, <1>3, NotedTypes DEF ObservationTypes
  <2>2. UNCHANGED <<wiring, override>>
    BY DEF HandleObserved
  <2> QED BY <1>1, <1>3, <2>1, <2>2, NoteKeepsStore DEF ObservationTypes
<1>5. LineTypes' /\ LinesOfUp'
  BY <1>2 DEF ObservationTypes, LineTypes, LinesOfUp, HandleObserved, agentSide
<1>6. DeskInv' /\ CommandTypes'
  BY DeskStutters DEF ObservationTypes, CommandTypes, HandleObserved
<1> QED BY <1>4, <1>5, <1>6 DEF ObservationTypes

LEMMA ResultKeepsTypes ==
  ASSUME ObservationTypes, NEW a \in Computers, HandleResult(a)
  PROVE  ObservationTypes'
<1> DEFINE frame == Head(wire[a])
           noted == Noted(a, frame.seen)
           wins == InFlight(frame.id) /\ frame.ok
           input == commands[frame.id].input
<1>1. /\ Delivered(a, {"result"}) /\ Note(noted)
      /\ lastActive' = IF wins THEN input ELSE noted.lastActive
      /\ orders' = IF wins THEN [b \in Computers |->
                                   IF b \in AskedToLook(input) THEN Append(orders[b], Refresh)
                                   ELSE orders[b]]
                   ELSE orders
      /\ commands' = IF InFlight(frame.id)
                     THEN WithStatus({frame.id}, IF frame.ok THEN "succeeded" ELSE "failed")
                     ELSE commands
      /\ UNCHANGED <<desk, infers, agentSide, online, wiring, override, desired, events>>
  BY DEF HandleResult
<1>2. /\ frame \in AgentFrame /\ frame.kind = "result"
      /\ wire' \in [Computers -> Seq(AgentFrame)]
      /\ \A b \in Computers : wire'[b] # <<>> => wire[b] # <<>>
  BY <1>1, DeliveredKeepsLines DEF ObservationTypes
<1>3. frame.seen \in Inputs \cup {None} /\ frame.id \in Ids /\ frame.ok \in BOOLEAN
  BY <1>2, FrameFields
<1> HIDE DEF frame
<1>4. StoreTypes'
  <2>1. noted.lastActive \in Inputs \cup {None}
    BY <1>3, NotedTypes DEF ObservationTypes
  <2>2. wins => input \in Inputs
    BY <1>3, InFlightIsCommand DEF ObservationTypes
  <2>3. lastActive' \in Inputs \cup {None}
    <3> HIDE DEF noted, wins, input
    <3> QED BY <1>1, <2>1, <2>2
  <2> QED BY <1>1, <1>3, <2>3, NoteKeepsStore DEF ObservationTypes
<1>5. /\ orders' \in [Computers -> Seq(Order)]
      /\ \A b \in Computers : orders'[b] # <<>> => orders[b] # <<>> \/ b \in online
  <2>1. CASE ~wins
    BY <1>1, <2>1 DEF ObservationTypes, LineTypes
  <2>2. CASE wins
    <3>1. Refresh \in Order
      BY DEF Refresh, Order
    <3>2. AskedToLook(input) \subseteq online
      BY DEF AskedToLook
    <3> DEFINE asked == AskedToLook(input)
    <3>3. orders' = [b \in Computers |-> IF b \in asked THEN Append(orders[b], Refresh) ELSE orders[b]]
      BY <1>1, <2>2
    <3> HIDE DEF asked, wins, noted, input
    <3>4. \A b \in Computers : orders[b] \in Seq(Order)
      BY DEF ObservationTypes, LineTypes
    <3>5. \A b \in Computers : Append(orders[b], Refresh) \in Seq(Order)
      BY <3>1, <3>4
    <3>6. asked \subseteq online
      BY <3>2 DEF asked
    <3> QED BY <3>3, <3>4, <3>5, <3>6
  <2> QED BY <2>1, <2>2
<1>6. LineTypes' /\ LinesOfUp'
  <2>1. UNCHANGED <<up, handled, online>>
    BY <1>1 DEF agentSide
  <2> QED BY <1>2, <1>5, <2>1 DEF ObservationTypes, LineTypes, LinesOfUp
<1>7. DeskInv' /\ CommandTypes'
  <2>1. DeskInv'
    BY <1>1, DeskStutters DEF ObservationTypes
  <2>2. commands' \in [Ids -> Command \cup {None}]
    <3>1. CASE InFlight(frame.id)
      <4>1. \A id \in {frame.id} \cap Ids : commands[id] # None
        BY <3>1 DEF InFlight
      <4> QED BY <1>1, <3>1, <4>1, WithStatusKeepsCommands DEF ObservationTypes
    <3>2. CASE ~InFlight(frame.id)
      BY <1>1, <3>2 DEF ObservationTypes, CommandTypes
    <3> QED BY <3>1, <3>2
  <2> QED BY <1>1, <2>1, <2>2 DEF ObservationTypes, CommandTypes
<1> QED BY <1>4, <1>6, <1>7 DEF ObservationTypes
LEMMA SetMonitorSourceKeepsTypes ==
  ASSUME ObservationTypes, NEW id \in Ids, NEW c \in Computers \cup Others, SetMonitorSource(id, c)
  PROVE  ObservationTypes'
<1> DEFINE input == InputFor(Ports, wiring, c)
           agent == SelectControlPath
           order == [kind |-> "command", id |-> id, input |-> input]
           given == [input |-> input, agent |-> agent,
                     status |-> IF agent = None THEN "failed" ELSE "dispatched"]
           others == {other \in Ids : InFlight(other)}
<1>1. /\ events < MaxEvents /\ events' = events + 1
      /\ input # None
      /\ commands' = [WithStatus(others, "superseded") EXCEPT ![id] = given]
      /\ desired' = [computer |-> c, command |-> id]
      /\ orders' = IF agent = None THEN orders ELSE [orders EXCEPT ![agent] = Append(@, order)]
      /\ UNCHANGED <<desk, infers, agentSide, online, wire, store>>
  BY DEF SetMonitorSource, Happens
<1>2. input \in Inputs
  BY <1>1, InputForIsInput
<1>3. agent \in (Computers \cap online) \cup {None}
  BY ControlPathIsOnline DEF ObservationTypes
<1>4. given \in Command
  <2> HIDE DEF input, agent
  <2> QED BY <1>2, <1>3 DEF Command
<1>5. order \in Order
  <2> HIDE DEF input
  <2> QED BY <1>2 DEF Order
<1>6. WithStatus(others, "superseded") \in [Ids -> Command \cup {None}]
  <2>1. \A other \in others \cap Ids : commands[other] # None
    BY DEF InFlight
  <2> HIDE DEF others
  <2> QED BY <2>1, WithStatusKeepsCommands DEF ObservationTypes
<1> HIDE DEF input, agent, order, given, others
<1>7. CommandTypes'
  <2>1. commands' \in [Ids -> Command \cup {None}]
    BY <1>1, <1>4, <1>6
  <2>2. events' \in 0..MaxEvents
    BY <1>1, ObservationAssumption DEF ObservationTypes, CommandTypes
  <2> QED BY <1>1, <2>1, <2>2 DEF ObservationTypes, CommandTypes
<1>8. /\ orders' \in [Computers -> Seq(Order)]
      /\ \A b \in Computers : orders'[b] # <<>> => orders[b] # <<>> \/ b \in online
  <2>1. CASE agent = None
    BY <1>1, <2>1 DEF ObservationTypes, LineTypes
  <2>2. CASE agent # None
    <3>1. orders \in [Computers -> Seq(Order)] /\ agent \in Computers /\ agent \in online
      BY <1>3, <2>2 DEF ObservationTypes, LineTypes
    <3>2. Append(orders[agent], order) \in Seq(Order)
      BY <1>5, <3>1
    <3>3. orders' = [orders EXCEPT ![agent] = Append(orders[agent], order)]
      BY <1>1, <2>2
    <3> QED BY <3>1, <3>2, <3>3
  <2> QED BY <2>1, <2>2
<1>9. LineTypes' /\ LinesOfUp'
  BY <1>1, <1>8 DEF ObservationTypes, LineTypes, LinesOfUp, agentSide
<1>10. DeskInv' /\ StoreTypes'
  BY <1>1, DeskStutters, StoreStutters DEF ObservationTypes
<1> QED BY <1>7, <1>9, <1>10 DEF ObservationTypes

LEMMA TimeoutKeepsTypes ==
  ASSUME ObservationTypes, NEW id \in Ids, Timeout(id)
  PROVE  ObservationTypes'
<1>1. commands' \in [Ids -> Command \cup {None}]
  <2>1. \A other \in {id} \cap Ids : commands[other] # None
    BY DEF Timeout, InFlight
  <2>2. commands' = WithStatus({id}, "timed-out")
    BY DEF Timeout
  <2> QED BY <2>1, <2>2, WithStatusKeepsCommands DEF ObservationTypes
<1>2. UNCHANGED <<desk, infers, agentSide, online, wire, orders, store, desired, events>>
  BY DEF Timeout
<1>3. DeskInv' /\ StoreTypes'
  BY <1>2, DeskStutters, StoreStutters DEF ObservationTypes
<1>4. LineTypes' /\ LinesOfUp' /\ CommandTypes'
  BY <1>1, <1>2 DEF ObservationTypes, LineTypes, LinesOfUp, CommandTypes, agentSide
<1> QED BY <1>3, <1>4 DEF ObservationTypes

(* What sending leaves as it is. *)
LEMMA SendingKeepsTypes ==
  ASSUME ObservationTypes, NEW a \in Computers, NEW frames \in Seq(AgentFrame),
         wire' = Sent(a, frames), a \in up', up' \subseteq Computers, up \subseteq up',
         handled' \in [Computers -> SUBSET Ids],
         orders' \in [Computers -> Seq(Order)],
         \A b \in Computers : orders'[b] # <<>> => orders[b] # <<>>,
         UNCHANGED online
  PROVE  LineTypes' /\ LinesOfUp'
BY SentKeepsLines DEF ObservationTypes, LineTypes, LinesOfUp

LEMMA OthersStutter ==
  ASSUME ObservationTypes, UNCHANGED <<infers, store, desired, commands, events>>
  PROVE  StoreTypes' /\ CommandTypes'
BY StoreStutters DEF ObservationTypes, CommandTypes

LEMMA DialKeepsTypes ==
  ASSUME ObservationTypes, NEW a \in Computers, Dial(a)
  PROVE  ObservationTypes'
<1> DEFINE frames == <<[kind |-> "hello", via |-> Via(a)]>>
<1>1. /\ up' = up \cup {a} /\ wire' = Sent(a, frames)
      /\ UNCHANGED <<desk, infers, handled, online, orders, store, desired, commands, events>>
  BY DEF Dial
<1>2. frames \in Seq(AgentFrame)
  <2>1. [kind |-> "hello", via |-> Via(a)] \in AgentFrame /\ SeenBy(a) \in AgentFrame
    BY SentAreFrames DEF ObservationTypes
  <2> QED BY <2>1, FramesAreLines
<1> HIDE DEF frames
<1>3. LineTypes' /\ LinesOfUp'
  BY <1>1, <1>2, SendingKeepsTypes DEF ObservationTypes, LineTypes
<1> QED BY <1>1, <1>3, DeskStutters, OthersStutter DEF ObservationTypes

LEMMA ObserveKeepsTypes ==
  ASSUME ObservationTypes, NEW a \in Computers, Observe(a)
  PROVE  ObservationTypes'
<1>1. /\ a \in online /\ wire' = Sent(a, <<SeenBy(a)>>)
      /\ UNCHANGED <<desk, infers, agentSide, online, orders, store, desired, commands, events>>
  BY DEF Observe
<1>2. <<SeenBy(a)>> \in Seq(AgentFrame)
  BY SentAreFrames, FramesAreLines DEF ObservationTypes
<1>3. LineTypes' /\ LinesOfUp'
  BY <1>1, <1>2, SendingKeepsTypes DEF ObservationTypes, LineTypes, agentSide
<1> QED BY <1>1, <1>3, DeskStutters, OthersStutter DEF ObservationTypes

LEMMA LookKeepsTypes ==
  ASSUME ObservationTypes, NEW a \in Computers, Look(a)
  PROVE  ObservationTypes'
<1> DEFINE frames == <<[kind |-> "inventory", via |-> Via(a)], SeenBy(a)>>
<1>1. /\ Ordered(a, "refresh") /\ wire' = Sent(a, frames)
      /\ UNCHANGED <<desk, infers, agentSide, online, store, desired, commands, events>>
  BY DEF Look
<1>2. frames \in Seq(AgentFrame)
  <2>1. [kind |-> "inventory", via |-> Via(a)] \in AgentFrame /\ SeenBy(a) \in AgentFrame
    BY SentAreFrames DEF ObservationTypes
  <2> QED BY <2>1, FramesAreLines
<1> HIDE DEF frames
<1>3. /\ a \in up /\ orders' \in [Computers -> Seq(Order)]
      /\ \A b \in Computers : orders'[b] # <<>> => orders[b] # <<>>
  BY <1>1, OrderedKeepsLines DEF ObservationTypes
<1>4. LineTypes' /\ LinesOfUp'
  BY <1>1, <1>2, <1>3, SendingKeepsTypes DEF ObservationTypes, LineTypes, agentSide
<1> QED BY <1>1, <1>4, DeskStutters, OthersStutter DEF ObservationTypes

LEMMA ExecuteKeepsTypes ==
  ASSUME ObservationTypes, NEW a \in Computers, Execute(a)
  PROVE  ObservationTypes'
<1> DEFINE order == Head(orders[a])
           known == order.id \in handled[a]
           answer == CASE known -> "ok"
                       [] ~known /\ ~CanControl(a) -> "failed"
                       [] OTHER -> Verdict(order.id, order.input)
           frames == <<ResultOf(a, order.id, answer = "ok", Reading(a))>>
<1>1. /\ Ordered(a, "command")
      /\ IF known \/ ~CanControl(a) THEN UNCHANGED desk ELSE SwitchInput(a, order.id, order.input)
      /\ IF answer = None
         THEN UNCHANGED <<wire, handled>>
         ELSE /\ wire' = Sent(a, frames)
              /\ handled' = IF answer = "ok" THEN [handled EXCEPT ![a] = @ \cup {order.id}] ELSE handled
      /\ UNCHANGED <<infers, up, online, store, desired, commands, events>>
  BY DEF Execute
<1>2. /\ order \in Order /\ order.kind = "command"
      /\ a \in up /\ orders' \in [Computers -> Seq(Order)]
      /\ \A b \in Computers : orders'[b] # <<>> => orders[b] # <<>>
  BY <1>1, OrderedKeepsLines DEF ObservationTypes
<1>3. order.id \in Ids /\ order.input \in Inputs
  BY <1>2, OrderFields
<1>4. (answer = "ok") \in BOOLEAN
  OBVIOUS
<1>5. frames \in Seq(AgentFrame)
  <2>1. ResultOf(a, order.id, answer = "ok", Reading(a)) \in AgentFrame
    <3> DEFINE ok == answer = "ok"
               id == order.id
    <3>1. id \in Ids /\ ok \in BOOLEAN
      BY <1>3, <1>4
    <3> HIDE DEF ok, id
    <3>2. ResultOf(a, id, ok, Reading(a)) \in AgentFrame
      BY <3>1, SentAreFrames, ReadingIsInput DEF ObservationTypes
    <3> QED BY <3>2 DEF ok, id
  <2> QED BY <2>1
<1> HIDE DEF order, known, answer, frames
<1>6. handled' \in [Computers -> SUBSET Ids]
  <2> DEFINE id == order.id
  <2>1. id \in Ids
    BY <1>3
  <2>2. handled \in [Computers -> SUBSET Ids]
    BY DEF ObservationTypes, LineTypes
  <2>3. handled' = handled \/ handled' = [handled EXCEPT ![a] = @ \cup {id}]
    BY <1>1
  <2> HIDE DEF id
  <2> QED BY <2>1, <2>2, <2>3
<1>7. LineTypes' /\ LinesOfUp'
  <2>1. CASE answer = None
    BY <1>1, <1>2, <2>1 DEF ObservationTypes, LineTypes, LinesOfUp
  <2>2. CASE answer # None
    BY <1>1, <1>2, <1>5, <1>6, <2>2, SendingKeepsTypes DEF ObservationTypes, LineTypes
  <2> QED BY <2>1, <2>2
<1>8. DeskInv'
  BY <1>1, <1>3, DeskStutters, SwitchInputKeepsDesk DEF ObservationTypes
<1> QED BY <1>1, <1>7, <1>8, OthersStutter DEF ObservationTypes

LEMMA FinishKeepsTypes ==
  ASSUME ObservationTypes, NEW job \in jobs, Finish(job)
  PROVE  ObservationTypes'
<1> DEFINE a == job.by
           frames == <<ResultOf(a, job.id, ~job.stuck, Reading(a)')>>
<1>1. /\ EndSwitch(job)
      /\ handled' = IF job.stuck THEN handled ELSE [handled EXCEPT ![a] = @ \cup {job.id}]
      /\ wire' = IF a \in up THEN Sent(a, frames) ELSE wire
      /\ UNCHANGED <<infers, up, online, orders, store, desired, commands, events>>
  BY DEF Finish
<1>2. DeskInv' /\ job \in DeskJob
  BY <1>1, EndSwitchKeepsDesk DEF ObservationTypes
<1>3. a \in Computers /\ job.id \in Ids /\ (~job.stuck) \in BOOLEAN
  BY <1>2 DEF DeskJob
<1>4. frames \in Seq(AgentFrame)
  <2>1. Reading(a)' \in Inputs \cup {None}
    BY <1>2 DEF DeskInv, DeskType, Reading
  <2> DEFINE seen == Reading(a)'
             ok == ~job.stuck
  <2>2. ok \in BOOLEAN /\ seen \in Inputs \cup {None}
    BY <1>3, <2>1
  <2> HIDE DEF seen, ok
  <2>3. ResultOf(a, job.id, ok, seen) \in AgentFrame
    BY <1>3, <2>2, SentAreFrames DEF ObservationTypes
  <2>4. <<ResultOf(a, job.id, ok, seen)>> \in Seq(AgentFrame)
    BY <2>3, FramesAreLines
  <2> QED BY <2>4 DEF seen, ok
<1> HIDE DEF a, frames
<1>5. handled' \in [Computers -> SUBSET Ids]
  BY <1>1, <1>3 DEF ObservationTypes, LineTypes
<1>6. LineTypes' /\ LinesOfUp'
  <2>1. CASE a \in up
    BY <1>1, <1>3, <1>4, <1>5, <2>1, SendingKeepsTypes DEF ObservationTypes, LineTypes
  <2>2. CASE a \notin up
    BY <1>1, <1>5, <2>2 DEF ObservationTypes, LineTypes, LinesOfUp
  <2> QED BY <2>1, <2>2
<1> QED BY <1>1, <1>2, <1>6, OthersStutter DEF ObservationTypes

LEMMA HappensIsCounted ==
  ASSUME ObservationTypes, Happens
  PROVE  events' \in 0..MaxEvents
BY ObservationAssumption DEF Happens, ObservationTypes, CommandTypes

LEMMA LeaveKeepsTypes ==
  ASSUME ObservationTypes, NEW a \in Computers, Leave(a)
  PROVE  ObservationTypes'
<1> DEFINE lost == {id \in Ids : InFlight(id) /\ commands[id].agent = a}
<1>1. /\ Happens /\ up' = up \ {a} /\ online' = online \ {a}
      /\ wire' = [wire EXCEPT ![a] = <<>>] /\ orders' = [orders EXCEPT ![a] = <<>>]
      /\ commands' = WithStatus(lost, "failed")
      /\ UNCHANGED <<desk, infers, handled, store, desired>>
  BY DEF Leave
<1>2. commands' \in [Ids -> Command \cup {None}]
  <2>1. \A id \in lost \cap Ids : commands[id] # None
    BY DEF InFlight
  <2> HIDE DEF lost
  <2> QED BY <1>1, <2>1, WithStatusKeepsCommands DEF ObservationTypes
<1>3. LineTypes' /\ LinesOfUp'
  <2>1. <<>> \in Seq(AgentFrame) /\ <<>> \in Seq(Order)
    OBVIOUS
  <2>2. wire' \in [Computers -> Seq(AgentFrame)] /\ orders' \in [Computers -> Seq(Order)]
    BY <1>1, <2>1 DEF ObservationTypes, LineTypes
  <2>3. wire'[a] = <<>> /\ orders'[a] = <<>>
    BY <1>1 DEF ObservationTypes, LineTypes
  <2>4. \A b \in Computers \ {a} : wire'[b] = wire[b] /\ orders'[b] = orders[b]
    BY <1>1 DEF ObservationTypes, LineTypes
  <2> HIDE DEF lost
  <2>5. LineTypes'
    BY <1>1, <2>2 DEF ObservationTypes, LineTypes
  <2>6. LinesOfUp'
    BY <1>1, <2>3, <2>4 DEF ObservationTypes, LinesOfUp
  <2> QED BY <2>5, <2>6
<1>4. CommandTypes'
  BY <1>1, <1>2, HappensIsCounted DEF ObservationTypes, CommandTypes
<1> QED BY <1>1, <1>3, <1>4, DeskStutters, StoreStutters DEF ObservationTypes

LEMMA OverrideKeepsTypes ==
  ASSUME ObservationTypes, NEW i \in Inputs, NEW c \in Computers \cup Others \cup {None},
         SetWiringOverride(i, c)
  PROVE  ObservationTypes'
<1>1. /\ Happens
      /\ override' = [override EXCEPT ![i] = c] /\ wiring' = [wiring EXCEPT ![i] = c]
      /\ UNCHANGED <<desk, infers, agentSide, online, wire, orders, paths, proven, observations,
                     lastActive, desired, commands>>
  BY DEF SetWiringOverride
<1>2. StoreTypes'
  BY <1>1 DEF ObservationTypes, StoreTypes, OnePerAgent
<1>3. LineTypes' /\ LinesOfUp'
  BY <1>1 DEF ObservationTypes, LineTypes, LinesOfUp, agentSide
<1>4. CommandTypes'
  BY <1>1, HappensIsCounted DEF ObservationTypes, CommandTypes
<1> QED BY <1>1, <1>2, <1>3, <1>4, DeskStutters DEF ObservationTypes

LEMMA RestartKeepsTypes ==
  ASSUME ObservationTypes, Restart
  PROVE  ObservationTypes'
<1>1. <<>> \in Seq(AgentFrame) /\ <<>> \in Seq(Order) /\ <<>> \in Seq(Path) /\ <<>> \in Seq(Report)
  OBVIOUS
<1>2. StoreTypes'
  <2>1. OnePerAgent(<<>>)
    BY DEF OnePerAgent
  <2>2. OnePerAgent(paths') /\ OnePerAgent(observations')
    BY <2>1 DEF Restart
  <2> QED BY <1>1, <2>2 DEF Restart, ObservationTypes, StoreTypes
<1>3. LineTypes' /\ LinesOfUp'
  BY <1>1 DEF Restart, ObservationTypes, LineTypes, LinesOfUp
<1>4. CommandTypes'
  BY HappensIsCounted DEF Restart, ObservationTypes, CommandTypes
<1>5. DeskInv'
  BY DeskStutters DEF Restart, ObservationTypes
<1> QED BY <1>2, <1>3, <1>4, <1>5 DEF ObservationTypes

LEMMA TouchedKeepsTypes ==
  ASSUME ObservationTypes, Touched
  PROVE  ObservationTypes'
<1>1. Happens /\ UNCHANGED <<infers, agentSide, online, wire, orders, store, desired, commands>>
  BY DEF Touched
<1>2. LineTypes' /\ LinesOfUp'
  BY <1>1 DEF ObservationTypes, LineTypes, LinesOfUp, agentSide
<1>3. CommandTypes'
  BY <1>1, HappensIsCounted DEF ObservationTypes, CommandTypes
<1> QED BY <1>1, <1>2, <1>3, TouchKeepsDesk, StoreStutters DEF ObservationTypes

LEMMA InitHasTypes == Init => ObservationTypes
<1> SUFFICES ASSUME Init PROVE ObservationTypes
  OBVIOUS
<1>1. <<>> \in Seq(AgentFrame) /\ <<>> \in Seq(Order) /\ <<>> \in Seq(Path) /\ <<>> \in Seq(Report)
  OBVIOUS
<1>2. requiresActiveInput \in BOOLEAN /\ infers \in BOOLEAN /\ activeInput \in Inputs
  BY ObservationAssumption DEF Init
<1>3. DeskInv
  BY <1>2, DeskInvHoldsFirst DEF Init
<1>4. StoreTypes
  BY <1>1 DEF Init, StoreTypes, OnePerAgent
<1>5. LineTypes /\ LinesOfUp
  BY <1>1 DEF Init, LineTypes, LinesOfUp
<1>6. CommandTypes
  BY <1>2, ObservationAssumption DEF Init, CommandTypes
<1> QED BY <1>3, <1>4, <1>5, <1>6 DEF ObservationTypes

LEMMA StepKeepsTypes == ObservationTypes /\ [Next]_vars => ObservationTypes'
<1> SUFFICES ASSUME ObservationTypes, [Next]_vars PROVE ObservationTypes'
  OBVIOUS
<1>1. ASSUME NEW a \in Computers, AgentSteps(a) PROVE ObservationTypes'
  BY <1>1, DialKeepsTypes, ObserveKeepsTypes, LookKeepsTypes, ExecuteKeepsTypes,
     InventoryKeepsTypes, ObservedKeepsTypes, ResultKeepsTypes DEF AgentSteps
<1>2. ASSUME NEW a \in Computers, Leave(a) PROVE ObservationTypes'
  BY <1>2, LeaveKeepsTypes
<1>3. ASSUME NEW job \in jobs, Finish(job) PROVE ObservationTypes'
  BY <1>3, FinishKeepsTypes
<1>4. ASSUME NEW id \in Ids, Timeout(id) PROVE ObservationTypes'
  BY <1>4, TimeoutKeepsTypes
<1>5. ASSUME NEW id \in Ids, NEW c \in Computers \cup Others, SetMonitorSource(id, c)
      PROVE  ObservationTypes'
  BY <1>5, SetMonitorSourceKeepsTypes
<1>6. ASSUME NEW i \in Inputs, NEW c \in Computers \cup Others \cup {None}, SetWiringOverride(i, c)
      PROVE  ObservationTypes'
  BY <1>6, OverrideKeepsTypes
<1>7. CASE Touched \/ Restart
  BY <1>7, TouchedKeepsTypes, RestartKeepsTypes
<1>8. CASE UNCHANGED vars
  <2>1. LineTypes' /\ LinesOfUp'
    BY <1>8 DEF vars, ObservationTypes, LineTypes, LinesOfUp, agentSide
  <2> QED BY <1>8, <2>1, DeskStutters, OthersStutter DEF vars, ObservationTypes
<1> QED BY <1>1, <1>2, <1>3, <1>4, <1>5, <1>6, <1>7, <1>8 DEF Next

(***************************************************************************)
(* The desk keeps its types: one path and one report of each agent, frames *)
(* only under way on connections that are up, agents online only there.    *)
(***************************************************************************)
THEOREM ObservationKeepsTypes == Spec => []TypeOK
<1>1. Spec => []ObservationTypes
  BY InitHasTypes, StepKeepsTypes, PTL DEF Spec
<1> QED BY <1>1, ObservationTypesImplyTypeOK, PTL

(***************************************************************************)
(* MovedOnce: one switch at a time moves the panel, and an id moves it     *)
(* once, whichever agents it was delivered by and whatever faults came in  *)
(* between.                                                                *)
(***************************************************************************)
THEOREM PanelMovesOnce == Spec => []MovedOnce
<1>1. Spec => []ObservationTypes
  BY InitHasTypes, StepKeepsTypes, PTL DEF Spec
<1>2. ObservationTypes => MovedOnce
  BY DeskInvImpliesMovedOnce DEF ObservationTypes
<1> QED BY <1>1, <1>2, PTL

-----------------------------------------------------------------------------
(* What the controller believes *)

(***************************************************************************)
(* The frames agent a may have under way: what it read of the panel, and   *)
(* the cable it named, as far as the panel lets nobody else read it and    *)
(* the cable is not inferred.                                              *)
(***************************************************************************)
Cabled == requiresActiveInput \/ ~infers
HonestFrames(a) ==
  {f \in AgentFrame :
     /\ f.kind \in {"hello", "inventory"} /\ Cabled => f.via \in {None, Cable[a]}
     /\ f.kind \in {"observed", "result"} /\ requiresActiveInput => f.seen \in {None, Cable[a]}}
HonestLines == \A a \in Computers : wire[a] \in Seq(HonestFrames(a))

HonestPaths ==
  {p \in Path : requiresActiveInput => p.needsActive /\ p.input \in {None, Cable[p.agent]}}
OverridesStand == paths # <<>> => \A i \in Inputs : override[i] # None => wiring[i] = override[i]
DiscoveriesAreTrue ==
  \A i \in Inputs : override[i] = None /\ wiring[i] # None /\ Cabled => Cable[wiring[i]] = i

(***************************************************************************)
(* What makes BeliefIsTrue inductive: nobody proves to be independent of   *)
(* the active input with a reading that came over the agent's own cable,   *)
(* so the readings and the inventories under way have to be honest.        *)
(***************************************************************************)
BeliefInv ==
  /\ ObservationTypes
  /\ HonestLines
  /\ paths \in Seq(HonestPaths)
  /\ requiresActiveInput => proven = {}
  /\ OverridesStand
  /\ DiscoveriesAreTrue

LEMMA BeliefInvImpliesBelief == BeliefInv => BeliefIsTrue
<1> SUFFICES ASSUME BeliefInv PROVE ProvenIsTrue /\ WiringIsTrue
  BY DEF BeliefIsTrue
<1>1. ASSUME NEW n \in DOMAIN paths, ~paths[n].needsActive PROVE ~requiresActiveInput
  <2>1. paths[n] \in HonestPaths
    BY ElementOfSeq DEF BeliefInv
  <2> QED BY <1>1, <2>1 DEF HonestPaths
<1>2. ProvenIsTrue
  BY <1>1 DEF BeliefInv, ProvenIsTrue
<1>3. WiringIsTrue
  BY DEF BeliefInv, OverridesStand, DiscoveriesAreTrue, Cabled, WiringIsTrue
<1> QED BY <1>2, <1>3

(* The panel and the agents' providers stay what they are. *)
LEMMA ChosenOnce == [Next]_vars => UNCHANGED <<requiresActiveInput, infers>>
<1> SUFFICES ASSUME [Next]_vars PROVE UNCHANGED <<requiresActiveInput, infers>>
  OBVIOUS
<1>1. ASSUME NEW a \in Computers, AgentSteps(a) PROVE UNCHANGED <<requiresActiveInput, infers>>
  <2>1. CASE Execute(a)
    BY <2>1 DEF Execute, SwitchInput, desk
  <2>2. CASE Dial(a) \/ Observe(a) \/ Look(a)
    BY <2>2 DEF Dial, Observe, Look, desk
  <2>3. CASE HandleInventory(a) \/ HandleObserved(a) \/ HandleResult(a)
    BY <2>3 DEF HandleInventory, HandleObserved, HandleResult, desk
  <2> QED BY <1>1, <2>1, <2>2, <2>3 DEF AgentSteps
<1>2. ASSUME NEW a \in Computers, Leave(a) PROVE UNCHANGED <<requiresActiveInput, infers>>
  BY <1>2 DEF Leave, desk
<1>3. ASSUME NEW job \in jobs, Finish(job) PROVE UNCHANGED <<requiresActiveInput, infers>>
  BY <1>3 DEF Finish, EndSwitch
<1>4. ASSUME NEW id \in Ids, Timeout(id) PROVE UNCHANGED <<requiresActiveInput, infers>>
  BY <1>4 DEF Timeout, desk
<1>5. ASSUME NEW id \in Ids, NEW c \in Computers \cup Others, SetMonitorSource(id, c)
      PROVE  UNCHANGED <<requiresActiveInput, infers>>
  BY <1>5 DEF SetMonitorSource, desk
<1>6. ASSUME NEW i \in Inputs, NEW c \in Computers \cup Others \cup {None}, SetWiringOverride(i, c)
      PROVE  UNCHANGED <<requiresActiveInput, infers>>
  BY <1>6 DEF SetWiringOverride, desk
<1>7. CASE Touched \/ Restart
  BY <1>7 DEF Touched, InjectFault, PressButton, Restart, desk
<1>8. CASE UNCHANGED vars
  BY <1>8 DEF vars, desk
<1> QED BY <1>1, <1>2, <1>3, <1>4, <1>5, <1>6, <1>7, <1>8 DEF Next

LEMMA HonestyStays ==
  ASSUME UNCHANGED <<requiresActiveInput, infers>>
  PROVE  /\ \A a \in Computers : HonestFrames(a)' = HonestFrames(a)
         /\ HonestPaths' = HonestPaths
         /\ Cabled' = Cabled
BY DEF HonestFrames, HonestPaths, Cabled

-----------------------------------------------------------------------------
(* Frames stay honest *)

LEMMA ReadingIsOwnCable ==
  ASSUME NEW a
  PROVE  requiresActiveInput => Reading(a) \in {None, Cable[a]}
BY DEF Reading, CanControl

LEMMA ViaIsOwnCable ==
  ASSUME NEW a
  PROVE  Cabled => Via(a) \in {None, Cable[a]}
BY ReadingIsOwnCable DEF Cabled, Via

LEMMA OwnCableIsHonest ==
  ASSUME NEW a, NEW f \in AgentFrame,
         f.kind \in {"hello", "inventory"} => f.via = Via(a),
         f.kind \in {"observed", "result"} => f.seen = Reading(a)
  PROVE  f \in HonestFrames(a)
<1>1. f.kind \in {"hello", "inventory"} /\ Cabled => f.via \in {None, Cable[a]}
  BY ViaIsOwnCable
<1>2. f.kind \in {"observed", "result"} /\ requiresActiveInput => f.seen \in {None, Cable[a]}
  BY ReadingIsOwnCable
<1> QED BY <1>1, <1>2 DEF HonestFrames

LEMMA SentAreHonest ==
  ASSUME DeskInv, NEW a \in Computers
  PROVE  /\ \A kind \in {"hello", "inventory"} : [kind |-> kind, via |-> Via(a)] \in HonestFrames(a)
         /\ SeenBy(a) \in HonestFrames(a)
         /\ \A id \in Ids, ok \in BOOLEAN : ResultOf(a, id, ok, Reading(a)) \in HonestFrames(a)
<1>1. ASSUME NEW kind \in {"hello", "inventory"}
      PROVE  [kind |-> kind, via |-> Via(a)] \in HonestFrames(a)
  <2>1. [kind |-> kind, via |-> Via(a)] \in AgentFrame
    BY SentAreFrames
  <2> QED BY <2>1, OwnCableIsHonest
<1>2. SeenBy(a) \in HonestFrames(a)
  <2>1. SeenBy(a) \in AgentFrame
    BY SentAreFrames
  <2>2. SeenBy(a).kind = "observed" /\ SeenBy(a).seen = Reading(a)
    BY DEF SeenBy
  <2> QED BY <2>1, <2>2, OwnCableIsHonest
<1>3. ASSUME NEW id \in Ids, NEW ok \in BOOLEAN
      PROVE  ResultOf(a, id, ok, Reading(a)) \in HonestFrames(a)
  <2>1. ResultOf(a, id, ok, Reading(a)) \in AgentFrame
    BY SentAreFrames, ReadingIsInput
  <2>2. /\ ResultOf(a, id, ok, Reading(a)).kind = "result"
        /\ ResultOf(a, id, ok, Reading(a)).seen = Reading(a)
    BY DEF ResultOf
  <2> QED BY <2>1, <2>2, OwnCableIsHonest
<1> QED BY <1>1, <1>2, <1>3

LEMMA SendingKeepsHonesty ==
  ASSUME ObservationTypes, HonestLines, NEW a \in Computers, NEW frames \in Seq(HonestFrames(a))
  PROVE  \A b \in Computers : Sent(a, frames)[b] \in Seq(HonestFrames(b))
<1>1. wire \in [Computers -> Seq(AgentFrame)]
  BY DEF ObservationTypes, LineTypes
<1>2. wire[a] \o frames \in Seq(HonestFrames(a))
  <2>1. wire[a] \in Seq(HonestFrames(a))
    BY DEF HonestLines
  <2> DEFINE Item == HonestFrames(a)
  <2> HIDE DEF Item
  <2>2. ASSUME NEW s \in Seq(Item), NEW t \in Seq(Item) PROVE s \o t \in Seq(Item)
    BY ConcatProperties
  <2> QED BY <2>1, <2>2 DEF Item
<1>3. Sent(a, frames) = [wire EXCEPT ![a] = wire[a] \o frames]
  BY DEF Sent
<1> QED BY <1>1, <1>2, <1>3 DEF HonestLines

LEMMA DeliveringKeepsHonesty ==
  ASSUME ObservationTypes, HonestLines, NEW a \in Computers, NEW kinds, Delivered(a, kinds)
  PROVE  /\ Head(wire[a]) \in HonestFrames(a)
         /\ \A b \in Computers : wire'[b] \in Seq(HonestFrames(b))
<1>1. wire[a] # <<>> /\ wire' = [wire EXCEPT ![a] = Tail(wire[a])]
  BY DEF Delivered
<1>2. wire[a] \in Seq(HonestFrames(a)) /\ wire \in [Computers -> Seq(AgentFrame)]
  BY DEF HonestLines, ObservationTypes, LineTypes
<1>3. Head(wire[a]) \in HonestFrames(a) /\ Tail(wire[a]) \in Seq(HonestFrames(a))
  <2> DEFINE Item == HonestFrames(a)
  <2> HIDE DEF Item
  <2>1. ASSUME NEW s \in Seq(Item), s # <<>> PROVE Head(s) \in Item /\ Tail(s) \in Seq(Item)
    BY <2>1, HeadTailProperties
  <2> QED BY <1>1, <1>2, <2>1 DEF Item
<1> QED BY <1>1, <1>2, <1>3 DEF HonestLines

LEMMA ExecuteKeepsHonesty ==
  ASSUME ObservationTypes, HonestLines, NEW a \in Computers, Execute(a)
  PROVE  \A b \in Computers : wire'[b] \in Seq(HonestFrames(b))
<1> DEFINE order == Head(orders[a])
           known == order.id \in handled[a]
           answer == CASE known -> "ok"
                       [] ~known /\ ~CanControl(a) -> "failed"
                       [] OTHER -> Verdict(order.id, order.input)
           ok == answer = "ok"
           id == order.id
<1>1. wire' = wire \/ wire' = Sent(a, <<ResultOf(a, id, ok, Reading(a))>>)
  BY DEF Execute
<1>2. id \in Ids /\ ok \in BOOLEAN
  <2>1. Ordered(a, "command")
    BY DEF Execute
  <2>2. order \in Order /\ order.kind = "command"
    BY <2>1, OrderedKeepsLines DEF ObservationTypes
  <2> QED BY <2>2, OrderFields
<1> HIDE DEF ok, id
<1>3. ResultOf(a, id, ok, Reading(a)) \in HonestFrames(a)
  BY <1>2, SentAreHonest DEF ObservationTypes
<1>4. <<ResultOf(a, id, ok, Reading(a))>> \in Seq(HonestFrames(a))
  BY <1>3, FramesAreLines
<1> QED BY <1>1, <1>4, SendingKeepsHonesty DEF HonestLines

LEMMA FinishKeepsHonesty ==
  ASSUME ObservationTypes, HonestLines, NEW job \in jobs, Finish(job)
  PROVE  \A b \in Computers : wire'[b] \in Seq(HonestFrames(b))
<1> DEFINE a == job.by
           id == job.id
           ok == ~job.stuck
           seen == Reading(a)'
           f == ResultOf(a, id, ok, seen)
<1>1. EndSwitch(job) /\ (wire' = wire \/ wire' = Sent(a, <<f>>))
  BY DEF Finish
<1>2. DeskInv' /\ job \in DeskJob
  BY <1>1, EndSwitchKeepsDesk DEF ObservationTypes
<1>3. a \in Computers /\ id \in Ids /\ ok \in BOOLEAN
  BY <1>2 DEF DeskJob
<1>4. seen \in Inputs \cup {None}
  BY <1>2 DEF DeskInv, DeskType, Reading
<1>5. requiresActiveInput => seen \in {None, Cable[a]}
  <2>1. requiresActiveInput' = requiresActiveInput
    BY <1>1 DEF EndSwitch
  <2> QED BY <2>1 DEF Reading, CanControl
<1> HIDE DEF a, id, ok, seen
<1>6. f \in AgentFrame
  BY <1>3, <1>4, SentAreFrames DEF ObservationTypes
<1>7. f.kind = "result" /\ f.seen = seen
  BY DEF ResultOf
<1> HIDE DEF f
<1>8. f \in HonestFrames(a)
  <2>1. f.kind \in {"observed", "result"} /\ requiresActiveInput => f.seen \in {None, Cable[a]}
    BY <1>5, <1>7
  <2>2. f.kind \notin {"hello", "inventory"}
    BY <1>7
  <2> QED BY <1>6, <2>1, <2>2 DEF HonestFrames
<1>9. <<f>> \in Seq(HonestFrames(a))
  BY <1>8, FramesAreLines
<1> QED BY <1>1, <1>3, <1>9, SendingKeepsHonesty DEF HonestLines

LEMMA StepKeepsHonesty == ObservationTypes /\ HonestLines /\ [Next]_vars => HonestLines'
<1> SUFFICES ASSUME ObservationTypes, HonestLines, [Next]_vars
             PROVE  \A b \in Computers : wire'[b] \in Seq(HonestFrames(b))
  BY ChosenOnce, HonestyStays DEF HonestLines
<1> DEFINE Goal == \A b \in Computers : wire'[b] \in Seq(HonestFrames(b))
<1>1. ASSUME NEW a \in Computers, Dial(a) PROVE Goal
  <2> DEFINE f == [kind |-> "hello", via |-> Via(a)]
  <2>1. wire' = Sent(a, <<f>>)
    BY <1>1 DEF Dial
  <2>2. f \in HonestFrames(a)
    BY SentAreHonest DEF ObservationTypes
  <2> HIDE DEF f
  <2>3. <<f>> \in Seq(HonestFrames(a))
    BY <2>2, FramesAreLines
  <2> QED BY <2>1, <2>3, SendingKeepsHonesty
<1>2. ASSUME NEW a \in Computers, Observe(a) PROVE Goal
  <2>1. wire' = Sent(a, <<SeenBy(a)>>)
    BY <1>2 DEF Observe
  <2>2. <<SeenBy(a)>> \in Seq(HonestFrames(a))
    BY SentAreHonest, FramesAreLines DEF ObservationTypes
  <2> QED BY <2>1, <2>2, SendingKeepsHonesty
<1>3. ASSUME NEW a \in Computers, Look(a) PROVE Goal
  <2> DEFINE f == [kind |-> "inventory", via |-> Via(a)]
  <2>1. wire' = Sent(a, <<f, SeenBy(a)>>)
    BY <1>3 DEF Look
  <2>2. f \in HonestFrames(a) /\ SeenBy(a) \in HonestFrames(a)
    BY SentAreHonest DEF ObservationTypes
  <2> HIDE DEF f
  <2>3. <<f, SeenBy(a)>> \in Seq(HonestFrames(a))
    BY <2>2, FramesAreLines
  <2> QED BY <2>1, <2>3, SendingKeepsHonesty
<1>4. ASSUME NEW a \in Computers, HandleInventory(a) \/ HandleObserved(a) \/ HandleResult(a) PROVE Goal
  <2>1. PICK kinds : Delivered(a, kinds)
    BY <1>4 DEF HandleInventory, HandleObserved, HandleResult
  <2> QED BY <2>1, DeliveringKeepsHonesty
<1>5. ASSUME NEW a \in Computers, Leave(a) PROVE Goal
  <2>1. wire' = [wire EXCEPT ![a] = <<>>] /\ <<>> \in Seq(HonestFrames(a))
    BY <1>5 DEF Leave
  <2> QED BY <2>1 DEF ObservationTypes, LineTypes, HonestLines
<1>6. CASE Restart
  <2>1. wire' = [a \in Computers |-> <<>>] /\ \A a \in Computers : <<>> \in Seq(HonestFrames(a))
    BY <1>6 DEF Restart
  <2> QED BY <2>1
<1>7. CASE wire' = wire
  BY <1>7 DEF HonestLines
<1>8. ASSUME NEW id \in Ids, Timeout(id) PROVE wire' = wire
  BY <1>8 DEF Timeout
<1>9. ASSUME NEW id \in Ids, NEW c \in Computers \cup Others, SetMonitorSource(id, c) PROVE wire' = wire
  BY <1>9 DEF SetMonitorSource
<1>10. ASSUME NEW i \in Inputs, NEW c \in Computers \cup Others \cup {None}, SetWiringOverride(i, c)
       PROVE  wire' = wire
  BY <1>10 DEF SetWiringOverride
<1>11. CASE Touched \/ UNCHANGED vars
  <2>1. wire' = wire
    BY <1>11 DEF Touched, vars
  <2> QED BY <1>7, <2>1
<1> HIDE DEF Goal
<1>12. Goal
  BY <1>1, <1>2, <1>3, <1>4, <1>5, <1>6, <1>7, <1>8, <1>9, <1>10, <1>11,
     ExecuteKeepsHonesty, FinishKeepsHonesty DEF Next, AgentSteps, Goal
<1> QED BY <1>12 DEF Goal

-----------------------------------------------------------------------------
(* The store believes what is so *)

LEMMA InventoryKeepsBelief ==
  ASSUME BeliefInv, NEW a \in Computers, HandleInventory(a)
  PROVE  /\ paths' \in Seq(HonestPaths)
         /\ requiresActiveInput => proven' = {}
         /\ \A i \in Inputs : override'[i] # None => wiring'[i] = override'[i]
         /\ \A i \in Inputs : override'[i] = None /\ wiring'[i] # None /\ Cabled => Cable[wiring'[i]] = i
<1> DEFINE via == Head(wire[a]).via
           path == NewPath(a, via)
<1>1. Delivered(a, {"hello", "inventory"}) /\ ApplyMonitorReports(a, via)
  BY DEF HandleInventory
<1>2. Head(wire[a]) \in HonestFrames(a) /\ Head(wire[a]).kind \in {"hello", "inventory"}
  BY <1>1, DeliveringKeepsHonesty DEF BeliefInv, Delivered
<1>3. Head(wire[a]) \in AgentFrame /\ (Cabled => via \in {None, Cable[a]})
  BY <1>2 DEF HonestFrames
<1>4. via \in Inputs \cup {None}
  BY <1>2, <1>3, FrameFields
<1> HIDE DEF via
<1>5. path \in HonestPaths /\ path.agent = a
  <2>1. path \in Path /\ path.agent = a /\ path.input = via
    BY <1>4, NewPathIsPath DEF NewPath
  <2>2. requiresActiveInput => path.needsActive
    BY DEF BeliefInv, NewPath, ClaimsActive
  <2> HIDE DEF path
  <2> QED BY <1>3, <2>1, <2>2 DEF HonestPaths, Cabled
<1>6. /\ wiring' = MergeInputs(a, via)
      /\ paths' = Append(Without(paths, path.agent), path)
      /\ UNCHANGED <<override, proven>>
  BY <1>1, <1>5 DEF ApplyMonitorReports, NewPath
<1>7. paths' \in Seq(HonestPaths)
  <2> HIDE DEF path
  <2>1. paths \in Seq(HonestPaths) /\ OnePerAgent(paths)
    BY DEF BeliefInv, ObservationTypes, StoreTypes
  <2> QED BY <1>5, <1>6, <2>1, NewestLast
<1>8. ASSUME NEW i \in Inputs
      PROVE  /\ override[i] # None => wiring'[i] = override[i]
             /\ override[i] = None => wiring'[i] = IF via = i THEN a ELSE wiring[i]
  BY <1>6 DEF MergeInputs
<1>9. ASSUME NEW i \in Inputs, override[i] = None, wiring'[i] # None, Cabled PROVE Cable[wiring'[i]] = i
  <2>1. CASE via = i
    <3>1. Cable[a] = i
      BY <1>3, <1>9, <2>1, DeskAssumption
    <3> QED BY <1>8, <1>9, <2>1, <3>1
  <2>2. CASE via # i
    BY <1>8, <1>9, <2>2 DEF BeliefInv, DiscoveriesAreTrue
  <2> QED BY <2>1, <2>2
<1> QED BY <1>6, <1>7, <1>8, <1>9 DEF BeliefInv

(* A reading proves nothing about a panel that only answers on its active input. *)
LEMMA OwnCableProvesNothing ==
  ASSUME paths \in Seq(HonestPaths), NEW a, NEW seen \in {None, Cable[a]}, requiresActiveInput
  PROVE  ~(seen # None /\ Proves(a, seen))
<1> SUFFICES ASSUME seen # None, NEW n \in DOMAIN paths, paths[n].agent = a,
                    paths[n].input \notin {None, seen}
             PROVE  FALSE
  BY DEF Proves
<1>1. paths[n] \in HonestPaths
  BY ElementOfSeq
<1>2. paths[n].input \in {None, Cable[a]}
  BY <1>1 DEF HonestPaths
<1> QED BY <1>2

LEMMA NotedBelief ==
  ASSUME BeliefInv, NEW a \in Computers, NEW seen \in Inputs \cup {None},
         requiresActiveInput => seen \in {None, Cable[a]}
  PROVE  /\ Noted(a, seen).paths \in Seq(HonestPaths)
         /\ requiresActiveInput => Noted(a, seen).proven = {}
         /\ Noted(a, seen).paths # <<>> => paths # <<>>
<1> DEFINE independent == seen # None /\ Proves(a, seen)
           marked == [n \in DOMAIN paths |->
                        IF independent /\ paths[n].agent = a
                        THEN [paths[n] EXCEPT !.needsActive = FALSE] ELSE paths[n]]
<1>1. /\ Noted(a, seen).paths = marked
      /\ Noted(a, seen).proven = IF independent THEN proven \cup {a} ELSE proven
  BY DEF Noted
<1>2. paths \in Seq(HonestPaths) /\ paths \in Seq(Path)
  BY DEF BeliefInv, ObservationTypes, StoreTypes
<1>3. CASE requiresActiveInput
  <2>1. ~independent
    BY <1>2, <1>3, OwnCableProvesNothing
  <2> HIDE DEF independent
  <2>2. marked = [n \in DOMAIN paths |-> paths[n]]
    BY <2>1
  <2>3. marked = paths
    BY <1>2, <2>2
  <2> HIDE DEF marked
  <2> QED BY <1>1, <1>2, <1>3, <2>1, <2>3 DEF BeliefInv
<1>4. CASE ~requiresActiveInput
  <2>1. marked \in Seq(Path)
    BY <1>1, NotedTypes DEF BeliefInv, ObservationTypes
  <2>2. DOMAIN marked = DOMAIN paths
    OBVIOUS
  <2> HIDE DEF marked
  <2>3. \A p \in Path : p \in HonestPaths
    BY <1>4 DEF HonestPaths
  <2>4. HonestPaths = Path
    BY <2>3 DEF HonestPaths
  <2>5. marked # <<>> => paths # <<>>
    BY <1>2, <2>1, <2>2
  <2> QED BY <1>1, <1>4, <2>1, <2>4, <2>5
<1> QED BY <1>3, <1>4

LEMMA ReadingKeepsBelief ==
  ASSUME BeliefInv, NEW a \in Computers, HandleObserved(a) \/ HandleResult(a)
  PROVE  /\ paths' \in Seq(HonestPaths)
         /\ requiresActiveInput => proven' = {}
         /\ paths' # <<>> => paths # <<>>
         /\ UNCHANGED <<wiring, override>>
<1> DEFINE frame == Head(wire[a])
           seen == frame.seen
<1>1. /\ Delivered(a, {"observed", "result"}) /\ Note(Noted(a, seen))
      /\ UNCHANGED <<wiring, override>>
  BY DEF HandleObserved, HandleResult, Delivered
<1>2. frame \in HonestFrames(a) /\ frame.kind \in {"observed", "result"}
  BY <1>1, DeliveringKeepsHonesty DEF BeliefInv, Delivered
<1>3. frame \in AgentFrame /\ (requiresActiveInput => seen \in {None, Cable[a]})
  BY <1>2 DEF HonestFrames
<1>4. seen \in Inputs \cup {None}
  BY <1>2, <1>3, FrameFields
<1> HIDE DEF seen
<1>5. paths' = Noted(a, seen).paths /\ proven' = Noted(a, seen).proven
  BY <1>1 DEF Note
<1> QED BY <1>1, <1>3, <1>4, <1>5, NotedBelief

LEMMA StoreKeepsBelief ==
  ASSUME BeliefInv, UNCHANGED <<store, requiresActiveInput, infers>>
  PROVE  (paths \in Seq(HonestPaths))' /\ (requiresActiveInput => proven = {})'
           /\ OverridesStand' /\ DiscoveriesAreTrue'
BY HonestyStays DEF BeliefInv, OverridesStand, DiscoveriesAreTrue, store

LEMMA StepKeepsBelief == BeliefInv /\ [Next]_vars => BeliefInv'
<1> SUFFICES ASSUME BeliefInv, [Next]_vars PROVE BeliefInv'
  OBVIOUS
<1>1. ObservationTypes' /\ HonestLines'
  BY StepKeepsTypes, StepKeepsHonesty DEF BeliefInv
<1>2. /\ UNCHANGED <<requiresActiveInput, infers>>
      /\ HonestPaths' = HonestPaths /\ Cabled' = Cabled
  BY ChosenOnce, HonestyStays
<1> DEFINE Goal == /\ (paths \in Seq(HonestPaths))' /\ (requiresActiveInput => proven = {})'
                   /\ OverridesStand' /\ DiscoveriesAreTrue'
<1>3. ASSUME NEW a \in Computers, HandleInventory(a) PROVE Goal
  BY <1>2, <1>3, InventoryKeepsBelief DEF OverridesStand, DiscoveriesAreTrue
<1>4. ASSUME NEW a \in Computers, HandleObserved(a) \/ HandleResult(a) PROVE Goal
  BY <1>2, <1>4, ReadingKeepsBelief DEF BeliefInv, OverridesStand, DiscoveriesAreTrue
<1>5. ASSUME NEW i \in Inputs, NEW c \in Computers \cup Others \cup {None}, SetWiringOverride(i, c)
      PROVE  Goal
  <2>1. /\ override' = [override EXCEPT ![i] = c] /\ wiring' = [wiring EXCEPT ![i] = c]
        /\ paths # <<>> /\ UNCHANGED <<paths, proven>>
    BY <1>5 DEF SetWiringOverride
  <2>2. /\ wiring \in [Inputs -> Computers \cup Others \cup {None}]
        /\ override \in [Inputs -> Computers \cup Others \cup {None}]
    BY DEF BeliefInv, ObservationTypes, StoreTypes
  <2> QED BY <1>2, <2>1, <2>2 DEF BeliefInv, OverridesStand, DiscoveriesAreTrue
<1>6. ASSUME Restart PROVE Goal
  <2>1. paths' = <<>> /\ proven' = {} /\ wiring' = [i \in Inputs |-> None]
    BY <1>6 DEF Restart
  <2>2. <<>> \in Seq(HonestPaths)
    OBVIOUS
  <2>3. OverridesStand' /\ DiscoveriesAreTrue'
    BY <2>1 DEF OverridesStand, DiscoveriesAreTrue
  <2>4. (paths \in Seq(HonestPaths))'
    BY <1>2, <2>1, <2>2
  <2>5. (requiresActiveInput => proven = {})'
    BY <2>1
  <2> QED BY <2>3, <2>4, <2>5
<1>7. ASSUME UNCHANGED store PROVE Goal
  <2>1. UNCHANGED <<store, requiresActiveInput, infers>>
    BY <1>2, <1>7
  <2> HIDE DEF Goal
  <2> QED BY <2>1, StoreKeepsBelief DEF Goal
<1>8. ASSUME NEW a \in Computers, Dial(a) \/ Observe(a) \/ Look(a) \/ Execute(a) \/ Leave(a)
      PROVE  UNCHANGED store
  BY <1>8 DEF Dial, Observe, Look, Execute, Leave
<1>9. ASSUME NEW job \in jobs, Finish(job) PROVE UNCHANGED store
  BY <1>9 DEF Finish
<1>10. ASSUME NEW id \in Ids, Timeout(id) PROVE UNCHANGED store
  BY <1>10 DEF Timeout
<1>11. ASSUME NEW id \in Ids, NEW c \in Computers \cup Others, SetMonitorSource(id, c)
       PROVE  UNCHANGED store
  BY <1>11 DEF SetMonitorSource
<1>12. ASSUME Touched \/ UNCHANGED vars PROVE Goal
  <2>1. UNCHANGED store
    BY <1>12 DEF Touched, vars
  <2> QED BY <1>7, <2>1
<1> HIDE DEF Goal
<1>13. Goal
  <2>1. ASSUME NEW a \in Computers, AgentSteps(a) \/ Leave(a) PROVE Goal
    BY <1>3, <1>4, <1>7, <1>8, <2>1 DEF AgentSteps
  <2>2. ASSUME NEW id \in Ids, Timeout(id) \/ \E c \in Computers \cup Others : SetMonitorSource(id, c)
        PROVE  Goal
    BY <1>7, <1>10, <1>11, <2>2
  <2>3. ASSUME NEW job \in jobs, Finish(job) PROVE Goal
    BY <1>7, <1>9, <2>3
  <2> QED BY <1>5, <1>6, <1>12, <2>1, <2>2, <2>3 DEF Next
<1> QED BY <1>1, <1>13 DEF BeliefInv, Goal

LEMMA InitBelieves == Init => BeliefInv
<1> SUFFICES ASSUME Init PROVE BeliefInv
  OBVIOUS
<1>1. \A a \in Computers : <<>> \in Seq(HonestFrames(a))
  OBVIOUS
<1>2. HonestLines
  BY <1>1 DEF Init, HonestLines
<1>3. paths \in Seq(HonestPaths) /\ paths = <<>> /\ proven = {}
  BY DEF Init
<1>4. \A i \in Inputs : wiring[i] = None
  BY DEF Init
<1> QED BY <1>2, <1>3, <1>4, InitHasTypes DEF BeliefInv, OverridesStand, DiscoveriesAreTrue

(***************************************************************************)
(* BeliefIsTrue: whatever order inventories, readings, switches, faults,   *)
(* overrides and restarts come in, an agent is only taken to be            *)
(* independent of the active input if it is, what the user said of an      *)
(* input stands, and what was discovered of it is its cable.               *)
(***************************************************************************)
THEOREM ControllerBelievesWhatIsSo == Spec => []BeliefIsTrue
<1> QED BY InitBelieves, StepKeepsBelief, BeliefInvImpliesBelief, PTL DEF Spec

-----------------------------------------------------------------------------
(* The pure functions: reconciling, capturing and planning *)

LEMMA HardwareAlwaysWins ==
  ASSUME NEW desire, NEW observed, NEW status,
         observed = None \/ observed.reachability \in {"reachable", "unreachable"}
  PROVE  HardwareWins(desire, observed, status)
BY DEF HardwareWins, Resolve, InFlightStatuses

LEMMA AggregateIsAlwaysStrict == AggregateIsStrict
<1> SUFFICES ASSUME NEW statuses \in SUBSET {"unknown", "in-sync", "switching", "failed", "unreachable",
                                              "drifted"}
             PROVE  /\ (Aggregate(statuses) = "in-sync") = (statuses = {"in-sync"})
                    /\ "failed" \in statuses => Aggregate(statuses) \in {"failed", "switching"}
  BY DEF AggregateIsStrict
<1>1. CASE "switching" \in statuses
  BY <1>1 DEF Aggregate
<1>2. CASE "switching" \notin statuses /\ "failed" \in statuses
  BY <1>2 DEF Aggregate
<1>3. CASE "switching" \notin statuses /\ "failed" \notin statuses /\ "unreachable" \in statuses
  BY <1>3 DEF Aggregate
<1>4. CASE statuses \cap {"switching", "failed", "unreachable"} = {} /\ "drifted" \in statuses
  BY <1>4 DEF Aggregate
<1>5. CASE statuses \cap {"switching", "failed", "unreachable", "drifted"} = {}
  BY <1>5 DEF Aggregate
<1> QED BY <1>1, <1>2, <1>3, <1>4, <1>5

(* findInputForComputer finds an input that leads to the computer, if one does. *)
LEMMA InputForLeadsThere ==
  ASSUME NEW w, NEW c, NEW k \in DOMAIN Ports, w[Ports[k]] = c
  PROVE  InputFor(Ports, w, c) \in Inputs /\ w[InputFor(Ports, w, c)] = c
<1> DEFINE wired == {n \in DOMAIN Ports : w[Ports[n]] = c}
<1>1. wired \subseteq Nat /\ wired # {} /\ wired \subseteq DOMAIN Ports
  BY ObservationAssumption
<1>2. \E n \in wired : \A other \in wired : n <= other
  <2> HIDE DEF wired
  <2> QED BY <1>1, LeastNumber
<1>3. InputFor(Ports, w, c) = Ports[CHOOSE n \in wired : \A other \in wired : n <= other]
  BY <1>1 DEF InputFor
<1>4. \A n \in wired : Ports[n] \in Inputs /\ w[Ports[n]] = c
  BY ObservationAssumption
<1> HIDE DEF wired
<1>5. (CHOOSE n \in wired : \A other \in wired : n <= other) \in wired
  BY <1>2
<1> QED BY <1>3, <1>4, <1>5

(* As many elements as a one-to-one image of them. *)
LEMMA ImageHasAsMany ==
  ASSUME NEW S, IsFiniteSet(S), NEW T, NEW f \in [S -> T],
         \A x, y \in S : f[x] = f[y] => x = y,
         \A t \in T : \E x \in S : f[x] = t
  PROVE  Cardinality(T) = Cardinality(S)
<1>1. f \in Bijection(S, T)
  BY Fun_IsBij
<1>2. ExistsBijection(S, T)
  BY <1>1, Fun_ExistsBij
<1> QED BY <1>2, FS_Bijection

LEMMA SidesAreFinite ==
  ASSUME NEW S \in SUBSET Sides
  PROVE  IsFiniteSet(S) /\ Cardinality(S) \in Nat
<1>1. IsFiniteSet({}) /\ Sides = ({} \cup {"left"}) \cup {"right"}
  BY FS_EmptySet DEF Sides
<1>2. IsFiniteSet(Sides)
  BY <1>1, FS_AddElement
<1> QED BY <1>2, FS_Subset, FS_CardinalityType

Sources == Computers \cup Others \cup {None}

(* The monitors of a desk that a capture takes in. *)
Shown(wirings, live) == {m \in Sides : live[m] # None /\ wirings[m][live[m]] # None}

LEMMA CaptureTakesWhatIsShown ==
  ASSUME NEW wirings \in [Sides -> [Inputs -> Sources]], NEW live \in [Sides -> Inputs \cup {None}]
  PROVE  /\ Capture(Observed(wirings, live)) = [m \in Shown(wirings, live) |-> wirings[m][live[m]]]
         /\ DOMAIN Observed(wirings, live) = Sides
<1> DEFINE observed == Observed(wirings, live)
<1>1. DOMAIN observed = Sides
  BY DEF Observed
<1>2. ASSUME NEW m \in Sides
      PROVE  /\ Capturable(observed[m]) <=> m \in Shown(wirings, live)
             /\ m \in Shown(wirings, live) => observed[m].source = wirings[m][live[m]]
  <2>1. CASE live[m] = None
    <3>1. observed[m] = [reachability |-> "unreachable", source |-> None]
      BY <2>1 DEF Observed
    <3> QED BY <2>1, <3>1 DEF Capturable, Shown
  <2>2. CASE live[m] # None
    <3>1. observed[m] = [reachability |-> "reachable", source |-> wirings[m][live[m]]]
      BY <2>2 DEF Observed
    <3>2. wirings[m][live[m]] \in Sources
      BY <2>2
    <3>3. observed[m] \in [reachability : {"reachable", "unreachable"},
                           source : Computers \cup Others \cup {None}]
      BY <3>1, <3>2 DEF Sources
    <3>4. observed[m] # None
      BY <3>3, ObservationAssumption
    <3> QED BY <2>2, <3>1, <3>4 DEF Capturable, Shown
  <2> QED BY <2>1, <2>2
<1>3. {m \in DOMAIN observed : Capturable(observed[m])} = Shown(wirings, live)
  BY <1>1, <1>2 DEF Shown
<1>4. Capture(observed) = [m \in Shown(wirings, live) |-> observed[m].source]
  BY <1>3 DEF Capture
<1>5. \A m \in Shown(wirings, live) : observed[m].source = wirings[m][live[m]]
  BY <1>2 DEF Shown
<1> HIDE DEF observed
<1> QED BY <1>1, <1>4, <1>5 DEF observed

(***************************************************************************)
(* A preset captured on a desk and planned on it asks for what was seen,   *)
(* and carried out gives the same preset again: for every wiring.          *)
(***************************************************************************)
LEMMA CapturedPresetsComeBack ==
  ASSUME NEW wirings \in [Sides -> [Inputs -> Sources]], NEW live \in [Sides -> Inputs \cup {None}]
  PROVE  LET observed == Observed(wirings, live)
             preset   == Capture(observed)
             monitors == [m \in Sides |-> [inputs |-> Ports, wiring |-> wirings[m]]]
             plan     == Plan(preset, monitors, <<>>)
             after    == [m \in Sides |-> LET for == {i \in plan.intents : i.target = m}
                                          IN  IF for = {} THEN live[m] ELSE (CHOOSE i \in for : TRUE).input]
         IN  /\ {i.target : i \in plan.intents} = DOMAIN preset
             /\ Cardinality(plan.intents) = Cardinality(DOMAIN preset)
             /\ \A i \in plan.intents : wirings[i.target][i.input] = preset[i.target]
             /\ {s.target : s \in CaptureSkips(observed)} = Sides \ DOMAIN preset
             /\ Capture(Observed(wirings, after)) = preset
<1> DEFINE observed == Observed(wirings, live)
           preset   == Capture(observed)
           monitors == [m \in Sides |-> [inputs |-> Ports, wiring |-> wirings[m]]]
           plan     == Plan(preset, monitors, <<>>)
           for(m)   == {i \in plan.intents : i.target = m}
           after    == [m \in Sides |-> IF for(m) = {} THEN live[m] ELSE (CHOOSE i \in for(m) : TRUE).input]
           D        == Shown(wirings, live)
           Source(m) == wirings[m][live[m]]
           In(m)     == InputFor(Ports, wirings[m], Source(m))
           Intent(m) == [target |-> m, computer |-> Source(m), input |-> In(m)]
<1>1. preset = [m \in D |-> Source(m)] /\ DOMAIN observed = Sides
  BY CaptureTakesWhatIsShown
<1>2. D \subseteq Sides
  BY DEF Shown
<1>3. ASSUME NEW m \in D
      PROVE  In(m) \in Inputs /\ In(m) # None /\ wirings[m][In(m)] = Source(m) /\ Source(m) # None
  <2>1. live[m] \in Inputs /\ Source(m) # None
    BY DEF Shown
  <2>2. PICK k \in DOMAIN Ports : Ports[k] = live[m]
    BY <2>1, ObservationAssumption DEF Range
  <2>3. wirings[m][Ports[k]] = Source(m)
    BY <2>2
  <2>4. In(m) \in Inputs /\ wirings[m][In(m)] = Source(m)
    <3> DEFINE w == wirings[m]
               c == Source(m)
    <3>1. w[Ports[k]] = c
      BY <2>3
    <3> HIDE DEF w, c
    <3>2. InputFor(Ports, w, c) \in Inputs /\ w[InputFor(Ports, w, c)] = c
      BY <3>1, InputForLeadsThere
    <3> QED BY <3>2 DEF w, c
  <2> QED BY <2>1, <2>4, DeskAssumption
<1>4. ASSUME NEW m \in D
      PROVE  /\ SkipReason(m, preset[m], monitors, <<>>) = None
             /\ InputFor(monitors[m].inputs, monitors[m].wiring, preset[m]) = In(m)
  <2>1. m \in DOMAIN monitors /\ monitors[m].inputs = Ports /\ monitors[m].wiring = wirings[m]
    BY <1>2
  <2>2. preset[m] = Source(m)
    BY <1>1
  <2>3. InputFor(monitors[m].inputs, monitors[m].wiring, preset[m]) = In(m)
    BY <2>1, <2>2
  <2>4. m \notin DOMAIN <<>>
    OBVIOUS
  <2> HIDE DEF In, monitors, preset
  <2> QED BY <1>3, <2>1, <2>3, <2>4 DEF SkipReason
<1>5. plan.intents = {Intent(m) : m \in D}
  <2>1. DOMAIN preset = D
    BY <1>1
  <2>2. {m \in DOMAIN preset : SkipReason(m, preset[m], monitors, <<>>) = None} = D
    BY <1>4, <2>1
  <2>3. plan.intents = {[target |-> m, computer |-> preset[m],
                         input |-> InputFor(monitors[m].inputs, monitors[m].wiring, preset[m])] :
                           m \in {m \in DOMAIN preset : SkipReason(m, preset[m], monitors, <<>>) = None}}
    BY DEF Plan
  <2>4. \A m \in D : preset[m] = Source(m)
    BY <1>1
  <2> HIDE DEF plan, preset, monitors, In, Source
  <2> QED BY <1>4, <2>2, <2>3, <2>4
<1>6. DOMAIN preset = D /\ \A m \in D : preset[m] = Source(m)
  BY <1>1
<1>7. {i.target : i \in plan.intents} = DOMAIN preset
  <2>1. \A m \in D : Intent(m).target = m
    OBVIOUS
  <2> HIDE DEF plan, preset, Intent, D
  <2>2. {i.target : i \in plan.intents} \subseteq D
    BY <1>5, <2>1
  <2>3. ASSUME NEW m \in D PROVE m \in {i.target : i \in plan.intents}
    <3>1. Intent(m) \in plan.intents
      BY <1>5
    <3> QED BY <2>1, <3>1
  <2> QED BY <1>6, <2>2, <2>3
<1>8. Cardinality(plan.intents) = Cardinality(DOMAIN preset)
  <2> DEFINE image == [m \in D |-> Intent(m)]
             T == {Intent(m) : m \in D}
  <2>1. image \in [D -> T] /\ \A t \in T : \E m \in D : image[m] = t
    OBVIOUS
  <2>2. \A m, n \in D : image[m] = image[n] => m = n
    <3> HIDE DEF In, Source
    <3> QED OBVIOUS
  <2>3. IsFiniteSet(D)
    BY <1>2, SidesAreFinite
  <2> HIDE DEF image, T, D
  <2>4. Cardinality(T) = Cardinality(D)
    BY <2>1, <2>2, <2>3, ImageHasAsMany
  <2> HIDE DEF plan, preset
  <2> QED BY <1>5, <1>6, <2>4 DEF T
<1>9. \A i \in plan.intents : wirings[i.target][i.input] = preset[i.target]
  <2> HIDE DEF plan, preset, In, Source
  <2> QED BY <1>3, <1>5, <1>6
<1>10. {s.target : s \in CaptureSkips(observed)} = Sides \ DOMAIN preset
  <2> DEFINE R == DOMAIN observed \ DOMAIN Capture(observed)
             Skip(m) == [target |-> m,
                         reason |-> IF observed[m] # None /\ observed[m].reachability = "unreachable"
                                    THEN "unreachable" ELSE "not-observed"]
  <2>1. CaptureSkips(observed) = {Skip(m) : m \in R}
    <3> HIDE DEF observed
    <3> QED BY DEF CaptureSkips
  <2>2. \A m \in R : Skip(m).target = m
    OBVIOUS
  <2>3. R = Sides \ DOMAIN preset
    BY <1>1
  <2> HIDE DEF observed, preset, R, Skip
  <2>4. {s.target : s \in CaptureSkips(observed)} \subseteq R
    BY <2>1, <2>2
  <2>5. ASSUME NEW m \in R PROVE m \in {s.target : s \in CaptureSkips(observed)}
    <3>1. Skip(m) \in CaptureSkips(observed)
      BY <2>1
    <3> QED BY <2>2, <3>1
  <2> QED BY <2>3, <2>4, <2>5
<1>11. ASSUME NEW m \in Sides
       PROVE  after[m] = IF m \in D THEN In(m) ELSE live[m]
  <2>1. CASE m \in D
    <3>1. for(m) = {Intent(m)}
      <4> HIDE DEF plan, In, Source
      <4> QED BY <1>5, <2>1
    <3>2. (CHOOSE i \in for(m) : TRUE) = Intent(m)
      <4> HIDE DEF for, Intent
      <4> QED BY <3>1
    <3>3. after[m] = Intent(m).input
      <4> HIDE DEF for, Intent
      <4> QED BY <3>1, <3>2
    <3> HIDE DEF after, In, Source
    <3> QED BY <2>1, <3>3
  <2>2. CASE m \notin D
    <3>1. for(m) = {}
      <4> HIDE DEF plan, In, Source
      <4> QED BY <1>5, <2>2
    <3> HIDE DEF for
    <3> QED BY <2>2, <3>1
  <2> QED BY <2>1, <2>2
<1>12. Capture(Observed(wirings, after)) = preset
  <2>1. after \in [Sides -> Inputs \cup {None}]
    <3>1. \A m \in Sides : after[m] \in Inputs \cup {None}
      <4> HIDE DEF after, In
      <4> QED BY <1>3, <1>11
    <3>2. after = [m \in Sides |-> after[m]]
      OBVIOUS
    <3> HIDE DEF after
    <3> QED BY <3>1, <3>2
  <2>2. Capture(Observed(wirings, after)) = [m \in Shown(wirings, after) |-> wirings[m][after[m]]]
    <3> HIDE DEF after
    <3> QED BY <2>1, CaptureTakesWhatIsShown
  <2>3. ASSUME NEW m \in D PROVE after[m] # None /\ wirings[m][after[m]] = Source(m) /\ Source(m) # None
    <3>1. after[m] = In(m)
      BY <1>2, <1>11
    <3> HIDE DEF after, In, Source
    <3> QED BY <1>3, <3>1
  <2>4. ASSUME NEW m \in Sides \ D PROVE ~(after[m] # None /\ wirings[m][after[m]] # None)
    <3>1. after[m] = live[m]
      BY <1>11
    <3> HIDE DEF after
    <3> QED BY <3>1 DEF Shown
  <2>5. Shown(wirings, after) = D
    <3> HIDE DEF after, D, Source
    <3> QED BY <1>2, <2>3, <2>4 DEF Shown
  <2>6. \A m \in D : wirings[m][after[m]] = Source(m)
    BY <2>3
  <2> HIDE DEF after, preset, Source
  <2> QED BY <1>1, <2>2, <2>5, <2>6
<1> QED BY <1>7, <1>8, <1>9, <1>10, <1>12

(* As many records of a kind as there are targets they are made for. *)
LEMMA OneRecordEach ==
  ASSUME NEW S, IsFiniteSet(S), NEW record, record = [m \in S |-> record[m]],
         \A m \in S : record[m].target = m
  PROVE  /\ {r.target : r \in {record[m] : m \in S}} = S
         /\ Cardinality({record[m] : m \in S}) = Cardinality(S)
<1> DEFINE T == {record[m] : m \in S}
<1>1. record \in [S -> T] /\ \A t \in T : \E m \in S : record[m] = t
  OBVIOUS
<1>2. \A m, n \in S : record[m] = record[n] => m = n
  OBVIOUS
<1>3. {r.target : r \in T} \subseteq S
  OBVIOUS
<1>4. ASSUME NEW m \in S PROVE m \in {r.target : r \in T}
  <2>1. record[m] \in T /\ record[m].target = m
    OBVIOUS
  <2> HIDE DEF T
  <2> QED BY <2>1
<1> HIDE DEF T
<1>5. Cardinality(T) = Cardinality(S)
  BY <1>1, <1>2, ImageHasAsMany
<1>6. {r.target : r \in T} = S
  BY <1>3, <1>4
<1> QED BY <1>5, <1>6 DEF T

(* A plan has each assignment once, and asks only for what is to be asked for. *)
LosesNothing(assignment, monitors, asked, plan) ==
  /\ {i.target : i \in plan.intents} \cup {s.target : s \in plan.skipped} = DOMAIN assignment
  /\ Cardinality(plan.intents) + Cardinality(plan.skipped) = Cardinality(DOMAIN assignment)
  /\ \A i \in plan.intents :
       /\ i.target \in DOMAIN assignment /\ i.target \in DOMAIN monitors
       /\ i.computer = assignment[i.target] /\ i.input # None
       /\ i.target \notin DOMAIN asked \/ i.computer # asked[i.target]

(***************************************************************************)
(* planPreset makes one intent or one skip of every assignment, for any    *)
(* assignment, any known monitors and anything already asked for; what it  *)
(* asks for has an input and was not asked for already.                    *)
(***************************************************************************)
LEMMA PlanLosesNothing ==
  ASSUME NEW assignment, NEW monitors, NEW asked, IsFiniteSet(DOMAIN assignment)
  PROVE  LosesNothing(assignment, monitors, asked, Plan(assignment, monitors, asked))
<1> DEFINE plan == Plan(assignment, monitors, asked)
           D    == DOMAIN assignment
           Reason(m) == SkipReason(m, assignment[m], monitors, asked)
           In(m) == InputFor(monitors[m].inputs, monitors[m].wiring, assignment[m])
           Asked == {m \in D : Reason(m) = None}
           Left  == {m \in D : Reason(m) # None}
           intent == [m \in Asked |-> [target |-> m, computer |-> assignment[m], input |-> In(m)]]
           skip   == [m \in Left |-> [target |-> m, computer |-> assignment[m], reason |-> Reason(m)]]
<1>1. plan.intents = {[target |-> m, computer |-> assignment[m], input |-> In(m)] : m \in Asked}
  <2> HIDE DEF Reason, In
  <2> QED BY DEF Plan, Reason, In
<1>2. plan.skipped = {[target |-> m, computer |-> assignment[m], reason |-> Reason(m)] : m \in Left}
  <2> HIDE DEF Reason, In
  <2> QED BY DEF Plan, Reason, In
<1>3. plan.intents = {intent[m] : m \in Asked} /\ plan.skipped = {skip[m] : m \in Left}
  <2> HIDE DEF plan, Reason, In, Asked, Left
  <2> QED BY <1>1, <1>2
<1>4. /\ intent = [m \in Asked |-> intent[m]] /\ \A m \in Asked : intent[m].target = m
      /\ skip = [m \in Left |-> skip[m]] /\ \A m \in Left : skip[m].target = m
  <2> HIDE DEF plan, Reason, In, Asked, Left
  <2> QED OBVIOUS
<1>5. Asked \cup Left = D /\ Asked \cap Left = {}
  <2> HIDE DEF Reason
  <2> QED OBVIOUS
<1>6. IsFiniteSet(Asked) /\ IsFiniteSet(Left) /\ Cardinality(D) = Cardinality(Asked) + Cardinality(Left)
  <2> HIDE DEF Asked, Left
  <2>1. IsFiniteSet(Asked) /\ IsFiniteSet(Left)
    BY <1>5, FS_Subset
  <2>2. Cardinality(Asked \cup Left) =
          Cardinality(Asked) + Cardinality(Left) - Cardinality(Asked \cap Left)
    BY <2>1, FS_Union
  <2>3. Cardinality({}) = 0 /\ Cardinality(Asked) \in Nat /\ Cardinality(Left) \in Nat
    BY <2>1, FS_EmptySet, FS_CardinalityType
  <2> HIDE DEF D
  <2>4. Cardinality(D) = Cardinality(Asked \cup Left) /\ Cardinality(Asked \cap Left) = 0
    BY <1>5, <2>3
  <2> QED BY <2>1, <2>2, <2>3, <2>4
<1>7. {r.target : r \in plan.intents} = Asked /\ Cardinality(plan.intents) = Cardinality(Asked)
  <2> HIDE DEF plan, Asked, intent
  <2> QED BY <1>3, <1>4, <1>6, OneRecordEach
<1>8. {r.target : r \in plan.skipped} = Left /\ Cardinality(plan.skipped) = Cardinality(Left)
  <2> HIDE DEF plan, Left, skip
  <2> QED BY <1>3, <1>4, <1>6, OneRecordEach
<1>9. ASSUME NEW m \in Asked
      PROVE  m \in DOMAIN monitors /\ In(m) # None /\ (m \notin DOMAIN asked \/ assignment[m] # asked[m])
  <2>1. SkipReason(m, assignment[m], monitors, asked) = None
    OBVIOUS
  <2> HIDE DEF Asked
  <2> QED BY <2>1, ObservationAssumption DEF SkipReason
<1>10. ASSUME NEW i \in plan.intents
       PROVE  /\ i.target \in D /\ i.target \in DOMAIN monitors
              /\ i.computer = assignment[i.target] /\ i.input # None
              /\ i.target \notin DOMAIN asked \/ i.computer # asked[i.target]
  <2>1. PICK m \in Asked : i = [target |-> m, computer |-> assignment[m], input |-> In(m)]
    <3> HIDE DEF plan, Asked, In
    <3> QED BY <1>1
  <2>2. i.target = m /\ i.computer = assignment[m] /\ i.input = In(m)
    <3> HIDE DEF plan, Asked, In
    <3> QED BY <2>1
  <2>3. m \in D
    BY <1>5
  <2> HIDE DEF plan, Asked, In
  <2> QED BY <1>9, <2>2, <2>3
<1> HIDE DEF plan, Asked, Left, intent, skip
<1>11. /\ {i.target : i \in plan.intents} \cup {s.target : s \in plan.skipped} = D
       /\ Cardinality(plan.intents) + Cardinality(plan.skipped) = Cardinality(D)
  BY <1>5, <1>6, <1>7, <1>8
<1>12. LosesNothing(assignment, monitors, asked, plan)
  BY <1>10, <1>11 DEF LosesNothing
<1> QED BY <1>12 DEF plan

LEMMA PlansAreAlwaysFaithful ==
  ASSUME NEW wirings \in [Sides -> [Inputs -> Sources]]
  PROVE  PlansAreFaithful(Ports, wirings)
<1> SUFFICES ASSUME NEW live \in [Sides -> {Ports[n] : n \in DOMAIN Ports} \cup {None}],
                    NEW asked \in [{"left"} -> {wirings["left"][Ports[1]]}]
             PROVE  LET observed == Observed(wirings, live)
                        preset   == Capture(observed)
                        monitors == [m \in Sides |-> [inputs |-> Ports, wiring |-> wirings[m]]]
                        plan     == Plan(preset, monitors, <<>>)
                        after    == [m \in Sides |-> LET for == {i \in plan.intents : i.target = m}
                                                     IN  IF for = {} THEN live[m]
                                                         ELSE (CHOOSE i \in for : TRUE).input]
                        fewer    == Plan(preset, [m \in {"left"} |-> monitors["right"]], asked)
                    IN  /\ {i.target : i \in plan.intents} = DOMAIN preset
                        /\ Cardinality(plan.intents) = Cardinality(DOMAIN preset)
                        /\ \A i \in plan.intents : wirings[i.target][i.input] = preset[i.target]
                        /\ {s.target : s \in CaptureSkips(observed)} = Sides \ DOMAIN preset
                        /\ Capture(Observed(wirings, after)) = preset
                        /\ {i.target : i \in fewer.intents} \cup {s.target : s \in fewer.skipped} = DOMAIN preset
                        /\ Cardinality(fewer.intents) + Cardinality(fewer.skipped) = Cardinality(DOMAIN preset)
                        /\ \A i \in fewer.intents : i.input # None /\ i.computer # asked["left"]
  BY DEF PlansAreFaithful
<1> DEFINE preset == Capture(Observed(wirings, live))
           known  == [m \in {"left"} |-> [m2 \in Sides |-> [inputs |-> Ports, wiring |-> wirings[m2]]]["right"]]
           fewer  == Plan(preset, known, asked)
<1>1. live \in [Sides -> Inputs \cup {None}]
  <2>1. {Ports[n] : n \in DOMAIN Ports} = Inputs
    BY ObservationAssumption DEF Range
  <2> QED BY <2>1
<1>2. IsFiniteSet(DOMAIN preset)
  <2>1. DOMAIN preset \subseteq Sides
    <3>1. preset = [m \in Shown(wirings, live) |-> wirings[m][live[m]]]
      BY <1>1, CaptureTakesWhatIsShown
    <3> HIDE DEF preset
    <3> QED BY <3>1 DEF Shown
  <2> HIDE DEF preset
  <2> QED BY <2>1, SidesAreFinite
<1>3. /\ {i.target : i \in fewer.intents} \cup {s.target : s \in fewer.skipped} = DOMAIN preset
      /\ Cardinality(fewer.intents) + Cardinality(fewer.skipped) = Cardinality(DOMAIN preset)
      /\ \A i \in fewer.intents :
           /\ i.target \in DOMAIN known /\ i.input # None
           /\ i.target \notin DOMAIN asked \/ i.computer # asked[i.target]
  <2> HIDE DEF preset, known
  <2>1. LosesNothing(preset, known, asked, fewer)
    BY <1>2, PlanLosesNothing
  <2> HIDE DEF fewer
  <2> QED BY <2>1 DEF LosesNothing
<1>4. \A i \in fewer.intents : i.input # None /\ i.computer # asked["left"]
  <2>1. DOMAIN known = {"left"} /\ DOMAIN asked = {"left"}
    OBVIOUS
  <2> HIDE DEF fewer, known
  <2> QED BY <1>3, <2>1
<1> HIDE DEF fewer
<1> QED BY <1>1, <1>3, <1>4, CapturedPresetsComeBack DEF fewer

(***************************************************************************)
(* DomainIsSound: on whatever the controller comes to believe, the status  *)
(* it reports obeys "hardware wins", a preset in sync has every target in  *)
(* sync, and presets captured and planned with its wiring lose nothing.    *)
(***************************************************************************)
THEOREM DomainIsAlwaysSound == Spec => []DomainIsSound
<1>1. TypeOK => DomainIsSound
  <2> SUFFICES ASSUME TypeOK PROVE DomainIsSound
    OBVIOUS
  <2>1. ObservedState = None \/ ObservedState.reachability \in {"reachable", "unreachable"}
    BY DEF ObservedState
  <2>2. HardwareWins(IF desired = None THEN None ELSE desired.computer, ObservedState,
                     IF desired = None THEN None ELSE commands[desired.command].status)
    <3> HIDE DEF ObservedState
    <3> QED BY <2>1, HardwareAlwaysWins
  <2>3. AsCabled \in [Inputs -> Sources]
    BY DEF AsCabled, Sources
  <2>4. wiring \in [Inputs -> Sources]
    BY DEF TypeOK, Sources
  <2>5. wiring \in FaithfulWirings
    <3>1. [left |-> wiring, right |-> AsCabled] \in [Sides -> [Inputs -> Sources]]
      BY <2>3, <2>4 DEF Sides
    <3>2. PlansAreFaithful(Ports, [left |-> wiring, right |-> AsCabled])
      BY <3>1, PlansAreAlwaysFaithful
    <3> QED BY <2>4, <3>2 DEF FaithfulWirings, Sources
  <2> QED BY <2>2, <2>5, AggregateIsAlwaysStrict DEF DomainIsSound
<1> QED BY <1>1, ObservationKeepsTypes, PTL

-----------------------------------------------------------------------------
(* A desk that is seen stays seen *)

(***************************************************************************)
(* What is under way from an agent, and what the store keeps of it, tells  *)
(* what it reads of the panel now.                                         *)
(***************************************************************************)
CurrentFrames(a) == {f \in AgentFrame : f.kind \in {"observed", "result"} => f.seen = Reading(a)}
CurrentReports(a) == {r \in Report : r.agent = a => r.seen = Reading(a)}
Fresh(a) == wire[a] \in Seq(CurrentFrames(a)) /\ observations \in Seq(CurrentReports(a))

(***************************************************************************)
(* An agent that is fresh stays so until what it reads changes: no result  *)
(* of an older switch, no other agent's report, no loss, restart or        *)
(* override puts an old reading in the place of a current one.             *)
(***************************************************************************)
FreshStays == [][\A a \in Computers : Fresh(a) /\ UNCHANGED Reading(a) => Fresh(a)']_vars

(* Whatever may be sent, as the frames F allows each agent. *)
SendsOnly(F) ==
  \A a \in Computers :
    /\ \A kind \in {"hello", "inventory"} : [kind |-> kind, via |-> Via(a)] \in F[a]
    /\ SeenBy(a) \in F[a]
    /\ \A id \in Ids, ok \in BOOLEAN : /\ ResultOf(a, id, ok, Reading(a)) \in F[a]
                                       /\ ResultOf(a, id, ok, Reading(a)') \in F[a]

(* Lines with some frames behind one of them, or with the first of one taken. *)
LEMMA SendingStays ==
  ASSUME LineTypes, NEW F \in [Computers -> SUBSET AgentFrame],
         \A b \in Computers : wire[b] \in Seq(F[b]),
         NEW a \in Computers, NEW frames \in Seq(F[a])
  PROVE  \A b \in Computers : Sent(a, frames)[b] \in Seq(F[b])
<1>1. wire[a] \o frames \in Seq(F[a])
  <2> DEFINE Item == F[a]
  <2> HIDE DEF Item
  <2>1. ASSUME NEW s \in Seq(Item), NEW t \in Seq(Item) PROVE s \o t \in Seq(Item)
    BY ConcatProperties
  <2> QED BY <2>1 DEF Item
<1>2. Sent(a, frames) = [wire EXCEPT ![a] = wire[a] \o frames]
  BY DEF Sent
<1> QED BY <1>1, <1>2 DEF LineTypes

LEMMA DeliveringStays ==
  ASSUME LineTypes, NEW F \in [Computers -> SUBSET AgentFrame],
         \A b \in Computers : wire[b] \in Seq(F[b]),
         NEW a \in Computers, NEW kinds, Delivered(a, kinds)
  PROVE  Head(wire[a]) \in F[a] /\ \A b \in Computers : wire'[b] \in Seq(F[b])
<1>1. wire[a] # <<>> /\ wire' = [wire EXCEPT ![a] = Tail(wire[a])]
  BY DEF Delivered
<1>2. Head(wire[a]) \in F[a] /\ Tail(wire[a]) \in Seq(F[a])
  <2> DEFINE Item == F[a]
  <2> HIDE DEF Item
  <2>1. ASSUME NEW s \in Seq(Item), s # <<>> PROVE Head(s) \in Item /\ Tail(s) \in Seq(Item)
    BY <2>1, HeadTailProperties
  <2> QED BY <1>1, <2>1 DEF Item
<1> QED BY <1>1, <1>2 DEF LineTypes

(* Lines that hold only what may be sent go on doing so. *)
LEMMA LinesStay ==
  ASSUME ObservationTypes, [Next]_vars, NEW F \in [Computers -> SUBSET AgentFrame], SendsOnly(F),
         \A b \in Computers : wire[b] \in Seq(F[b])
  PROVE  \A b \in Computers : wire'[b] \in Seq(F[b])
<1> DEFINE Goal == \A b \in Computers : wire'[b] \in Seq(F[b])
<1>0. LineTypes
  BY DEF ObservationTypes
<1>1. ASSUME NEW a \in Computers, NEW f \in F[a], wire' = Sent(a, <<f>>) PROVE Goal
  <2>1. <<f>> \in Seq(F[a])
    BY FramesAreLines
  <2> QED BY <1>0, <1>1, <2>1, SendingStays
<1>2. ASSUME NEW a \in Computers, Dial(a) \/ Observe(a) PROVE Goal
  <2>1. /\ Dial(a) => wire' = Sent(a, <<[kind |-> "hello", via |-> Via(a)]>>)
        /\ Observe(a) => wire' = Sent(a, <<SeenBy(a)>>)
    BY DEF Dial, Observe
  <2>2. [kind |-> "hello", via |-> Via(a)] \in F[a] /\ SeenBy(a) \in F[a]
    BY DEF SendsOnly
  <2> QED BY <1>1, <1>2, <2>1, <2>2
<1>3. ASSUME NEW a \in Computers, Look(a) PROVE Goal
  <2> DEFINE f == [kind |-> "inventory", via |-> Via(a)]
  <2>1. wire' = Sent(a, <<f, SeenBy(a)>>)
    BY <1>3 DEF Look
  <2>2. f \in F[a] /\ SeenBy(a) \in F[a]
    BY DEF SendsOnly
  <2> HIDE DEF f
  <2>3. <<f, SeenBy(a)>> \in Seq(F[a])
    BY <2>2, FramesAreLines
  <2> QED BY <1>0, <2>1, <2>3, SendingStays
<1>4. ASSUME NEW a \in Computers, Execute(a) PROVE Goal
  <2> DEFINE order == Head(orders[a])
             known == order.id \in handled[a]
             answer == CASE known -> "ok"
                         [] ~known /\ ~CanControl(a) -> "failed"
                         [] OTHER -> Verdict(order.id, order.input)
             ok == answer = "ok"
             id == order.id
  <2>1. wire' = wire \/ wire' = Sent(a, <<ResultOf(a, id, ok, Reading(a))>>)
    BY <1>4 DEF Execute
  <2>2. id \in Ids /\ ok \in BOOLEAN
    <3>1. Ordered(a, "command")
      BY <1>4 DEF Execute
    <3>2. order \in Order /\ order.kind = "command"
      BY <3>1, OrderedKeepsLines DEF ObservationTypes
    <3> QED BY <3>2, OrderFields
  <2> HIDE DEF ok, id
  <2>3. ResultOf(a, id, ok, Reading(a)) \in F[a]
    BY <2>2 DEF SendsOnly
  <2> QED BY <1>1, <2>1, <2>3
<1>5. ASSUME NEW job \in jobs, Finish(job) PROVE Goal
  <2> DEFINE a == job.by
             id == job.id
             ok == ~job.stuck
             f == ResultOf(a, id, ok, Reading(a)')
  <2>1. EndSwitch(job) /\ (wire' = wire \/ wire' = Sent(a, <<f>>))
    BY <1>5 DEF Finish
  <2>2. job \in DeskJob
    BY <2>1, EndSwitchKeepsDesk DEF ObservationTypes
  <2>3. a \in Computers /\ id \in Ids /\ ok \in BOOLEAN
    BY <2>2 DEF DeskJob
  <2> HIDE DEF a, id, ok
  <2>4. f \in F[a]
    BY <2>3 DEF SendsOnly
  <2> HIDE DEF f
  <2> QED BY <1>1, <2>1, <2>3, <2>4
<1>6. ASSUME NEW a \in Computers, HandleInventory(a) \/ HandleObserved(a) \/ HandleResult(a) PROVE Goal
  <2>1. PICK kinds : Delivered(a, kinds)
    BY <1>6 DEF HandleInventory, HandleObserved, HandleResult
  <2> QED BY <1>0, <2>1, DeliveringStays
<1>7. ASSUME NEW a \in Computers, Leave(a) PROVE Goal
  <2>1. wire' = [wire EXCEPT ![a] = <<>>] /\ <<>> \in Seq(F[a])
    BY <1>7 DEF Leave
  <2> QED BY <1>0, <2>1 DEF LineTypes
<1>8. ASSUME Restart PROVE Goal
  <2>1. wire' = [a \in Computers |-> <<>>] /\ \A a \in Computers : <<>> \in Seq(F[a])
    BY <1>8 DEF Restart
  <2> QED BY <2>1
<1>9. ASSUME NEW id \in Ids, Timeout(id) \/ \E c \in Computers \cup Others : SetMonitorSource(id, c)
      PROVE  wire' = wire
  BY <1>9 DEF Timeout, SetMonitorSource
<1>10. ASSUME NEW i \in Inputs, NEW c \in Computers \cup Others \cup {None}, SetWiringOverride(i, c)
       PROVE  wire' = wire
  BY <1>10 DEF SetWiringOverride
<1>11. Touched \/ UNCHANGED vars => wire' = wire
  BY DEF Touched, vars
<1>12. wire' = wire => Goal
  OBVIOUS
<1> HIDE DEF Goal
<1>13. Goal
  <2>1. ASSUME NEW a \in Computers, AgentSteps(a) \/ Leave(a) PROVE Goal
    BY <1>2, <1>3, <1>4, <1>6, <1>7, <2>1 DEF AgentSteps
  <2>2. ASSUME NEW id \in Ids, Timeout(id) \/ \E c \in Computers \cup Others : SetMonitorSource(id, c)
        PROVE  Goal
    BY <1>9, <1>12, <2>2
  <2>3. CASE UNCHANGED vars
    BY <1>11, <1>12, <2>3
  <2>4. ASSUME NEW i \in Inputs, NEW c \in Computers \cup Others \cup {None}, SetWiringOverride(i, c)
        PROVE  Goal
    BY <1>10, <1>12, <2>4
  <2>5. CASE Touched \/ Restart
    BY <1>8, <1>11, <1>12, <2>5
  <2>6. CASE Next
    BY <1>5, <2>1, <2>2, <2>4, <2>5, <2>6 DEF Next
  <2> QED BY <2>3, <2>6
<1> QED BY <1>13 DEF Goal

(***************************************************************************)
(* What an agent sends is of one moment: if it reads the same afterwards,  *)
(* all that it sends in a step is current.                                 *)
(***************************************************************************)
LEMMA SendsWhatIsRead ==
  ASSUME ObservationTypes, ObservationTypes', NEW a \in Computers, UNCHANGED Reading(a)
  PROVE  LET F == [b \in Computers |-> IF b = a THEN CurrentFrames(a) ELSE AgentFrame]
         IN  F \in [Computers -> SUBSET AgentFrame] /\ SendsOnly(F)
<1> DEFINE F == [b \in Computers |-> IF b = a THEN CurrentFrames(a) ELSE AgentFrame]
<1>1. F \in [Computers -> SUBSET AgentFrame]
  BY DEF CurrentFrames
<1>2. ASSUME NEW b \in Computers, NEW f \in AgentFrame, b = a /\ f.kind \in {"observed", "result"} => f.seen = Reading(a)
      PROVE  f \in F[b]
  BY <1>2 DEF CurrentFrames
<1> HIDE DEF F
<1>3. ASSUME NEW b \in Computers
      PROVE  /\ \A kind \in {"hello", "inventory"} : [kind |-> kind, via |-> Via(b)] \in F[b]
             /\ SeenBy(b) \in F[b]
             /\ \A id \in Ids, ok \in BOOLEAN : /\ ResultOf(b, id, ok, Reading(b)) \in F[b]
                                                /\ ResultOf(b, id, ok, Reading(b)') \in F[b]
  <2>1. ASSUME NEW kind \in {"hello", "inventory"}
        PROVE  [kind |-> kind, via |-> Via(b)] \in F[b]
    <3> DEFINE f == [kind |-> kind, via |-> Via(b)]
    <3>1. f \in AgentFrame /\ f.kind \notin {"observed", "result"}
      BY SentAreFrames DEF ObservationTypes
    <3> HIDE DEF f
    <3>2. f \in F[b]
      BY <1>2, <3>1
    <3> QED BY <3>2 DEF f
  <2>2. SeenBy(b) \in F[b]
    <3>1. SeenBy(b) \in AgentFrame
      BY SentAreFrames DEF ObservationTypes
    <3>2. b = a => SeenBy(b).seen = Reading(a)
      BY DEF SeenBy
    <3> QED BY <1>2, <3>1, <3>2
  <2>3. ASSUME NEW id \in Ids, NEW ok \in BOOLEAN, NEW seen \in Inputs \cup {None},
               b = a => seen = Reading(a)
        PROVE  ResultOf(b, id, ok, seen) \in F[b]
    <3>1. ResultOf(b, id, ok, seen) \in AgentFrame
      BY SentAreFrames DEF ObservationTypes
    <3>2. b = a => ResultOf(b, id, ok, seen).seen = Reading(a)
      BY <2>3 DEF ResultOf
    <3> QED BY <1>2, <3>1, <3>2
  <2>4. Reading(b) \in Inputs \cup {None} /\ Reading(b)' \in Inputs \cup {None}
    <3>1. Reading(b)' \in Inputs \cup {None}
      BY DEF ObservationTypes, DeskInv, DeskType, Reading
    <3> QED BY <3>1, ReadingIsInput DEF ObservationTypes
  <2>5. b = a => Reading(b)' = Reading(a)
    OBVIOUS
  <2> QED BY <2>1, <2>2, <2>3, <2>4, <2>5
<1>4. SendsOnly(F)
  BY <1>3 DEF SendsOnly
<1> QED BY <1>1, <1>4 DEF F

(* A report that is noted is the agent's own frame; the reports of others are not touched. *)
LEMMA ReportsStay ==
  ASSUME ObservationTypes, [Next]_vars, NEW a \in Computers, Fresh(a)
  PROVE  observations' \in Seq(CurrentReports(a))
<1>1. observations \in Seq(CurrentReports(a)) /\ OnePerAgent(observations)
  BY DEF Fresh, ObservationTypes, StoreTypes
<1>2. ASSUME NEW b \in Computers, HandleObserved(b) \/ HandleResult(b)
      PROVE  observations' \in Seq(CurrentReports(a))
  <2> DEFINE f == Head(wire[b])
             report == [agent |-> b, seen |-> f.seen]
  <2>1. /\ Delivered(b, {"observed", "result"})
        /\ observations' = <<report>> \o Without(observations, b)
    BY <1>2 DEF HandleObserved, HandleResult, Delivered, Note, Noted
  <2>2. f \in AgentFrame /\ f.kind \in {"observed", "result"}
    BY <2>1, DeliveredKeepsLines DEF ObservationTypes
  <2>3. b = a => f \in CurrentFrames(a)
    <3> SUFFICES ASSUME b = a PROVE f \in CurrentFrames(a)
      OBVIOUS
    <3> DEFINE Item == CurrentFrames(a)
    <3>1. wire[b] \in Seq(Item) /\ wire[b] # <<>>
      BY <2>1 DEF Fresh, Delivered
    <3> HIDE DEF Item
    <3>2. Head(wire[b]) \in Item
      BY <3>1, HeadTailProperties
    <3> QED BY <3>2 DEF Item
  <2>4. f.seen \in Inputs \cup {None} /\ (b = a => f.seen = Reading(a))
    BY <2>2, <2>3, FrameFields DEF CurrentFrames
  <2> DEFINE seen == f.seen
  <2>5. seen \in Inputs \cup {None} /\ (b = a => seen = Reading(a)) /\ report = [agent |-> b, seen |-> seen]
    BY <2>4
  <2> HIDE DEF seen, report
  <2>6. report \in CurrentReports(a) /\ report.agent = b
    BY <2>5 DEF CurrentReports, Report
  <2> QED BY <1>1, <2>1, <2>6, NewestFirst
<1>3. CASE Restart
  <2>1. observations' = <<>> /\ <<>> \in Seq(CurrentReports(a))
    BY <1>3 DEF Restart
  <2> QED BY <2>1
<1>4. ASSUME NEW b \in Computers,
             Dial(b) \/ Observe(b) \/ Look(b) \/ Execute(b) \/ HandleInventory(b) \/ Leave(b)
      PROVE  observations' = observations
  BY <1>4 DEF Dial, Observe, Look, Execute, HandleInventory, ApplyMonitorReports, Leave, store
<1>5. ASSUME NEW job \in jobs, Finish(job) PROVE observations' = observations
  BY <1>5 DEF Finish, store
<1>6. ASSUME NEW id \in Ids, Timeout(id) \/ \E c \in Computers \cup Others : SetMonitorSource(id, c)
      PROVE  observations' = observations
  BY <1>6 DEF Timeout, SetMonitorSource, store
<1>7. ASSUME NEW i \in Inputs, NEW c \in Computers \cup Others \cup {None}, SetWiringOverride(i, c)
      PROVE  observations' = observations
  BY <1>7 DEF SetWiringOverride
<1>8. Touched \/ UNCHANGED vars => observations' = observations
  BY DEF Touched, vars, store
<1>9. ASSUME NEW b \in Computers, AgentSteps(b) \/ Leave(b)
      PROVE  observations' \in Seq(CurrentReports(a))
  BY <1>1, <1>2, <1>4, <1>9 DEF AgentSteps
<1> QED BY <1>1, <1>3, <1>5, <1>6, <1>7, <1>8, <1>9 DEF Next

LEMMA FreshStep ==
  ASSUME ObservationTypes, [Next]_vars, NEW a \in Computers, Fresh(a), UNCHANGED Reading(a)
  PROVE  Fresh(a)'
<1> DEFINE F == [b \in Computers |-> IF b = a THEN CurrentFrames(a) ELSE AgentFrame]
<1>1. ObservationTypes'
  BY StepKeepsTypes
<1>2. F \in [Computers -> SUBSET AgentFrame] /\ SendsOnly(F)
  BY <1>1, SendsWhatIsRead
<1>3. \A b \in Computers : wire[b] \in Seq(F[b])
  BY DEF Fresh, ObservationTypes, LineTypes
<1>4. F[a] = CurrentFrames(a)
  OBVIOUS
<1> HIDE DEF F
<1>5. wire'[a] \in Seq(CurrentFrames(a))
  BY <1>2, <1>3, <1>4, LinesStay
<1>6. CurrentFrames(a)' = CurrentFrames(a) /\ CurrentReports(a)' = CurrentReports(a)
  BY DEF CurrentFrames, CurrentReports
<1> QED BY <1>5, <1>6, ReportsStay DEF Fresh

(***************************************************************************)
(* FreshStays, for any agents, panels, providers, faults and requests.     *)
(***************************************************************************)
THEOREM ReadingsStayCurrent == Spec => FreshStays
<1> DEFINE Stays == \A a \in Computers : Fresh(a) /\ UNCHANGED Reading(a) => Fresh(a)'
<1>1. ASSUME ObservationTypes, [Next]_vars PROVE [Stays]_vars
  BY <1>1, FreshStep
<1> QED BY <1>1, InitHasTypes, StepKeepsTypes, PTL DEF Spec, FreshStays

(* A report put before the others: each of them moves one place down. *)
LEMMA NewReportFirst ==
  ASSUME NEW S, NEW report \in S, NEW others \in Seq(S)
  PROVE  /\ Len(others) \in Nat /\ DOMAIN others = 1..Len(others)
         /\ DOMAIN (<<report>> \o others) = 1..1 + Len(others)
         /\ (<<report>> \o others)[1] = report
         /\ \A m \in 1..Len(others) : (<<report>> \o others)[m + 1] = others[m]
<1> DEFINE all == <<report>> \o others
<1>1. Len(others) \in Nat /\ DOMAIN others = 1..Len(others)
  OBVIOUS
<1>2. <<report>> \in Seq(S) /\ Len(<<report>>) = 1 /\ <<report>>[1] = report
  OBVIOUS
<1>3. /\ all \in Seq(S) /\ Len(all) = 1 + Len(others)
      /\ \A m \in 1..1 + Len(others) : all[m] = IF m <= 1 THEN <<report>>[m] ELSE others[m - 1]
  BY <1>2, ConcatProperties
<1> HIDE DEF all
<1>4. DOMAIN all = 1..1 + Len(others)
  BY <1>3, LenProperties
<1>5. all[1] = report
  BY <1>1, <1>2, <1>3
<1>6. ASSUME NEW m \in 1..Len(others) PROVE all[m + 1] = others[m]
  <2>1. m + 1 \in 1..1 + Len(others) /\ ~(m + 1 <= 1) /\ m + 1 - 1 = m
    BY <1>1
  <2> QED BY <1>3, <2>1
<1> QED BY <1>1, <1>4, <1>5, <1>6 DEF all

(***************************************************************************)
(* All agents are fresh, and one of them sees the panel.                   *)
(***************************************************************************)
Settled == (\A a \in Computers : Fresh(a)) /\ \E n \in DOMAIN observations : observations[n].seen # None

(***************************************************************************)
(* The safety half of DeskIsSeen: on a calm desk that nobody touches, the  *)
(* store stays settled once it is; and settled it shows the panel as it is *)
(* (SettledIsSeen below).                                                  *)
(***************************************************************************)
SettledStays == [][Settled /\ Calm /\ Calm' /\ UNCHANGED activeInput => Settled']_vars

(* What an agent reads on a calm desk. *)
LEMMA CalmReading ==
  ASSUME Calm, Calm', UNCHANGED <<activeInput, requiresActiveInput>>
  PROVE  \A a \in Computers : UNCHANGED Reading(a)
BY DEF Calm, Reading, CanControl

LEMMA SettledStep ==
  ASSUME ObservationTypes, [Next]_vars, Settled, Calm, Calm', UNCHANGED activeInput
  PROVE  Settled'
<1>1. \A a \in Computers : UNCHANGED Reading(a) /\ Fresh(a)
  BY ChosenOnce, CalmReading DEF Settled
<1>2. \A a \in Computers : Fresh(a)'
  BY <1>1, FreshStep
<1>3. PICK n \in DOMAIN observations : observations[n].seen # None
  BY DEF Settled
<1>4. observations \in Seq(Report) /\ observations[n] \in Report /\ observations[n].agent \in Computers
  <2>1. observations \in Seq(Report)
    BY DEF ObservationTypes, StoreTypes
  <2>2. observations[n] \in Report
    BY <2>1, ElementOfSeq
  <2> QED BY <2>1, <2>2 DEF Report
<1>5. ASSUME NEW b, observations[n].agent # b
      PROVE  \E m \in DOMAIN Without(observations, b) : Without(observations, b)[m] = observations[n]
  <2>1. observations \in Seq(Report) /\ n \in DOMAIN observations
    BY <1>3, <1>4
  <2> QED BY <1>5, <2>1, WithoutLosesNoOther
<1> DEFINE Goal == \E m \in DOMAIN observations' : observations'[m].seen # None
<1>6. ASSUME NEW b \in Computers, HandleObserved(b) \/ HandleResult(b) PROVE Goal
  <2> DEFINE f == Head(wire[b])
             seen == f.seen
             report == [agent |-> b, seen |-> seen]
             others == Without(observations, b)
  <2>1. /\ Delivered(b, {"observed", "result"})
        /\ observations' = <<report>> \o others
    BY <1>6 DEF HandleObserved, HandleResult, Delivered, Note, Noted
  <2>2. others \in Seq(Report)
    BY <1>4, WithoutKeepsOthers DEF ObservationTypes, StoreTypes, OnePerAgent
  <2>3. f.kind \in {"observed", "result"} /\ f \in CurrentFrames(b)
    <3>1. f.kind \in {"observed", "result"}
      BY <2>1 DEF Delivered
    <3> DEFINE Item == CurrentFrames(b)
    <3>2. wire[b] \in Seq(Item) /\ wire[b] # <<>>
      BY <1>1, <2>1 DEF Fresh, Delivered
    <3> HIDE DEF Item
    <3>3. Head(wire[b]) \in Item
      BY <3>2, HeadTailProperties
    <3> QED BY <3>1, <3>3 DEF Item
  <2>4. seen = Reading(b)
    BY <2>3 DEF CurrentFrames
  <2>5. seen \in Inputs \cup {None}
    BY <2>4, ReadingIsInput DEF ObservationTypes
  <2> HIDE DEF seen
  <2>6. report \in Report /\ report.seen = seen
    BY <2>5 DEF Report
  <2> HIDE DEF report, others
  <2>7. /\ Len(others) \in Nat /\ DOMAIN others = 1..Len(others)
        /\ DOMAIN (<<report>> \o others) = 1..1 + Len(others)
        /\ (<<report>> \o others)[1] = report
        /\ \A m \in 1..Len(others) : (<<report>> \o others)[m + 1] = others[m]
    BY <2>2, <2>6, NewReportFirst
  <2>8. CASE observations[n].agent = b
    <3>1. observations[n].seen = Reading(b)
      <4>1. observations \in Seq(CurrentReports(b))
        BY <1>1 DEF Fresh
      <4>2. observations[n] \in CurrentReports(b)
        BY <4>1, ElementOfSeq
      <4> QED BY <2>8, <4>2 DEF CurrentReports
    <3>2. 1 \in DOMAIN observations' /\ observations'[1].seen # None
      BY <1>3, <2>1, <2>4, <2>6, <2>7, <3>1
    <3> QED BY <3>2
  <2>9. CASE observations[n].agent # b
    <3>1. PICK m \in DOMAIN others : others[m] = observations[n]
      <4>1. \E m \in DOMAIN Without(observations, b) : Without(observations, b)[m] = observations[n]
        BY <1>5, <2>9
      <4> QED BY <4>1 DEF others
    <3>2. m + 1 \in 1..1 + Len(others)
      BY <2>7
    <3>3. m + 1 \in DOMAIN observations' /\ observations'[m + 1] = observations[n]
      BY <2>1, <2>7, <3>1, <3>2
    <3> QED BY <1>3, <3>3
  <2> QED BY <2>8, <2>9
<1>7. observations' = observations => Goal
  BY <1>3
<1>8. ~Restart /\ \A b \in Computers : ~Leave(b)
  <2>1. online' = Computers /\ Computers # {}
    BY <1>4 DEF Calm
  <2> QED BY <2>1 DEF Restart, Leave
<1>9. ASSUME NEW b \in Computers,
             Dial(b) \/ Observe(b) \/ Look(b) \/ Execute(b) \/ HandleInventory(b)
      PROVE  observations' = observations
  BY <1>9 DEF Dial, Observe, Look, Execute, HandleInventory, ApplyMonitorReports, store
<1>10. ASSUME NEW job \in jobs, Finish(job) PROVE observations' = observations
  BY <1>10 DEF Finish, store
<1>11. ASSUME NEW id \in Ids, Timeout(id) \/ \E c \in Computers \cup Others : SetMonitorSource(id, c)
       PROVE  observations' = observations
  BY <1>11 DEF Timeout, SetMonitorSource, store
<1>12. ASSUME NEW i \in Inputs, NEW c \in Computers \cup Others \cup {None}, SetWiringOverride(i, c)
       PROVE  observations' = observations
  BY <1>12 DEF SetWiringOverride
<1>13. Touched \/ UNCHANGED vars => observations' = observations
  BY DEF Touched, vars, store
<1> HIDE DEF Goal
<1>14. ASSUME NEW b \in Computers, AgentSteps(b) PROVE Goal
  BY <1>6, <1>7, <1>9, <1>14 DEF AgentSteps
<1>15. Goal
  BY <1>7, <1>8, <1>10, <1>11, <1>12, <1>13, <1>14 DEF Next
<1> QED BY <1>2, <1>15 DEF Settled, Goal

(* SettledStays, for any agents, panels, providers, faults and requests. *)
THEOREM SeenStaysSeen == Spec => SettledStays
<1> DEFINE Stays == Settled /\ Calm /\ Calm' /\ UNCHANGED activeInput => Settled'
<1>1. ASSUME ObservationTypes, [Next]_vars PROVE [Stays]_vars
  BY <1>1, SettledStep
<1> QED BY <1>1, InitHasTypes, StepKeepsTypes, PTL DEF Spec, SettledStays

-----------------------------------------------------------------------------
(* A desk that is settled is seen, and switches are routed *)

(***************************************************************************)
(* An agent that counts as online has a path, and where cables are not     *)
(* inferred every path, and every inventory under way, names the agent's   *)
(* own, and needs the live input only if the panel demands it.             *)
(***************************************************************************)
OnlineHavePaths == \A a \in online : \E n \in DOMAIN paths : paths[n].agent = a
NamedCables == [a \in Computers |-> {f \in AgentFrame : f.kind \in {"hello", "inventory"} /\ ~infers => f.via = Cable[a]}]
NamedPaths ==
  {p \in Path : ~infers => p.input = Cable[p.agent] /\ (p.needsActive => requiresActiveInput)}

RouteInv ==
  /\ BeliefInv
  /\ OnlineHavePaths
  /\ \A a \in Computers : wire[a] \in Seq(NamedCables[a])
  /\ paths \in Seq(NamedPaths)

LEMMA CablesAreSent ==
  ASSUME ObservationTypes, ObservationTypes'
  PROVE  NamedCables \in [Computers -> SUBSET AgentFrame] /\ SendsOnly(NamedCables)
<1> DEFINE F == NamedCables
<1>1. F \in [Computers -> SUBSET AgentFrame]
  BY DEF NamedCables
<1>2. ASSUME NEW b \in Computers, NEW f \in AgentFrame,
             f.kind \in {"hello", "inventory"} /\ ~infers => f.via = Cable[b]
      PROVE  f \in F[b]
  BY <1>2 DEF NamedCables
<1> HIDE DEF F
<1>3. ASSUME NEW b \in Computers
      PROVE  /\ \A kind \in {"hello", "inventory"} : [kind |-> kind, via |-> Via(b)] \in F[b]
             /\ SeenBy(b) \in F[b]
             /\ \A id \in Ids, ok \in BOOLEAN : /\ ResultOf(b, id, ok, Reading(b)) \in F[b]
                                                /\ ResultOf(b, id, ok, Reading(b)') \in F[b]
  <2>1. ASSUME NEW kind \in {"hello", "inventory"}
        PROVE  [kind |-> kind, via |-> Via(b)] \in F[b]
    <3> DEFINE f == [kind |-> kind, via |-> Via(b)]
    <3>1. f \in AgentFrame /\ (~infers => f.via = Cable[b])
      BY SentAreFrames DEF ObservationTypes, Via
    <3> HIDE DEF f
    <3>2. f \in F[b]
      BY <1>2, <3>1
    <3> QED BY <3>2 DEF f
  <2>2. SeenBy(b) \in F[b]
    <3>1. SeenBy(b) \in AgentFrame
      BY SentAreFrames DEF ObservationTypes
    <3>2. SeenBy(b).kind \notin {"hello", "inventory"}
      BY DEF SeenBy
    <3> QED BY <1>2, <3>1, <3>2
  <2>3. ASSUME NEW id \in Ids, NEW ok \in BOOLEAN, NEW seen \in Inputs \cup {None}
        PROVE  ResultOf(b, id, ok, seen) \in F[b]
    <3>1. ResultOf(b, id, ok, seen) \in AgentFrame
      BY SentAreFrames DEF ObservationTypes
    <3>2. ResultOf(b, id, ok, seen).kind \notin {"hello", "inventory"}
      BY DEF ResultOf
    <3> QED BY <1>2, <3>1, <3>2
  <2>4. Reading(b) \in Inputs \cup {None} /\ Reading(b)' \in Inputs \cup {None}
    <3>1. Reading(b)' \in Inputs \cup {None}
      BY DEF ObservationTypes, DeskInv, DeskType, Reading
    <3> QED BY <3>1, ReadingIsInput DEF ObservationTypes
  <2> QED BY <2>1, <2>2, <2>3, <2>4
<1>4. SendsOnly(F)
  BY <1>3 DEF SendsOnly
<1> QED BY <1>1, <1>4 DEF F

(* What a reading does to the paths: some may turn out not to need the live input. *)
LEMMA NotedPaths ==
  ASSUME ObservationTypes, paths \in Seq(NamedPaths), NEW a \in Computers, NEW seen \in Inputs \cup {None}
  PROVE  /\ Noted(a, seen).paths \in Seq(NamedPaths)
         /\ DOMAIN Noted(a, seen).paths = DOMAIN paths
         /\ \A n \in DOMAIN paths : Noted(a, seen).paths[n].agent = paths[n].agent
<1> DEFINE independent == seen # None /\ Proves(a, seen)
           marked == [n \in DOMAIN paths |->
                        IF independent /\ paths[n].agent = a
                        THEN [paths[n] EXCEPT !.needsActive = FALSE] ELSE paths[n]]
<1>1. Noted(a, seen).paths = marked
  BY DEF Noted
<1> HIDE DEF independent
<1>2. ASSUME NEW n \in DOMAIN paths
      PROVE  marked[n] \in NamedPaths /\ marked[n].agent = paths[n].agent
  <2>1. paths[n] \in NamedPaths /\ paths[n] \in Path
    <3>1. paths[n] \in NamedPaths
      BY ElementOfSeq
    <3> QED BY <3>1 DEF NamedPaths
  <2> DEFINE p == paths[n]
             q == [p EXCEPT !.needsActive = FALSE]
  <2>2. q \in Path /\ q.agent = p.agent /\ q.input = p.input /\ q.needsActive = FALSE
    BY <2>1 DEF Path
  <2>3. marked[n] \in {p, q}
    OBVIOUS
  <2> HIDE DEF marked, q
  <2>4. q \in NamedPaths
    BY <2>1, <2>2 DEF NamedPaths
  <2> QED BY <2>1, <2>2, <2>3, <2>4
<1>3. DOMAIN marked = 1..Len(paths) /\ Len(paths) \in Nat /\ DOMAIN paths = 1..Len(paths)
  OBVIOUS
<1>4. marked \in [1..Len(paths) -> NamedPaths]
  BY <1>2, <1>3
<1> HIDE DEF marked
<1>5. marked \in Seq(NamedPaths)
  BY <1>3, <1>4
<1> QED BY <1>1, <1>2, <1>3, <1>5

LEMMA InventoryKeepsRoutes ==
  ASSUME RouteInv, NEW a \in Computers, HandleInventory(a)
  PROVE  /\ paths' \in Seq(NamedPaths)
         /\ \A b \in online' : \E n \in DOMAIN paths' : paths'[n].agent = b
<1> DEFINE via == Head(wire[a]).via
           path == NewPath(a, via)
           others == Without(paths, a)
<1>1. /\ Delivered(a, {"hello", "inventory"}) /\ online' = online \cup {a}
      /\ paths' = Append(others, path)
  BY DEF HandleInventory, ApplyMonitorReports, NewPath
<1>2. Head(wire[a]) \in NamedCables[a] /\ Head(wire[a]).kind \in {"hello", "inventory"}
  <2> DEFINE Item == NamedCables[a]
  <2>1. wire[a] \in Seq(Item) /\ wire[a] # <<>>
    BY <1>1 DEF RouteInv, Delivered
  <2> HIDE DEF Item
  <2>2. Head(wire[a]) \in Item
    BY <2>1, HeadTailProperties
  <2> QED BY <1>1, <2>2 DEF Item, Delivered
<1>3. via \in Inputs \cup {None} /\ (~infers => via = Cable[a])
  BY <1>2, FrameFields DEF NamedCables
<1> HIDE DEF via
<1>4. path \in Path /\ path.agent = a /\ path.input = via /\ (path.needsActive => ClaimsActive)
  BY <1>3, NewPathIsPath DEF NewPath
<1> HIDE DEF path
<1>5. path \in NamedPaths
  BY <1>3, <1>4 DEF NamedPaths, ClaimsActive
<1>6. paths \in Seq(NamedPaths) /\ OnePerAgent(paths)
  BY DEF RouteInv, BeliefInv, ObservationTypes, StoreTypes
<1>7. others \in Seq(NamedPaths)
  BY <1>6, WithoutKeepsOthers DEF OnePerAgent
<1>8. paths' \in Seq(NamedPaths)
  <2> HIDE DEF others
  <2> QED BY <1>1, <1>5, <1>7
<1>9. ASSUME NEW b \in online' PROVE \E n \in DOMAIN paths' : paths'[n].agent = b
  <2>1. /\ Len(others) \in Nat /\ DOMAIN others = 1..Len(others) /\ DOMAIN paths' = 1..Len(others) + 1
        /\ paths'[Len(others) + 1] = path
        /\ \A m \in 1..Len(others) : paths'[m] = others[m]
    <3> HIDE DEF others
    <3> QED BY <1>1, <1>5, <1>7
  <2>2. CASE b = a
    BY <1>4, <2>1, <2>2
  <2>3. CASE b # a
    <3>1. PICK n \in DOMAIN paths : paths[n].agent = b
      BY <1>1, <2>3 DEF RouteInv, OnlineHavePaths
    <3>2. PICK m \in DOMAIN others : others[m] = paths[n]
      BY <1>6, <2>3, <3>1, WithoutLosesNoOther
    <3> HIDE DEF others
    <3>3. m \in DOMAIN paths' /\ paths'[m].agent = b
      BY <2>1, <3>1, <3>2
    <3> QED BY <3>3
  <2> QED BY <2>2, <2>3
<1> QED BY <1>8, <1>9

LEMMA StepKeepsRoutes == RouteInv /\ [Next]_vars => RouteInv'
<1> SUFFICES ASSUME RouteInv, [Next]_vars PROVE RouteInv'
  OBVIOUS
<1>1. BeliefInv' /\ ObservationTypes /\ ObservationTypes'
  BY StepKeepsBelief DEF RouteInv, BeliefInv
<1>2. UNCHANGED <<requiresActiveInput, infers>>
  BY ChosenOnce
<1>3. NamedCables' = NamedCables /\ NamedPaths' = NamedPaths
  BY <1>2 DEF NamedCables, NamedPaths
<1>4. \A b \in Computers : wire'[b] \in Seq(NamedCables[b])
  BY <1>1, CablesAreSent, LinesStay DEF RouteInv
<1> DEFINE Goal == /\ paths' \in Seq(NamedPaths)
                   /\ \A b \in online' : \E n \in DOMAIN paths' : paths'[n].agent = b
<1>5. ASSUME NEW a \in Computers, HandleInventory(a) PROVE Goal
  BY <1>5, InventoryKeepsRoutes
<1>6. ASSUME NEW a \in Computers, HandleObserved(a) \/ HandleResult(a) PROVE Goal
  <2> DEFINE seen == Head(wire[a]).seen
  <2>1. Delivered(a, {"observed", "result"}) /\ paths' = Noted(a, seen).paths /\ online' = online
    BY <1>6 DEF HandleObserved, HandleResult, Delivered, Note
  <2>2. Head(wire[a]) \in AgentFrame /\ Head(wire[a]).kind \in {"observed", "result"}
    BY <1>1, <2>1, DeliveredKeepsLines DEF ObservationTypes
  <2>3. seen \in Inputs \cup {None}
    BY <2>2, FrameFields
  <2> HIDE DEF seen
  <2>4. /\ paths' \in Seq(NamedPaths) /\ DOMAIN paths' = DOMAIN paths
        /\ \A n \in DOMAIN paths : paths'[n].agent = paths[n].agent
    BY <1>1, <2>1, <2>3, NotedPaths DEF RouteInv
  <2> QED BY <2>1, <2>4 DEF RouteInv, OnlineHavePaths
<1>7. ASSUME Restart PROVE Goal
  <2>1. paths' = <<>> /\ online' = {}
    BY <1>7 DEF Restart
  <2> QED BY <2>1
<1>8. ASSUME paths' = paths, online' \subseteq online PROVE Goal
  BY <1>8 DEF RouteInv, OnlineHavePaths
<1>9. ASSUME NEW a \in Computers, Dial(a) \/ Observe(a) \/ Look(a) \/ Execute(a) \/ Leave(a)
      PROVE  paths' = paths /\ online' \subseteq online
  BY <1>9 DEF Dial, Observe, Look, Execute, Leave, store
<1>10. ASSUME NEW job \in jobs, Finish(job) PROVE paths' = paths /\ online' \subseteq online
  BY <1>10 DEF Finish, store
<1>11. ASSUME NEW id \in Ids, Timeout(id) \/ \E c \in Computers \cup Others : SetMonitorSource(id, c)
       PROVE  paths' = paths /\ online' \subseteq online
  BY <1>11 DEF Timeout, SetMonitorSource, store
<1>12. ASSUME NEW i \in Inputs, NEW c \in Computers \cup Others \cup {None}, SetWiringOverride(i, c)
       PROVE  paths' = paths /\ online' \subseteq online
  BY <1>12 DEF SetWiringOverride
<1>13. Touched \/ UNCHANGED vars => paths' = paths /\ online' \subseteq online
  BY DEF Touched, vars, store
<1> HIDE DEF Goal
<1>14. ASSUME NEW a \in Computers, AgentSteps(a) \/ Leave(a) PROVE Goal
  BY <1>5, <1>6, <1>8, <1>9, <1>14 DEF AgentSteps
<1>15. Goal
  BY <1>7, <1>8, <1>10, <1>11, <1>12, <1>13, <1>14 DEF Next
<1> QED BY <1>1, <1>3, <1>4, <1>15 DEF RouteInv, OnlineHavePaths, Goal

LEMMA InitHasRoutes == Init => RouteInv
<1> SUFFICES ASSUME Init PROVE RouteInv
  OBVIOUS
<1>1. BeliefInv
  BY InitBelieves
<1>2. \A a \in Computers : wire[a] = <<>> /\ <<>> \in Seq(NamedCables[a])
  BY DEF Init
<1>3. online = {} /\ paths \in Seq(NamedPaths)
  BY DEF Init
<1> QED BY <1>1, <1>2, <1>3 DEF RouteInv, OnlineHavePaths

(* The place of the first entry that passes, if one does. *)
LEMMA FirstHit ==
  ASSUME NEW s, NEW Hits \in SUBSET 1..Len(s), Len(s) \in Nat
  PROVE  /\ Hits = {} => (IF Hits # {} THEN Min(Hits) ELSE 0) = 0
         /\ Hits # {} => /\ (IF Hits # {} THEN Min(Hits) ELSE 0) \in Hits
                         /\ (IF Hits # {} THEN Min(Hits) ELSE 0) # 0
<1>1. Hits \subseteq Nat
  OBVIOUS
<1>2. Hits # {} => Min(Hits) \in Hits
  BY <1>1, MinIsLeast
<1>3. 0 \notin Hits
  OBVIOUS
<1> DEFINE place == IF Hits # {} THEN Min(Hits) ELSE 0
<1>4. Hits = {} => place = 0
  OBVIOUS
<1>5. Hits # {} => place \in Hits
  BY <1>2
<1> HIDE DEF place
<1>6. Hits # {} => place \in Hits /\ place # 0
  BY <1>3, <1>5
<1> QED BY <1>4, <1>6 DEF place

(* The panel as the store shows it is the panel. *)
LEMMA EffectiveIsLive ==
  ASSUME ObservationTypes, Settled
  PROVE  Effective # None /\ Effective.seen = activeInput
<1> DEFINE Hits == {n \in 1..Len(observations) : observations[n].seen # None}
           first == IF Hits # {} THEN Min(Hits) ELSE 0
<1>1. observations \in Seq(Report) /\ Len(observations) \in Nat
  BY DEF ObservationTypes, StoreTypes
<1>2. PICK n \in DOMAIN observations : observations[n].seen # None
  BY DEF Settled
<1>3. Effective = IF first # 0 THEN observations[first]
                  ELSE IF observations # <<>> THEN Head(observations) ELSE None
  BY DEF Effective, SelectInSeq
<1>4. first # 0 /\ first \in Hits
  <2>1. Hits # {} /\ Hits \in SUBSET 1..Len(observations)
    BY <1>1, <1>2
  <2> HIDE DEF Hits
  <2> QED BY <1>1, <2>1, FirstHit
<1> HIDE DEF first
<1>5. first \in DOMAIN observations /\ observations[first].seen # None
  BY <1>1, <1>4
<1>6. observations[first] \in Report /\ observations[first].agent \in Computers
  <2>1. observations[first] \in Report
    BY <1>1, <1>5, ElementOfSeq
  <2> QED BY <2>1 DEF Report
<1>7. observations[first].seen = Reading(observations[first].agent)
  <2> DEFINE a == observations[first].agent
  <2>1. a \in Computers /\ observations \in Seq(CurrentReports(a))
    BY <1>6 DEF Settled, Fresh
  <2>2. observations[first] \in CurrentReports(a)
    BY <1>5, <2>1, ElementOfSeq
  <2> QED BY <2>2 DEF CurrentReports
<1>8. observations[first].seen = activeInput
  BY <1>5, <1>7 DEF Reading
<1>9. Effective = observations[first]
  BY <1>3, <1>4
<1>10. None \notin Report
  BY ObservationAssumption DEF Report
<1> QED BY <1>6, <1>8, <1>9, <1>10

(* A sequence that has an entry of a kind: the first one of them, as selectControlPath finds it. *)
LEMMA PathIsFound ==
  ASSUME ObservationTypes, NEW Passes \in SUBSET DOMAIN paths
  PROVE  LET place == IF Passes # {} THEN Min(Passes) ELSE 0
         IN  /\ place # 0 <=> Passes # {}
             /\ place # 0 => place \in Passes /\ paths[place] \in Path
<1>1. paths \in Seq(Path) /\ Len(paths) \in Nat /\ DOMAIN paths = 1..Len(paths)
  BY DEF ObservationTypes, StoreTypes
<1> DEFINE place == IF Passes # {} THEN Min(Passes) ELSE 0
<1>2. /\ Passes = {} => place = 0
      /\ Passes # {} => place \in Passes /\ place # 0
  BY <1>1, FirstHit
<1> HIDE DEF place
<1>3. place # 0 => paths[place] \in Path
  BY <1>1, <1>2, ElementOfSeq
<1> QED BY <1>2, <1>3 DEF place

(***************************************************************************)
(* Settled, a calm desk is routed: where the panel demands the live input, *)
(* to an agent on it exactly if some path is known to be on it; and where  *)
(* agents know their cables, always.                                       *)
(***************************************************************************)
LEMMA SettledIsRouted ==
  ASSUME RouteInv, Calm, Settled
  PROVE  /\ ~infers => RouteWorks
         /\ requiresActiveInput => (RouteWorks <=> \E n \in DOMAIN paths : paths[n].input = activeInput)
<1> DEFINE Live == {n \in 1..Len(paths) : /\ paths[n].agent \in online
                                          /\ paths[n].input \in {BestKnownActiveInput} \ {None}}
           Free == {n \in 1..Len(paths) : paths[n].agent \in online /\ ~paths[n].needsActive}
           onActive == IF Live # {} THEN Min(Live) ELSE 0
           free == IF Free # {} THEN Min(Free) ELSE 0
<1>1. ObservationTypes /\ BeliefInv
  BY DEF RouteInv, BeliefInv
<1>2. SelectControlPath = IF onActive # 0 THEN paths[onActive].agent
                          ELSE IF free # 0 THEN paths[free].agent ELSE None
  BY DEF SelectControlPath, SelectInSeq
<1>3. /\ Len(paths) \in Nat /\ DOMAIN paths = 1..Len(paths)
      /\ \A n \in DOMAIN paths : /\ paths[n] \in Path /\ paths[n].agent \in Computers
                                 /\ paths[n] \in HonestPaths /\ paths[n] \in NamedPaths
  <2>1. paths \in Seq(HonestPaths) /\ paths \in Seq(NamedPaths)
    BY <1>1 DEF RouteInv, BeliefInv
  <2>2. ASSUME NEW n \in DOMAIN paths PROVE paths[n] \in HonestPaths /\ paths[n] \in NamedPaths
    BY <2>1, ElementOfSeq
  <2>3. \A p \in HonestPaths : p \in Path /\ p.agent \in Computers
    BY DEF HonestPaths, Path
  <2> QED BY <2>1, <2>2, <2>3
<1>4. BestKnownActiveInput = activeInput /\ activeInput \in Inputs /\ activeInput # None
  BY <1>1, EffectiveIsLive, DeskAssumption DEF BestKnownActiveInput, ObservationTypes, DeskInv, DeskType
<1>5. online = Computers /\ fault = None /\ switchingTo = None
  BY DEF Calm
<1>6. /\ Live = {n \in DOMAIN paths : paths[n].input = activeInput}
      /\ Free = {n \in DOMAIN paths : ~paths[n].needsActive}
  BY <1>3, <1>4, <1>5
<1> HIDE DEF Live, Free
<1>7. /\ onActive # 0 <=> Live # {}
      /\ onActive # 0 => onActive \in Live
      /\ free # 0 <=> Free # {}
      /\ free # 0 => free \in Free
  BY <1>1, <1>6, PathIsFound
<1> HIDE DEF onActive, free
<1>8. ASSUME NEW a \in Computers, requiresActiveInput => Cable[a] = activeInput
      PROVE  CanControl(a)
  BY <1>5, <1>8, DeskAssumption DEF CanControl
<1>9. None \notin Computers
  BY DeskAssumption
<1>10. ASSUME onActive # 0 PROVE RouteWorks
  <2> DEFINE p == paths[onActive]
  <2>1. p.agent \in Computers /\ p.input = activeInput /\ p \in HonestPaths
    BY <1>3, <1>6, <1>7, <1>10
  <2>2. SelectControlPath = p.agent
    BY <1>2, <1>10
  <2> HIDE DEF p
  <2>3. requiresActiveInput => Cable[p.agent] = activeInput
    BY <1>4, <2>1 DEF HonestPaths
  <2> QED BY <1>8, <1>9, <2>1, <2>2, <2>3 DEF RouteWorks
<1>11. ASSUME requiresActiveInput PROVE RouteWorks <=> \E n \in DOMAIN paths : paths[n].input = activeInput
  <2>1. Free = {}
    BY <1>3, <1>6, <1>11 DEF HonestPaths
  <2>2. onActive = 0 => SelectControlPath = None
    BY <1>2, <1>7, <2>1
  <2>3. RouteWorks => onActive # 0
    BY <2>2 DEF RouteWorks
  <2> QED BY <1>6, <1>7, <1>10, <2>3
<1>12. ASSUME ~infers PROVE RouteWorks
  <2>1. CASE requiresActiveInput
    <3>1. PICK a \in Computers : Cable[a] = activeInput
      BY <2>1 DEF Calm
    <3>2. PICK n \in DOMAIN paths : paths[n].agent = a
      BY <1>5 DEF RouteInv, OnlineHavePaths
    <3>3. paths[n].input = activeInput
      BY <1>3, <1>12, <3>1, <3>2 DEF NamedPaths
    <3> QED BY <1>11, <2>1, <3>3
  <2>2. CASE ~requiresActiveInput
    <3>1. PICK a \in Computers : TRUE
      <4>1. PICK n \in DOMAIN observations : observations[n].seen # None
        BY DEF Settled
      <4>2. observations[n] \in Report
        BY <1>1, ElementOfSeq DEF ObservationTypes, StoreTypes
      <4> QED BY <4>2 DEF Report
    <3>2. PICK n \in DOMAIN paths : paths[n].agent = a
      BY <1>5 DEF RouteInv, OnlineHavePaths
    <3>3. n \in Free
      BY <1>3, <1>6, <1>12, <2>2, <3>2 DEF NamedPaths
    <3>4. free # 0 /\ paths[free].agent \in Computers
      BY <1>3, <1>6, <1>7, <3>3
    <3>5. onActive = 0 => SelectControlPath = paths[free].agent
      BY <1>2, <3>4
    <3>6. CanControl(paths[free].agent)
      BY <1>8, <2>2, <3>4
    <3> QED BY <1>9, <1>10, <3>4, <3>5, <3>6 DEF RouteWorks
  <2> QED BY <2>1, <2>2
<1> QED BY <1>11, <1>12

(***************************************************************************)
(* On a calm desk that is settled the controller shows the input that is   *)
(* live and gives a switch to an agent that can carry it out wherever      *)
(* agents know their cables; over DDC, on a panel that demands the live    *)
(* input, exactly if some path is known to be on it.                       *)
(***************************************************************************)
THEOREM SettledIsSeen ==
  Spec => [](Calm /\ Settled =>
               /\ Effective # None /\ Effective.seen = activeInput
               /\ ~infers => RouteWorks
               /\ requiresActiveInput =>
                    (RouteWorks <=> \E n \in DOMAIN paths : paths[n].input = activeInput))
<1> DEFINE Seen == Calm /\ Settled =>
                     /\ Effective # None /\ Effective.seen = activeInput
                     /\ ~infers => RouteWorks
                     /\ requiresActiveInput =>
                          (RouteWorks <=> \E n \in DOMAIN paths : paths[n].input = activeInput)
<1>1. RouteInv => Seen
  BY EffectiveIsLive, SettledIsRouted DEF RouteInv, BeliefInv
<1> HIDE DEF Seen
<1>2. Spec => []Seen
  BY <1>1, InitHasRoutes, StepKeepsRoutes, PTL DEF Spec
<1> QED BY <1>2 DEF Seen
=============================================================================
