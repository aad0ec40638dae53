------------------------ MODULE ProcessBridgeProofs ------------------------
(***************************************************************************)
(* The bridge never has two helpers, and it implements the ledger: for     *)
(* every number of requests and of helpers that start, fail, hang, answer  *)
(* late or die.                                                            *)
(***************************************************************************)
EXTENDS ProcessBridge, FiniteSetTheorems, SequenceTheorems, TLAPS

(* The steps of Next, told apart by what they concern. *)
RequestStep(r) == Request(r) \/ Timeout(r) \/ WriteFails(r)
StartStep == Spawn \/ ResolveCommandFails \/ StartupTimeout \/ Dispose
HelperStep(h) ==
  SpawnError(h) \/ TakeLine(h) \/ Exit(h) \/ HelperReady(h) \/ HelperServes(h) \/ HelperDies(h)

LEMMA NextByParts ==
  Next <=> \/ \E r \in Requests : RequestStep(r)
           \/ StartStep
           \/ \E h \in Helpers : HelperStep(h)
  BY DEF Next, RequestStep, StartStep, HelperStep

-----------------------------------------------------------------------------
(* Types *)

(* What is written to a helper is a sequence of requests. *)
LEMMA WrittenIsSequence ==
  ASSUME TypeOK, NEW h \in {0} \cup Helpers, NEW line \in Seq(Requests)
  PROVE  Written(h, line) \in [Helpers -> Seq(Requests)]
<1>1. ASSUME h \in Alive PROVE stdin[h] \o line \in Seq(Requests)
  BY <1>1 DEF TypeOK, Alive
<1>2. QED
  BY <1>1 DEF TypeOK, Written, Alive

(* The requests that wait for a start are finitely many, and so are lined up in a sequence. *)
LEMMA QueueIsSequence ==
  ASSUME NEW order \in Bijection(1..Cardinality(Waiting), Waiting)
  PROVE  /\ Cardinality(Waiting) \in Nat
         /\ order \in Seq(Requests) /\ Len(order) = Cardinality(Waiting)
         /\ \A i \in 1..Len(order) : order[i] \in Waiting
         /\ \A i, j \in 1..Len(order) : order[i] = order[j] => i = j
<1>1. Waiting \in SUBSET Requests
  BY DEF Waiting
<1>2. Cardinality(Waiting) \in Nat
  BY <1>1, BridgeAssumption, FS_Subset, FS_CardinalityType
<1>3. /\ order \in [1..Cardinality(Waiting) -> Waiting]
      /\ \A i, j \in 1..Cardinality(Waiting) : order[i] = order[j] => i = j
  BY DEF Bijection, Injection, Surjection, IsInjective
<1>4. order \in Seq(Requests) /\ Len(order) = Cardinality(Waiting)
  BY <1>1, <1>2, <1>3
<1>5. QED
  BY <1>2, <1>3, <1>4

(* Failing some requests leaves every phase a phase. *)
LEMMA FailedIsPhase ==
  ASSUME TypeOK, NEW some, Failed(some)
  PROVE  phase' \in [Requests -> {"idle", "waiting", "pending", "answered", "failed"}]
  BY DEF TypeOK, Failed

LEMMA RequestTypes ==
  ASSUME TypeOK, NEW r \in Requests, RequestStep(r)
  PROVE  TypeOK'
<1>1. CASE Request(r)
  <2>1. CASE disposed
    BY <1>1, <2>1, FailedIsPhase DEF TypeOK, Request
  <2>2. CASE ~disposed /\ child # 0
    <3>1. /\ phase' = [phase EXCEPT ![r] = "pending"]
          /\ sentTo' = [sentTo EXCEPT ![r] = child]
          /\ stdin' = Written(child, <<r>>)
          /\ UNCHANGED <<starting, child, disposed, buffer, helpers, stdout, performed>>
      BY <1>1, <2>2 DEF Request, SendAtOnce
    <3>2. child \in {0} \cup Helpers /\ <<r>> \in Seq(Requests)
      BY DEF TypeOK
    <3>3. stdin' \in [Helpers -> Seq(Requests)]
      BY <3>1, <3>2, WrittenIsSequence
    <3>4. QED
      BY <3>1, <3>3 DEF TypeOK
  <2>3. CASE ~disposed /\ child = 0
    BY <1>1, <2>3 DEF TypeOK, Request, AwaitStart
  <2>4. QED
    BY <2>1, <2>2, <2>3
<1>2. CASE Timeout(r) \/ WriteFails(r)
  BY <1>2, FailedIsPhase DEF TypeOK, Timeout, WriteFails, processes
<1>3. QED
  BY <1>1, <1>2 DEF RequestStep

LEMMA StartTypes ==
  ASSUME TypeOK, StartStep
  PROVE  TypeOK'
<1>1. CASE Spawn
  BY <1>1 DEF TypeOK, Spawn, Unused
<1>2. CASE ResolveCommandFails \/ StartupTimeout
  BY <1>2, FailedIsPhase DEF TypeOK, ResolveCommandFails, StartupTimeout, StartFails, processes
<1>3. CASE Dispose
  BY <1>3 DEF TypeOK, Dispose, processes
<1>4. QED
  BY <1>1, <1>2, <1>3 DEF StartStep

(* The ready line: what it does to the requests that waited. *)
LEMMA ReadyTypes ==
  ASSUME TypeOK, Ready
  PROVE  /\ starting' \in {"no", "resolving", "readying"}
         /\ phase' \in [Requests -> {"idle", "waiting", "pending", "answered", "failed"}]
         /\ sentTo' \in [Requests -> {0} \cup Helpers]
         /\ stdin' \in [Helpers -> Seq(Requests)]
<1>1. CASE starting = "readying" /\ child = 0
  BY <1>1, FailedIsPhase DEF TypeOK, Ready
<1>2. CASE starting = "readying" /\ child # 0
  <2>1. PICK order \in Bijection(1..Cardinality(Waiting), Waiting) : stdin' = Written(child, order)
    BY <1>2 DEF Ready
  <2>2. stdin' \in [Helpers -> Seq(Requests)]
    BY <2>1, QueueIsSequence, WrittenIsSequence DEF TypeOK
  <2>3. QED
    BY <1>2, <2>2 DEF TypeOK, Ready
<1>3. CASE starting # "readying"
  BY <1>3 DEF TypeOK, Ready
<1>4. QED
  BY <1>1, <1>2, <1>3

LEMMA HelperTypes ==
  ASSUME TypeOK, NEW h \in Helpers, HelperStep(h)
  PROVE  TypeOK'
<1>1. CASE SpawnError(h)
  BY <1>1, FailedIsPhase DEF TypeOK, SpawnError, StartFails
<1>2. CASE TakeLine(h)
  <2>1. /\ stdout[h] # <<>> /\ stdout' = [stdout EXCEPT ![h] = Tail(@)]
        /\ buffer' \in {"torn", "empty"}
        /\ UNCHANGED <<child, disposed, helpers, performed>>
    BY <1>2 DEF TakeLine
  <2>2. Head(stdout[h]) \in Lines /\ Tail(stdout[h]) \in Seq(Lines)
    BY <2>1 DEF TypeOK
  <2>3. stdout' \in [Helpers -> Seq(Lines)]
    BY <2>1, <2>2 DEF TypeOK
  <2>4. CASE UNCHANGED <<starting, phase, sentTo, stdin>>
    BY <2>1, <2>3, <2>4 DEF TypeOK
  <2>5. CASE Ready
    BY <2>1, <2>3, <2>5, ReadyTypes DEF TypeOK
  <2>6. CASE Answer(Head(stdout[h])) /\ UNCHANGED <<starting, sentTo, stdin>>
    <3>1. phase' \in [Requests -> {"idle", "waiting", "pending", "answered", "failed"}]
      BY <2>6 DEF TypeOK, Answer
    <3>2. QED
      BY <2>1, <2>3, <2>6, <3>1 DEF TypeOK
  <2>7. QED
    BY <1>2, <2>4, <2>5, <2>6 DEF TakeLine
<1>3. CASE Exit(h)
  BY <1>3, FailedIsPhase DEF TypeOK, Exit
<1>4. CASE HelperReady(h)
  <2>1. Append(stdout[h], "ready") \in Seq(Lines)
    BY DEF TypeOK, Lines
  <2>2. QED
    BY <1>4, <2>1 DEF TypeOK, HelperReady, bridge
<1>5. CASE HelperServes(h)
  <2>1. stdin[h] # <<>>
    BY <1>5 DEF HelperServes
  <2>2. Head(stdin[h]) \in Requests /\ Tail(stdin[h]) \in Seq(Requests)
    BY <2>1 DEF TypeOK
  <2>3. Append(stdout[h], Head(stdin[h])) \in Seq(Lines)
    BY <2>2 DEF TypeOK, Lines
  <2>4. QED
    BY <1>5, <2>2, <2>3 DEF TypeOK, HelperServes, bridge
<1>6. CASE HelperDies(h)
  <2>1. Append(stdout[h], "torn") \in Seq(Lines)
    BY DEF TypeOK, Lines
  <2>2. /\ helpers' = [helpers EXCEPT ![h] = "dead"] /\ stdin' = [stdin EXCEPT ![h] = <<>>]
        /\ stdout' \in {stdout, [stdout EXCEPT ![h] = Append(@, "torn")]}
        /\ UNCHANGED <<bridge, performed>>
    BY <1>6 DEF HelperDies
  <2>3. stdout' \in [Helpers -> Seq(Lines)]
    BY <2>1, <2>2 DEF TypeOK
  <2>4. stdin' \in [Helpers -> Seq(Requests)]
    BY <2>2 DEF TypeOK
  <2>5. QED
    BY <2>2, <2>3, <2>4 DEF TypeOK, bridge
<1>7. QED
  BY <1>1, <1>2, <1>3, <1>4, <1>5, <1>6 DEF HelperStep

LEMMA TypesStep ==
  ASSUME TypeOK, [Next]_vars
  PROVE  TypeOK'
<1>1. ASSUME NEW r \in Requests, RequestStep(r) PROVE TypeOK'
  BY <1>1, RequestTypes
<1>2. CASE StartStep
  BY <1>2, StartTypes
<1>3. ASSUME NEW h \in Helpers, HelperStep(h) PROVE TypeOK'
  BY <1>3, HelperTypes
<1>4. CASE UNCHANGED vars
  BY <1>4 DEF TypeOK, vars, bridge, processes
<1>5. CASE Next
  <2>1. CASE \E r \in Requests : RequestStep(r)
    BY <1>1, <2>1
  <2>2. CASE \E h \in Helpers : HelperStep(h)
    BY <1>3, <2>2
  <2>3. QED
    BY <1>2, <1>5, <2>1, <2>2, NextByParts
<1>6. QED
  BY <1>4, <1>5

LEMMA TypesInit == Init => TypeOK
<1>1. \A S : [h \in Helpers |-> <<>>] \in [Helpers -> Seq(S)]
  BY EmptySeq
<1>2. QED
  BY <1>1 DEF Init, TypeOK

(***************************************************************************)
(* The bridge's state keeps its types: requests in phases, helpers in      *)
(* theirs, and lines between them.                                         *)
(***************************************************************************)
THEOREM BridgeTypes == Spec => []TypeOK
<1>1. QED
  BY TypesInit, TypesStep, PTL DEF Spec

-----------------------------------------------------------------------------
(* One helper *)

(* A process is there until its exit was heard: it may have died already. *)
Present == {h \in Helpers : helpers[h] \in {"booting", "serving", "dead"}}

AtMostOnePresent == \A g, h \in Present : g = h

(* While a start resolves its command, and while the next request would begin one, nobody is there. *)
NobodyBeforeStart ==
  starting = "resolving" \/ (starting = "no" /\ child = 0 /\ ~disposed) => Present = {}

(* Only dispose lets go of a process that is starting. *)
StartHoldsChild == starting = "readying" /\ ~disposed => child # 0

StartInv == TypeOK /\ AtMostOnePresent /\ NobodyBeforeStart /\ StartHoldsChild

LEMMA StartInvInit == Init => StartInv
  BY TypesInit DEF Init, StartInv, AtMostOnePresent, NobodyBeforeStart, StartHoldsChild, Present

(* A step after which nobody is there who was not, and which starts and lets go of nothing. *)
LEMMA QuietStep ==
  ASSUME StartInv, TypeOK', Present' \subseteq Present,
         starting' = starting, child' = child, disposed' = disposed
  PROVE  StartInv'
  BY DEF StartInv, AtMostOnePresent, NobodyBeforeStart, StartHoldsChild

(* A start that ends leaves the process it holds. *)
LEMMA StartEnds ==
  ASSUME StartInv, TypeOK', Present' \subseteq Present,
         starting # "no", starting' = "no", child' = child, disposed' = disposed
  PROVE  StartInv'
<1>1. starting \in {"resolving", "readying"}
  BY DEF StartInv, TypeOK
<1>2. QED
  BY <1>1 DEF StartInv, AtMostOnePresent, NobodyBeforeStart, StartHoldsChild

LEMMA RequestKeepsOne ==
  ASSUME StartInv, NEW r \in Requests, RequestStep(r)
  PROVE  StartInv'
<1>1. TypeOK'
  BY RequestTypes DEF StartInv
<1>2. CASE Timeout(r) \/ WriteFails(r)
  <2>1. Present' = Present
    BY <1>2 DEF Timeout, WriteFails, processes, Present
  <2>2. QED
    BY <1>1, <1>2, <2>1, QuietStep DEF Timeout, WriteFails
<1>3. CASE Request(r)
  <2>1. Present' = Present /\ child' = child /\ disposed' = disposed
    BY <1>3 DEF Request, Present
  <2>2. CASE starting' = starting
    BY <1>1, <2>1, <2>2, QuietStep
  <2>3. CASE starting' # starting
    <3>1. starting = "no" /\ starting' = "resolving" /\ child = 0 /\ ~disposed
      BY <1>3, <2>3 DEF Request, SendAtOnce, AwaitStart
    <3>2. Present = {}
      BY <3>1 DEF StartInv, NobodyBeforeStart
    <3>3. QED
      BY <1>1, <2>1, <3>1, <3>2 DEF StartInv, AtMostOnePresent, NobodyBeforeStart, StartHoldsChild
  <2>4. QED
    BY <2>2, <2>3
<1>4. QED
  BY <1>2, <1>3 DEF RequestStep

LEMMA StartKeepsOne ==
  ASSUME StartInv, StartStep
  PROVE  StartInv'
<1>1. TypeOK'
  BY StartTypes DEF StartInv
<1>2. CASE Spawn
  <2>1. PICK h \in Unused : child' = h /\ helpers' = [helpers EXCEPT ![h] = "booting"]
    BY <1>2 DEF Spawn
  <2>2. Present = {} /\ starting' = "readying"
    BY <1>2 DEF Spawn, StartInv, NobodyBeforeStart
  <2>3. Present' = {h} /\ child' # 0
    BY <2>1, <2>2 DEF Present, StartInv, TypeOK, Unused, Helpers
  <2>4. QED
    BY <1>1, <2>2, <2>3 DEF StartInv, AtMostOnePresent, NobodyBeforeStart, StartHoldsChild
<1>3. CASE ResolveCommandFails \/ StartupTimeout
  <2>1. Present' = Present
    BY <1>3 DEF ResolveCommandFails, StartupTimeout, processes, Present
  <2>2. starting # "no" /\ starting' = "no" /\ child' = child /\ disposed' = disposed
    BY <1>3 DEF ResolveCommandFails, StartupTimeout, StartFails
  <2>3. QED
    BY <1>1, <2>1, <2>2, StartEnds
<1>4. CASE Dispose
  <2>1. Present' = Present /\ starting' = starting /\ disposed'
    BY <1>4 DEF Dispose, processes, Present
  <2>2. QED
    BY <1>1, <2>1 DEF StartInv, AtMostOnePresent, NobodyBeforeStart, StartHoldsChild
<1>5. QED
  BY <1>2, <1>3, <1>4 DEF StartStep

LEMMA HelperKeepsOne ==
  ASSUME StartInv, NEW h \in Helpers, HelperStep(h)
  PROVE  StartInv'
<1>1. TypeOK /\ TypeOK'
  BY HelperTypes DEF StartInv
<1>2. CASE SpawnError(h)
  <2>1. Present' \subseteq Present
    BY <1>1, <1>2 DEF SpawnError, Present, TypeOK
  <2>2. child' = child /\ disposed' = disposed
    BY <1>2 DEF SpawnError
  <2>3. starting' = starting \/ (starting # "no" /\ starting' = "no")
    BY <1>2 DEF SpawnError, StartFails
  <2>4. QED
    BY <1>1, <2>1, <2>2, <2>3, QuietStep, StartEnds
<1>3. CASE TakeLine(h)
  <2>1. Present' = Present /\ child' = child /\ disposed' = disposed
    BY <1>3 DEF TakeLine, Present
  <2>2. starting' = starting \/ (starting # "no" /\ starting' = "no")
    BY <1>3 DEF TakeLine, Ready
  <2>3. QED
    BY <1>1, <2>1, <2>2, QuietStep, StartEnds
<1>4. CASE Exit(h)
  <2>1. h \in Present /\ h \notin Present'
    BY <1>1, <1>4 DEF Exit, Present, TypeOK
  <2>2. Present' \subseteq Present
    BY <1>1, <1>4 DEF Exit, Present, TypeOK
  <2>3. Present' = {}
    BY <2>1, <2>2 DEF StartInv, AtMostOnePresent
  <2>4. starting' # "readying"
    BY <1>4 DEF Exit
  <2>5. QED
    BY <1>1, <2>3, <2>4 DEF StartInv, AtMostOnePresent, NobodyBeforeStart, StartHoldsChild
<1>5. CASE HelperReady(h) \/ HelperServes(h) \/ HelperDies(h)
  <2>1. Present' \subseteq Present
    BY <1>1, <1>5 DEF HelperReady, HelperServes, HelperDies, Present, Alive, TypeOK
  <2>2. QED
    BY <1>1, <1>5, <2>1, QuietStep DEF HelperReady, HelperServes, HelperDies, bridge
<1>6. QED
  BY <1>2, <1>3, <1>4, <1>5 DEF HelperStep

LEMMA StartInvStep ==
  ASSUME StartInv, [Next]_vars
  PROVE  StartInv'
<1>1. CASE Next
  <2>1. CASE \E r \in Requests : RequestStep(r)
    BY <2>1, RequestKeepsOne
  <2>2. CASE \E h \in Helpers : HelperStep(h)
    BY <2>2, HelperKeepsOne
  <2>3. QED
    BY <1>1, <2>1, <2>2, StartKeepsOne, NextByParts
<1>2. CASE UNCHANGED vars
  <2>1. TypeOK' /\ Present' = Present
    BY <1>2, TypesStep DEF StartInv, vars, processes, Present
  <2>2. QED
    BY <1>2, <2>1, QuietStep DEF vars, bridge
<1>3. QED
  BY <1>1, <1>2

LEMMA OnePresentIsOneHelper == StartInv => OneHelper
<1>1. SUFFICES ASSUME StartInv PROVE Cardinality(Alive) <= 1
  BY DEF OneHelper
<1>2. Alive \subseteq Present
  BY DEF Alive, Present
<1>3. CASE Alive = {}
  BY <1>3, FS_EmptySet
<1>4. CASE Alive # {}
  <2>1. PICK h \in Alive : Alive = {h}
    BY <1>1, <1>2, <1>4 DEF StartInv, AtMostOnePresent
  <2>2. Cardinality(Alive) = 1
    BY <2>1, FS_Singleton, Zenon
  <2>3. QED
    BY <2>2
<1>5. QED
  BY <1>3, <1>4

(***************************************************************************)
(* There is never a second helper, for any number of requests: ensured by  *)
(* the start promise of process-bridge.ts, which every request shares, and *)
(* by letting go of a process only when its exit is heard.                 *)
(***************************************************************************)
THEOREM SingleHelper == Spec => []OneHelper
<1>1. QED
  BY StartInvInit, StartInvStep, OnePresentIsOneHelper, PTL DEF Spec

-----------------------------------------------------------------------------
(* The ledger *)

Sent(r) == phase[r] \notin {"idle", "waiting"}

(* What a helper has not read yet was sent, has not been carried out, and was written once. *)
StdinIsNew ==
  \A h \in Helpers : \A n \in 1..Len(stdin[h]) : Sent(stdin[h][n]) /\ stdin[h][n] \notin performed
StdinIsDistinct ==
  \A g, h \in Helpers : \A m \in 1..Len(stdin[g]), n \in 1..Len(stdin[h]) :
    stdin[g][m] = stdin[h][n] => g = h /\ m = n

PerformedWasSent == \A r \in performed : Sent(r)

RepliesArePerformed ==
  \A h \in Helpers : \A n \in 1..Len(stdout[h]) : stdout[h][n] \in Requests => stdout[h][n] \in performed

LedgerInv ==
  TypeOK /\ StdinIsNew /\ StdinIsDistinct /\ PerformedWasSent /\ RepliesArePerformed

LEMMA LedgerInvInit == Init => LedgerInv
<1>1. SUFFICES ASSUME Init PROVE LedgerInv
  OBVIOUS
<1>2. \A h \in Helpers : Len(stdin[h]) = 0 /\ Len(stdout[h]) = 0
  BY <1>1 DEF Init
<1>3. QED
  BY <1>1, <1>2, TypesInit
     DEF Init, LedgerInv, StdinIsNew, StdinIsDistinct, PerformedWasSent, RepliesArePerformed

(* A step that writes nothing, though it may empty the input of a process that died. *)
LEMMA NothingWritten ==
  ASSUME LedgerInv, TypeOK', RepliesArePerformed', performed' = performed,
         \A h \in Helpers : stdin'[h] \in {stdin[h], <<>>},
         \A r \in Requests : Sent(r) => Sent(r)'
  PROVE  LedgerInv'
<1>1. \A h \in Helpers : \A n \in 1..Len(stdin'[h]) : n \in 1..Len(stdin[h]) /\ stdin'[h][n] = stdin[h][n]
  <2>1. SUFFICES ASSUME NEW h \in Helpers, NEW n \in 1..Len(stdin'[h])
                 PROVE  n \in 1..Len(stdin[h]) /\ stdin'[h][n] = stdin[h][n]
    OBVIOUS
  <2>2. stdin'[h] # <<>>
    BY <2>1
  <2>3. QED
    BY <2>1, <2>2
<1>2. \A h \in Helpers : \A n \in 1..Len(stdin[h]) : stdin[h][n] \in Requests
  BY DEF LedgerInv, TypeOK
<1>3. StdinIsNew'
  BY <1>1, <1>2 DEF LedgerInv, StdinIsNew
<1>4. StdinIsDistinct'
  BY <1>1 DEF LedgerInv, StdinIsDistinct
<1>5. PerformedWasSent'
  BY DEF LedgerInv, TypeOK, PerformedWasSent
<1>6. QED
  BY <1>3, <1>4, <1>5 DEF LedgerInv

(* A step that writes requests which were not sent before, each of them once. *)
LEMMA RequestsWritten ==
  ASSUME LedgerInv, TypeOK', RepliesArePerformed', performed' = performed,
         NEW h \in Helpers, NEW line \in Seq(Requests), stdin' = Written(h, line),
         \A i, j \in 1..Len(line) : line[i] = line[j] => i = j,
         \A i \in 1..Len(line) : ~Sent(line[i]) /\ Sent(line[i])',
         \A r \in Requests : Sent(r) => Sent(r)'
  PROVE  LedgerInv'
<1>1. CASE h \notin Alive
  BY <1>1, NothingWritten DEF Written
<1>2. CASE h \in Alive
  <2>1. /\ stdin'[h] = stdin[h] \o line
        /\ \A g \in Helpers \ {h} : stdin'[g] = stdin[g]
    BY <1>2 DEF Written, LedgerInv, TypeOK
  <2>2. stdin[h] \in Seq(Requests) /\ Len(stdin[h]) \in Nat /\ Len(line) \in Nat
    BY DEF LedgerInv, TypeOK
  <2>3. /\ Len(stdin'[h]) = Len(stdin[h]) + Len(line)
        /\ \A n \in 1..Len(stdin'[h]) :
             stdin'[h][n] = IF n <= Len(stdin[h]) THEN stdin[h][n] ELSE line[n - Len(stdin[h])]
    BY <2>1, <2>2, ConcatProperties
  <2>4. \A g \in Helpers : \A n \in 1..Len(stdin[g]) :
          stdin[g][n] \in Requests /\ Sent(stdin[g][n]) /\ stdin[g][n] \notin performed
    BY DEF LedgerInv, TypeOK, StdinIsNew
  <2>5. \A i \in 1..Len(line) : line[i] \notin performed
    BY DEF LedgerInv, PerformedWasSent
  <2>6. \A n \in 1..Len(stdin'[h]) :
          \/ n \in 1..Len(stdin[h]) /\ stdin'[h][n] = stdin[h][n]
          \/ \E i \in 1..Len(line) : n = Len(stdin[h]) + i /\ stdin'[h][n] = line[i]
    <3>1. SUFFICES ASSUME NEW n \in 1..Len(stdin'[h])
                   PROVE  \/ n \in 1..Len(stdin[h]) /\ stdin'[h][n] = stdin[h][n]
                          \/ \E i \in 1..Len(line) :
                               n = Len(stdin[h]) + i /\ stdin'[h][n] = line[i]
      OBVIOUS
    <3>2. /\ n \in Nat /\ 1 <= n /\ n <= Len(stdin[h]) + Len(line)
          /\ stdin'[h][n] = IF n <= Len(stdin[h]) THEN stdin[h][n] ELSE line[n - Len(stdin[h])]
      BY <2>2, <2>3
    <3>3. CASE n <= Len(stdin[h])
      BY <2>2, <3>2, <3>3
    <3>4. CASE ~(n <= Len(stdin[h]))
      <4> DEFINE i == n - Len(stdin[h])
      <4>1. i \in 1..Len(line) /\ n = Len(stdin[h]) + i
        BY <2>2, <3>2, <3>4
      <4>2. stdin'[h][n] = line[i]
        BY <3>2, <3>4
      <4>3. QED
        BY <4>1, <4>2
    <3>5. QED
      BY <3>3, <3>4
  <2>7. StdinIsNew'
    <3>1. ASSUME NEW g \in Helpers, NEW n \in 1..Len(stdin'[g])
          PROVE  phase'[stdin'[g][n]] \notin {"idle", "waiting"} /\ stdin'[g][n] \notin performed
      <4>1. CASE g # h
        BY <2>1, <2>4, <4>1 DEF Sent
      <4>2. CASE g = h
        <5>1. CASE n \in 1..Len(stdin[h]) /\ stdin'[h][n] = stdin[h][n]
          BY <2>4, <4>2, <5>1 DEF Sent
        <5>2. CASE \E i \in 1..Len(line) : stdin'[h][n] = line[i]
          BY <2>5, <4>2, <5>2 DEF Sent
        <5>3. QED
          BY <2>6, <3>1, <4>2, <5>1, <5>2
      <4>3. QED
        BY <4>1, <4>2
    <3>2. QED
      BY <3>1 DEF StdinIsNew, Sent
  <2>8. StdinIsDistinct'
    <3>1. ASSUME NEW f \in Helpers, NEW g \in Helpers, NEW m \in 1..Len(stdin'[f]),
                 NEW n \in 1..Len(stdin'[g]), stdin'[f][m] = stdin'[g][n]
          PROVE  f = g /\ m = n
      <4> DEFINE Old(p, k) == k \in 1..Len(stdin[p]) /\ stdin'[p][k] = stdin[p][k]
                 New(p, k) == p = h /\ \E i \in 1..Len(line) :
                                         k = Len(stdin[h]) + i /\ stdin'[p][k] = line[i]
      <4>1. ASSUME NEW p \in Helpers, NEW k \in 1..Len(stdin'[p])
            PROVE  Old(p, k) \/ New(p, k)
        <5>1. CASE p = h
          BY <2>6, <5>1
        <5>2. CASE p # h
          BY <2>1, <5>2
        <5>3. QED
          BY <5>1, <5>2
      <4>2. CASE Old(f, m) /\ Old(g, n)
        <5>1. /\ m \in 1..Len(stdin[f]) /\ n \in 1..Len(stdin[g])
              /\ stdin[f][m] = stdin[g][n]
          BY <3>1, <4>2
        <5>2. QED
          BY <5>1 DEF LedgerInv, StdinIsDistinct
      <4>3. ASSUME NEW p \in Helpers, NEW k \in 1..Len(stdin[p]), NEW i \in 1..Len(line)
            PROVE  stdin[p][k] # line[i]
        BY <2>4
      <4>4. CASE New(f, m) /\ New(g, n)
        BY <3>1, <4>4
      <4>5. CASE Old(f, m) /\ New(g, n)
        BY <3>1, <4>3, <4>5
      <4>6. CASE New(f, m) /\ Old(g, n)
        BY <3>1, <4>3, <4>6
      <4>7. (Old(f, m) \/ New(f, m)) /\ (Old(g, n) \/ New(g, n))
        BY <4>1
      <4>8. QED
        BY <4>2, <4>4, <4>5, <4>6, <4>7
    <3>2. QED
      BY <3>1 DEF StdinIsDistinct
  <2>9. PerformedWasSent'
    BY DEF LedgerInv, TypeOK, PerformedWasSent
  <2>10. QED
    BY <2>7, <2>8, <2>9 DEF LedgerInv
<1>3. QED
  BY <1>1, <1>2

(* Replies under way stay replies to what was performed. *)
LEMMA RepliesKept ==
  ASSUME LedgerInv, TypeOK', performed \subseteq performed', NEW h \in Helpers,
         \A g \in Helpers \ {h} : stdout'[g] = stdout[g],
         \A n \in 1..Len(stdout'[h]) : stdout'[h][n] \in Requests =>
           \/ stdout'[h][n] \in performed'
           \/ \E m \in 1..Len(stdout[h]) : stdout'[h][n] = stdout[h][m]
  PROVE  RepliesArePerformed'
<1>1. ASSUME NEW g \in Helpers, NEW n \in 1..Len(stdout'[g]), stdout'[g][n] \in Requests
      PROVE  stdout'[g][n] \in performed'
  <2>1. CASE g = h
    BY <1>1, <2>1 DEF LedgerInv, RepliesArePerformed
  <2>2. CASE g # h
    BY <1>1, <2>2 DEF LedgerInv, RepliesArePerformed
  <2>3. QED
    BY <2>1, <2>2
<1>2. QED
  BY <1>1 DEF RepliesArePerformed

(* A line added to what is under way. *)
LEMMA LineAdded ==
  ASSUME LedgerInv, TypeOK', performed \subseteq performed', NEW h \in Helpers, NEW line \in Lines,
         stdout' = [stdout EXCEPT ![h] = Append(@, line)], line \in Requests => line \in performed'
  PROVE  RepliesArePerformed'
<1>1. stdout[h] \in Seq(Lines) /\ stdout'[h] = Append(stdout[h], line)
  BY DEF LedgerInv, TypeOK
<1>2. /\ Len(stdout'[h]) = Len(stdout[h]) + 1 /\ Len(stdout[h]) \in Nat
      /\ stdout'[h][Len(stdout[h]) + 1] = line
      /\ \A n \in 1..Len(stdout[h]) : stdout'[h][n] = stdout[h][n]
  BY <1>1, AppendProperties
<1>3. ASSUME NEW n \in 1..Len(stdout'[h])
      PROVE  n \in 1..Len(stdout[h]) \/ n = Len(stdout[h]) + 1
  BY <1>2
<1>4. \A g \in Helpers \ {h} : stdout'[g] = stdout[g]
  BY DEF LedgerInv, TypeOK
<1>5. QED
  BY <1>2, <1>3, <1>4, RepliesKept

(* What is left of a sequence, element by element. *)
LEMMA TailIsRest ==
  ASSUME NEW S, NEW s \in Seq(S), s # <<>>
  PROVE  /\ Len(s) \in Nat /\ Len(Tail(s)) = Len(s) - 1
         /\ \A n \in 1..Len(Tail(s)) : Tail(s)[n] = s[n + 1]
<1>1. /\ Len(Tail(s)) = Len(s) - 1
      /\ \A n \in 1..Len(Tail(s)) : Tail(s)[n] = s[n + 1]
  BY HeadTailProperties
<1>2. QED
  BY <1>1

(* A line taken from what is under way. *)
LEMMA LineTaken ==
  ASSUME LedgerInv, TypeOK', performed' = performed, NEW h \in Helpers, stdout[h] # <<>>,
         stdout' = [stdout EXCEPT ![h] = Tail(@)]
  PROVE  RepliesArePerformed'
<1>1. stdout[h] \in Seq(Lines) /\ stdout'[h] = Tail(stdout[h])
  BY DEF LedgerInv, TypeOK
<1>2. /\ Len(stdout[h]) \in Nat /\ Len(stdout'[h]) = Len(stdout[h]) - 1
      /\ \A n \in 1..Len(stdout'[h]) : stdout'[h][n] = stdout[h][n + 1]
  BY <1>1, TailIsRest
<1>3. \A n \in 1..Len(stdout'[h]) : n + 1 \in 1..Len(stdout[h])
  BY <1>2
<1>4. \A g \in Helpers \ {h} : stdout'[g] = stdout[g]
  BY DEF LedgerInv, TypeOK
<1>5. QED
  BY <1>2, <1>3, <1>4, RepliesKept

LEMMA RepliesUnchanged ==
  ASSUME LedgerInv, performed' = performed, stdout' = stdout
  PROVE  RepliesArePerformed'
  BY DEF LedgerInv, RepliesArePerformed

(* What was sent stays sent when requests fail. *)
LEMMA FailedStaysSent ==
  ASSUME TypeOK, NEW some, Failed(some)
  PROVE  \A r \in Requests : Sent(r) => Sent(r)'
  BY DEF TypeOK, Failed, Sent

LEMMA RequestKeepsLedgerInv ==
  ASSUME LedgerInv, NEW r \in Requests, RequestStep(r)
  PROVE  LedgerInv'
<1>1. TypeOK /\ TypeOK'
  BY RequestTypes DEF LedgerInv
<1>2. performed' = performed /\ stdout' = stdout
  BY DEF RequestStep, Request, Timeout, WriteFails, processes
<1>3. RepliesArePerformed'
  BY <1>2, RepliesUnchanged
<1>4. CASE Timeout(r) \/ WriteFails(r) \/ (Request(r) /\ disposed)
  <2>1. Failed({r}) /\ stdin' = stdin
    BY <1>4 DEF Timeout, WriteFails, Request, processes
  <2>2. \A other \in Requests : Sent(other) => Sent(other)'
    BY <1>1, <2>1, FailedStaysSent
  <2>3. QED
    BY <1>1, <1>2, <1>3, <2>1, <2>2, NothingWritten
<1>5. CASE Request(r) /\ ~disposed /\ child # 0
  <2>1. /\ phase[r] = "idle" /\ phase' = [phase EXCEPT ![r] = "pending"]
        /\ stdin' = Written(child, <<r>>)
    BY <1>5 DEF Request, SendAtOnce
  <2>2. child \in Helpers /\ <<r>> \in Seq(Requests) /\ Len(<<r>>) = 1 /\ <<r>>[1] = r
    BY <1>1, <1>5 DEF TypeOK
  <2>3. ~Sent(r) /\ Sent(r)'
    BY <1>1, <2>1 DEF Sent, TypeOK
  <2>4. \A other \in Requests : Sent(other) => Sent(other)'
    BY <1>1, <2>1 DEF Sent, TypeOK
  <2>5. \A i \in 1..Len(<<r>>) : <<r>>[i] = r /\ i = 1
    BY <2>2
  <2>6. /\ \A i, j \in 1..Len(<<r>>) : <<r>>[i] = <<r>>[j] => i = j
        /\ \A i \in 1..Len(<<r>>) : ~Sent(<<r>>[i]) /\ Sent(<<r>>[i])'
    BY <2>3, <2>5 DEF Sent
  <2>7. QED
    BY <1>1, <1>2, <1>3, <2>1, <2>2, <2>4, <2>6, RequestsWritten
<1>6. CASE Request(r) /\ ~disposed /\ child = 0
  <2>1. phase[r] = "idle" /\ phase' = [phase EXCEPT ![r] = "waiting"] /\ stdin' = stdin
    BY <1>6 DEF Request, AwaitStart
  <2>2. \A other \in Requests : Sent(other) => Sent(other)'
    BY <1>1, <2>1 DEF Sent, TypeOK
  <2>3. QED
    BY <1>1, <1>2, <1>3, <2>1, <2>2, NothingWritten
<1>7. QED
  BY <1>1, <1>4, <1>5, <1>6 DEF RequestStep, TypeOK

LEMMA StartKeepsLedgerInv ==
  ASSUME LedgerInv, StartStep
  PROVE  LedgerInv'
<1>1. TypeOK /\ TypeOK'
  BY StartTypes DEF LedgerInv
<1>2. performed' = performed /\ stdout' = stdout /\ stdin' = stdin
  BY DEF StartStep, Spawn, ResolveCommandFails, StartupTimeout, Dispose, processes
<1>3. phase' = phase \/ Failed(Waiting)
  BY DEF StartStep, Spawn, ResolveCommandFails, StartupTimeout, Dispose, StartFails
<1>4. \A r \in Requests : Sent(r) => Sent(r)'
  BY <1>1, <1>3, FailedStaysSent DEF Sent
<1>5. QED
  BY <1>1, <1>2, <1>4, RepliesUnchanged, NothingWritten

LEMMA ServingKeepsLedgerInv ==
  ASSUME LedgerInv, NEW h \in Helpers, HelperServes(h)
  PROVE  LedgerInv'
<1> DEFINE taken == Head(stdin[h])
<1>1. TypeOK /\ TypeOK'
  BY HelperTypes DEF LedgerInv, HelperStep
<1>2. /\ stdin[h] # <<>> /\ performed' = performed \cup {taken} /\ phase' = phase
      /\ stdin' = [stdin EXCEPT ![h] = Tail(@)]
      /\ stdout' = [stdout EXCEPT ![h] = Append(@, taken)]
  BY DEF HelperServes, bridge
<1>3. /\ stdin[h] \in Seq(Requests) /\ Len(stdin[h]) \in Nat \ {0}
      /\ taken = stdin[h][1] /\ taken \in Requests
  BY <1>1, <1>2 DEF TypeOK
<1>4. RepliesArePerformed'
  <2>1. taken \in Lines /\ taken \in performed' /\ performed \subseteq performed'
    BY <1>2, <1>3 DEF Lines
  <2>2. QED
    BY <1>1, <1>2, <2>1, LineAdded
<1>5. /\ stdin'[h] = Tail(stdin[h])
      /\ \A g \in Helpers \ {h} : stdin'[g] = stdin[g]
  BY <1>1, <1>2 DEF TypeOK
<1>6. /\ Len(stdin'[h]) = Len(stdin[h]) - 1
      /\ \A n \in 1..Len(stdin'[h]) : stdin'[h][n] = stdin[h][n + 1]
  <2>1. stdin[h] # <<>> /\ stdin[h] \in Seq(Requests) /\ stdin'[h] = Tail(stdin[h])
    BY <1>2, <1>3, <1>5
  <2>2. QED
    BY <2>1, TailIsRest
<1> DEFINE place(g, n) == IF g = h THEN n + 1 ELSE n
<1>7. ASSUME NEW g \in Helpers, NEW n \in 1..Len(stdin'[g])
      PROVE  /\ place(g, n) \in 1..Len(stdin[g])
             /\ stdin'[g][n] = stdin[g][place(g, n)]
             /\ g = h => place(g, n) # 1
  <2>1. CASE g = h
    BY <1>3, <1>6, <2>1
  <2>2. CASE g # h
    BY <1>5, <2>2
  <2>3. QED
    BY <2>1, <2>2
<1>8. StdinIsNew'
  <2>1. ASSUME NEW g \in Helpers, NEW n \in 1..Len(stdin'[g])
        PROVE  phase'[stdin'[g][n]] \notin {"idle", "waiting"} /\ stdin'[g][n] \notin performed'
    <3> DEFINE k == place(g, n)
    <3>1. k \in 1..Len(stdin[g]) /\ stdin'[g][n] = stdin[g][k] /\ (g = h => k # 1)
      BY <1>7
    <3> HIDE DEF k
    <3>2. Sent(stdin[g][k]) /\ stdin[g][k] \notin performed
      BY <3>1 DEF LedgerInv, StdinIsNew
    <3>3. 1 \in 1..Len(stdin[h])
      BY <1>3
    <3>4. stdin[g][k] # stdin[h][1]
      BY <3>1, <3>3 DEF LedgerInv, StdinIsDistinct
    <3>5. QED
      BY <1>2, <1>3, <3>1, <3>2, <3>4 DEF Sent
  <2>2. QED
    BY <2>1 DEF StdinIsNew, Sent
<1>9. StdinIsDistinct'
  <2>1. ASSUME NEW f \in Helpers, NEW g \in Helpers, NEW m \in 1..Len(stdin'[f]),
               NEW n \in 1..Len(stdin'[g]), stdin'[f][m] = stdin'[g][n]
        PROVE  f = g /\ m = n
    <3>1. f = g /\ place(f, m) = place(g, n)
      <4>1. /\ place(f, m) \in 1..Len(stdin[f]) /\ place(g, n) \in 1..Len(stdin[g])
            /\ stdin[f][place(f, m)] = stdin[g][place(g, n)]
        BY <1>7, <2>1
      <4> HIDE DEF place
      <4>2. QED
        BY <4>1 DEF LedgerInv, StdinIsDistinct
    <3>2. QED
      BY <3>1
  <2>2. QED
    BY <2>1 DEF StdinIsDistinct
<1>10. PerformedWasSent'
  <2>1. Sent(taken)
    BY <1>3 DEF LedgerInv, StdinIsNew
  <2>2. QED
    BY <1>2, <2>1 DEF LedgerInv, PerformedWasSent, Sent
<1>11. QED
  BY <1>1, <1>4, <1>8, <1>9, <1>10 DEF LedgerInv

(* The ready line writes the requests that waited, each once, or fails them. *)
LEMMA ReadyKeepsLedgerInv ==
  ASSUME LedgerInv, TypeOK', RepliesArePerformed', Ready, performed' = performed
  PROVE  LedgerInv'
<1>1. TypeOK
  BY DEF LedgerInv
<1>2. CASE starting # "readying"
  <2>1. stdin' = stdin /\ phase' = phase
    BY <1>2 DEF Ready
  <2>2. \A r \in Requests : Sent(r) => Sent(r)'
    BY <2>1 DEF Sent
  <2>3. QED
    BY <2>1, <2>2, NothingWritten
<1>3. CASE starting = "readying" /\ child = 0
  <2>1. stdin' = stdin /\ Failed(Waiting)
    BY <1>3 DEF Ready
  <2>2. \A r \in Requests : Sent(r) => Sent(r)'
    BY <1>1, <2>1, FailedStaysSent
  <2>3. QED
    BY <2>1, <2>2, NothingWritten
<1>4. CASE starting = "readying" /\ child # 0
  <2>1. phase' = [r \in Requests |-> IF r \in Waiting THEN "pending" ELSE phase[r]]
    BY <1>4 DEF Ready
  <2>2. PICK order \in Bijection(1..Cardinality(Waiting), Waiting) : stdin' = Written(child, order)
    BY <1>4 DEF Ready
  <2>3. /\ order \in Seq(Requests)
        /\ \A i \in 1..Len(order) : order[i] \in Waiting
        /\ \A i, j \in 1..Len(order) : order[i] = order[j] => i = j
    BY QueueIsSequence
  <2>4. \A r \in Waiting : ~Sent(r) /\ Sent(r)'
    BY <2>1 DEF Waiting, Sent
  <2>5. \A r \in Requests : Sent(r) => Sent(r)'
    BY <2>1 DEF Sent
  <2>6. \A i \in 1..Len(order) : ~Sent(order[i]) /\ Sent(order[i])'
    <3>1. ASSUME NEW i \in 1..Len(order)
          PROVE  phase[order[i]] \in {"idle", "waiting"} /\ phase'[order[i]] \notin {"idle", "waiting"}
      BY <2>3, <2>4 DEF Sent
    <3>2. QED
      BY <3>1 DEF Sent
  <2>7. child \in Helpers
    BY <1>1, <1>4 DEF TypeOK
  <2>8. QED
    BY <2>2, <2>3, <2>5, <2>6, <2>7, RequestsWritten
<1>5. QED
  BY <1>2, <1>3, <1>4

LEMMA HelperKeepsLedgerInv ==
  ASSUME LedgerInv, NEW h \in Helpers, HelperStep(h)
  PROVE  LedgerInv'
<1>1. TypeOK /\ TypeOK'
  BY HelperTypes DEF LedgerInv
<1>2. CASE SpawnError(h) \/ Exit(h)
  <2>1. performed' = performed /\ stdout' = stdout /\ stdin' = stdin
    BY <1>2 DEF SpawnError, Exit
  <2>2. phase' = phase \/ Failed(Waiting) \/ Failed(ExitFails)
    BY <1>2 DEF SpawnError, Exit, StartFails
  <2>3. \A r \in Requests : Sent(r) => Sent(r)'
    BY <1>1, <2>2, FailedStaysSent DEF Sent
  <2>4. QED
    BY <1>1, <2>1, <2>3, RepliesUnchanged, NothingWritten
<1>3. CASE TakeLine(h)
  <2>1. /\ stdout[h] # <<>> /\ stdout' = [stdout EXCEPT ![h] = Tail(@)]
        /\ performed' = performed
    BY <1>3 DEF TakeLine
  <2>2. RepliesArePerformed'
    BY <1>1, <2>1, LineTaken
  <2>3. CASE Ready
    BY <1>1, <2>1, <2>2, <2>3, ReadyKeepsLedgerInv
  <2>4. CASE (phase' = phase \/ Answer(Head(stdout[h]))) /\ UNCHANGED stdin
    <3>1. \A r \in Requests : Sent(r) => Sent(r)'
      BY <1>1, <2>4 DEF Answer, Sent, TypeOK
    <3>2. QED
      BY <1>1, <2>1, <2>2, <2>4, <3>1, NothingWritten
  <2>5. QED
    BY <1>3, <2>3, <2>4 DEF TakeLine
<1>4. CASE HelperReady(h)
  <2>1. /\ performed' = performed /\ stdin' = stdin /\ phase' = phase
        /\ stdout' = [stdout EXCEPT ![h] = Append(@, "ready")]
    BY <1>4 DEF HelperReady, bridge
  <2>2. "ready" \in Lines /\ "ready" \notin Requests
    BY BridgeAssumption DEF Lines
  <2>3. \A r \in Requests : Sent(r) => Sent(r)'
    BY <2>1 DEF Sent
  <2>4. RepliesArePerformed'
    BY <1>1, <2>1, <2>2, LineAdded
  <2>5. QED
    BY <1>1, <2>1, <2>3, <2>4, NothingWritten
<1>5. CASE HelperServes(h)
  BY <1>5, ServingKeepsLedgerInv
<1>6. CASE HelperDies(h)
  <2>1. /\ performed' = performed /\ stdin' = [stdin EXCEPT ![h] = <<>>] /\ phase' = phase
        /\ stdout' = stdout \/ stdout' = [stdout EXCEPT ![h] = Append(@, "torn")]
    BY <1>6 DEF HelperDies, bridge
  <2>2. "torn" \in Lines /\ "torn" \notin Requests
    BY BridgeAssumption DEF Lines
  <2>3. \A r \in Requests : Sent(r) => Sent(r)'
    BY <2>1 DEF Sent
  <2>4. RepliesArePerformed'
    BY <1>1, <2>1, <2>2, LineAdded, RepliesUnchanged
  <2>5. \A g \in Helpers : stdin'[g] \in {stdin[g], <<>>}
    BY <1>1, <2>1 DEF TypeOK
  <2>6. QED
    BY <1>1, <2>1, <2>3, <2>4, <2>5, NothingWritten
<1>7. QED
  BY <1>2, <1>3, <1>4, <1>5, <1>6 DEF HelperStep

LEMMA LedgerInvStep ==
  ASSUME LedgerInv, [Next]_vars
  PROVE  LedgerInv'
<1>1. CASE Next
  <2>1. CASE \E r \in Requests : RequestStep(r)
    BY <2>1, RequestKeepsLedgerInv
  <2>2. CASE \E h \in Helpers : HelperStep(h)
    BY <2>2, HelperKeepsLedgerInv
  <2>3. QED
    BY <1>1, <2>1, <2>2, StartKeepsLedgerInv, NextByParts
<1>2. CASE UNCHANGED vars
  BY <1>2, TypesStep DEF LedgerInv, vars, bridge, processes, StdinIsNew, StdinIsDistinct,
     PerformedWasSent, RepliesArePerformed, Sent
<1>3. QED
  BY <1>1, <1>2

-----------------------------------------------------------------------------
(* The bridge implements the ledger *)

(* The refinement mapping of Ledger. *)
Settled == [r \in Requests |-> IF phase[r] \in {"answered", "failed"} THEN phase[r] ELSE "not"]

(* A step that settles nothing and performs nothing. *)
LEMMA NothingSettled ==
  ASSUME performed' = performed,
         \A r \in Requests : \/ phase'[r] = phase[r]
                             \/ {phase[r], phase'[r]} \cap {"answered", "failed"} = {}
  PROVE  UNCHANGED <<Settled, performed>>
  BY DEF Settled

(* Requests that were not settled fail. *)
LEMMA FailedIsFail ==
  ASSUME NEW some \in SUBSET Requests, \A r \in some : phase[r] \notin {"answered", "failed"},
         Failed(some), performed' = performed
  PROVE  Ledger!Next
<1>1. Settled' = [r \in Requests |-> IF r \in some THEN "failed" ELSE Settled[r]]
  BY DEF Failed, Settled
<1>2. \A r \in some : Settled[r] = "not"
  BY DEF Settled
<1>3. Ledger!Fail(some)
  BY <1>1, <1>2 DEF Ledger!Fail, Settled
<1>4. QED
  BY <1>3 DEF Ledger!Next

(* A reply to a pending request answers it: what is under way was performed. *)
LEMMA AnswerIsAnswer ==
  ASSUME TypeOK, NEW r \in performed, Answer(r), performed' = performed
  PROVE  [Ledger!Next]_<<Settled, performed>>
<1>1. CASE r \notin Pending
  <2>1. phase' = phase
    BY <1>1 DEF Answer
  <2>2. QED
    BY <2>1, NothingSettled
<1>2. CASE r \in Pending
  <2>1. r \in Requests /\ phase[r] = "pending" /\ phase' = [phase EXCEPT ![r] = "answered"]
    BY <1>2 DEF Pending, Answer
  <2>2. Settled[r] = "not" /\ Settled' = [Settled EXCEPT ![r] = "answered"]
    BY <2>1 DEF Settled, TypeOK
  <2>3. Ledger!Answer(r)
    BY <2>1, <2>2 DEF Ledger!Answer, Settled
  <2>4. QED
    BY <2>1, <2>3 DEF Ledger!Next
<1>3. QED
  BY <1>1, <1>2

LEMMA RequestStepImplements ==
  ASSUME LedgerInv, NEW r \in Requests, RequestStep(r)
  PROVE  [Ledger!Next]_<<Settled, performed>>
<1>1. TypeOK /\ performed' = performed
  BY DEF LedgerInv, RequestStep, Request, Timeout, WriteFails, processes
<1>2. CASE Timeout(r) \/ WriteFails(r) \/ (Request(r) /\ disposed)
  <2>1. Failed({r}) /\ phase[r] \in {"idle", "pending"}
    BY <1>2 DEF Timeout, WriteFails, Request, Pending
  <2>2. \A some \in {r} : phase[some] \notin {"answered", "failed"}
    BY <2>1
  <2>3. QED
    BY <1>1, <2>1, <2>2, FailedIsFail
<1>3. CASE Request(r) /\ ~disposed
  <2>1. /\ phase[r] = "idle"
        /\ phase' = [phase EXCEPT ![r] = "pending"] \/ phase' = [phase EXCEPT ![r] = "waiting"]
    BY <1>3 DEF Request, SendAtOnce, AwaitStart
  <2>2. \A other \in Requests : \/ phase'[other] = phase[other]
                                \/ {phase[other], phase'[other]} \cap {"answered", "failed"} = {}
    BY <1>1, <2>1 DEF TypeOK
  <2>3. QED
    BY <1>1, <2>2, NothingSettled
<1>4. QED
  BY <1>2, <1>3 DEF RequestStep

LEMMA StartStepImplements ==
  ASSUME LedgerInv, StartStep
  PROVE  [Ledger!Next]_<<Settled, performed>>
<1>1. performed' = performed /\ (phase' = phase \/ Failed(Waiting))
  BY DEF StartStep, Spawn, ResolveCommandFails, StartupTimeout, Dispose, StartFails, processes
<1>2. Waiting \in SUBSET Requests /\ \A r \in Waiting : phase[r] \notin {"answered", "failed"}
  BY DEF Waiting
<1>3. QED
  BY <1>1, <1>2, FailedIsFail, NothingSettled

LEMMA HelperStepImplements ==
  ASSUME LedgerInv, NEW h \in Helpers, HelperStep(h)
  PROVE  [Ledger!Next]_<<Settled, performed>>
<1>1. TypeOK
  BY DEF LedgerInv
<1>2. Waiting \in SUBSET Requests /\ \A r \in Waiting : phase[r] \notin {"answered", "failed"}
  BY DEF Waiting
<1>3. CASE SpawnError(h)
  <2>1. performed' = performed /\ (phase' = phase \/ Failed(Waiting))
    BY <1>3 DEF SpawnError, StartFails
  <2>2. QED
    BY <1>2, <2>1, FailedIsFail, NothingSettled
<1>4. CASE Exit(h)
  <2>1. performed' = performed /\ Failed(ExitFails)
    BY <1>4 DEF Exit
  <2>2. ExitFails \in SUBSET Requests /\ \A r \in ExitFails : phase[r] \notin {"answered", "failed"}
    BY DEF ExitFails, Pending, Waiting
  <2>3. QED
    BY <2>1, <2>2, FailedIsFail
<1>5. CASE TakeLine(h)
  <2>1. stdout[h] # <<>> /\ performed' = performed
    BY <1>5 DEF TakeLine
  <2>2. CASE phase' = phase
    BY <2>1, <2>2, NothingSettled
  <2>3. CASE Ready
    <3>1. CASE Failed(Waiting)
      BY <1>2, <2>1, <3>1, FailedIsFail
    <3>2. CASE phase' = [r \in Requests |-> IF r \in Waiting THEN "pending" ELSE phase[r]]
      <4>1. \A r \in Requests : \/ phase'[r] = phase[r]
                                \/ {phase[r], phase'[r]} \cap {"answered", "failed"} = {}
        BY <1>2, <3>2
      <4>2. QED
        BY <2>1, <4>1, NothingSettled
    <3>3. QED
      BY <2>2, <2>3, <3>1, <3>2 DEF Ready
  <2>4. CASE Head(stdout[h]) \notin {"ready", "torn"} /\ Answer(Head(stdout[h]))
    <3>1. /\ stdout[h] \in Seq(Lines) /\ 1 \in 1..Len(stdout[h])
          /\ Head(stdout[h]) = stdout[h][1] /\ Head(stdout[h]) \in Lines
      BY <1>1, <2>1 DEF TypeOK
    <3>2. Head(stdout[h]) \in performed
      BY <2>4, <3>1 DEF Lines, LedgerInv, RepliesArePerformed
    <3>3. QED
      BY <1>1, <2>1, <2>4, <3>2, AnswerIsAnswer
  <2>5. QED
    BY <1>5, <2>2, <2>3, <2>4 DEF TakeLine
<1>6. CASE HelperReady(h) \/ HelperDies(h)
  <2>1. phase' = phase /\ performed' = performed
    BY <1>6 DEF HelperReady, HelperDies, bridge
  <2>2. QED
    BY <2>1, NothingSettled
<1>7. CASE HelperServes(h)
  <2>1. /\ stdin[h] # <<>> /\ phase' = phase
        /\ performed' = performed \cup {Head(stdin[h])}
    BY <1>7 DEF HelperServes, bridge
  <2>2. /\ Head(stdin[h]) \in Requests /\ Head(stdin[h]) = stdin[h][1]
        /\ 1 \in 1..Len(stdin[h])
    BY <1>1, <2>1 DEF TypeOK
  <2>3. Head(stdin[h]) \notin performed
    BY <2>2 DEF LedgerInv, StdinIsNew
  <2>4. Settled' = Settled
    BY <2>1 DEF Settled
  <2>5. Ledger!Perform(Head(stdin[h]))
    BY <2>1, <2>3, <2>4 DEF Ledger!Perform, Settled
  <2>6. QED
    BY <2>2, <2>5 DEF Ledger!Next
<1>8. QED
  BY <1>3, <1>4, <1>5, <1>6, <1>7 DEF HelperStep

LEMMA StepImplements ==
  ASSUME LedgerInv, [Next]_vars
  PROVE  [Ledger!Next]_<<Settled, performed>>
<1>1. CASE Next
  <2>1. CASE \E r \in Requests : RequestStep(r)
    BY <2>1, RequestStepImplements
  <2>2. CASE \E h \in Helpers : HelperStep(h)
    BY <2>2, HelperStepImplements
  <2>3. QED
    BY <1>1, <2>1, <2>2, StartStepImplements, NextByParts
<1>2. CASE UNCHANGED vars
  BY <1>2 DEF vars, bridge, processes, Settled
<1>3. QED
  BY <1>1, <1>2

(***************************************************************************)
(* The bridge implements the ledger: no request is settled twice, carried  *)
(* out twice, or answered with what was not performed for it, whatever     *)
(* order starts, lines, timers, exits and dispose of process-bridge.ts     *)
(* come in.                                                                *)
(***************************************************************************)
THEOREM BridgeKeepsLedger == Spec => KeepsLedger
<1>1. Init => Ledger!Init
  BY DEF Init, Ledger!Init
<1>2. QED
  BY <1>1, LedgerInvInit, LedgerInvStep, StepImplements, PTL DEF Spec, KeepsLedger, Ledger!Spec, Settled

-----------------------------------------------------------------------------
(* No request waits for nothing *)

(* A process of which the bridge has not heard that it is over. *)
NotOver(h) == h \in Helpers /\ helpers[h] \in {"booting", "serving", "failed", "dead"}

(* What the bridge holds is such a process. *)
HoldsNotOver == child # 0 => NotOver(child)

(***************************************************************************)
(* A request that waits for a start has one under way, whose end settles   *)
(* it or passes it on; one that was written is pending at a process whose  *)
(* exit, which fails all that is pending, is still to be heard.            *)
(***************************************************************************)
NobodyAwaitsNothing ==
  \A r \in Requests : /\ phase[r] = "waiting" => starting # "no"
                      /\ phase[r] = "pending" => NotOver(sentTo[r])

AttendedInv == TypeOK /\ HoldsNotOver /\ NobodyAwaitsNothing

LEMMA AttendedInit == Init => AttendedInv
  BY TypesInit DEF Init, AttendedInv, HoldsNotOver, NobodyAwaitsNothing

(* What fails waits no more, and the rest is as it was. *)
LEMMA FailedAttends ==
  ASSUME AttendedInv, NEW some, Failed(some), sentTo' = sentTo, helpers' = helpers,
         starting' = "no" => starting = "no" \/ Waiting \subseteq some
  PROVE  NobodyAwaitsNothing'
<1>1. \A r \in Requests : phase'[r] = IF r \in some THEN "failed" ELSE phase[r]
  BY DEF Failed
<1>2. ASSUME NEW r \in Requests, phase'[r] = "waiting" PROVE starting' # "no"
  <2>1. phase[r] = "waiting" /\ r \notin some
    BY <1>1, <1>2
  <2>2. r \in Waiting /\ starting # "no"
    BY <2>1 DEF Waiting, AttendedInv, NobodyAwaitsNothing
  <2>3. QED
    BY <2>1, <2>2
<1>3. ASSUME NEW r \in Requests, phase'[r] = "pending" PROVE NotOver(sentTo[r])
  BY <1>1, <1>3 DEF AttendedInv, NobodyAwaitsNothing
<1>4. QED
  BY <1>2, <1>3 DEF NobodyAwaitsNothing, NotOver

LEMMA RequestAttends ==
  ASSUME AttendedInv, NEW r \in Requests, RequestStep(r)
  PROVE  HoldsNotOver' /\ NobodyAwaitsNothing'
<1>1. UNCHANGED <<child, helpers>>
  BY DEF RequestStep, Request, Timeout, WriteFails, processes
<1>2. HoldsNotOver'
  BY <1>1 DEF AttendedInv, HoldsNotOver, NotOver
<1>3. CASE Timeout(r) \/ WriteFails(r)
  BY <1>1, <1>2, <1>3, FailedAttends DEF Timeout, WriteFails
<1>4. CASE Request(r) /\ disposed
  BY <1>1, <1>2, <1>4, FailedAttends DEF Request
<1>5. CASE Request(r) /\ ~disposed /\ child # 0
  <2>1. /\ phase' = [phase EXCEPT ![r] = "pending"] /\ sentTo' = [sentTo EXCEPT ![r] = child]
        /\ starting' = starting
    BY <1>5 DEF Request, SendAtOnce
  <2>2. NotOver(child) /\ phase \in [Requests -> {"idle", "waiting", "pending", "answered", "failed"}]
        /\ sentTo \in [Requests -> {0} \cup Helpers]
    BY <1>5 DEF AttendedInv, HoldsNotOver, TypeOK
  <2>3. QED
    BY <1>1, <1>2, <2>1, <2>2 DEF AttendedInv, NobodyAwaitsNothing, NotOver
<1>6. CASE Request(r) /\ ~disposed /\ child = 0
  <2>1. /\ phase' = [phase EXCEPT ![r] = "waiting"] /\ sentTo' = sentTo
        /\ starting' = IF starting = "no" THEN "resolving" ELSE starting
    BY <1>6 DEF Request, AwaitStart
  <2>2. QED
    BY <1>1, <1>2, <2>1 DEF AttendedInv, TypeOK, NobodyAwaitsNothing, NotOver
<1>7. QED
  BY <1>3, <1>4, <1>5, <1>6 DEF RequestStep

LEMMA StartAttends ==
  ASSUME AttendedInv, StartStep
  PROVE  HoldsNotOver' /\ NobodyAwaitsNothing'
<1>1. CASE Spawn
  <2>1. PICK h \in Unused : child' = h /\ helpers' = [helpers EXCEPT ![h] = "booting"]
    BY <1>1 DEF Spawn
  <2>2. /\ helpers'[h] = "booting" /\ h \in Helpers
        /\ \A other \in Helpers \ {h} : helpers'[other] = helpers[other]
    BY <2>1 DEF AttendedInv, TypeOK, Unused
  <2>3. phase' = phase /\ sentTo' = sentTo /\ starting' = "readying"
    BY <1>1 DEF Spawn
  <2>4. QED
    BY <2>1, <2>2, <2>3 DEF AttendedInv, HoldsNotOver, NobodyAwaitsNothing, NotOver
<1>2. CASE ResolveCommandFails \/ StartupTimeout
  <2>1. Failed(Waiting) /\ UNCHANGED <<sentTo, child, helpers>>
    BY <1>2 DEF ResolveCommandFails, StartupTimeout, StartFails, processes
  <2>2. QED
    BY <2>1, FailedAttends DEF AttendedInv, HoldsNotOver, NotOver
<1>3. CASE Dispose
  BY <1>3 DEF Dispose, processes, AttendedInv, HoldsNotOver, NobodyAwaitsNothing, NotOver
<1>4. QED
  BY <1>1, <1>2, <1>3 DEF StartStep

(* The ready line passes the requests on to the process that is held, or fails them. *)
LEMMA ReadyAttends ==
  ASSUME AttendedInv, Ready, UNCHANGED <<child, helpers>>
  PROVE  NobodyAwaitsNothing'
<1>1. CASE starting = "readying" /\ child = 0
  BY <1>1, FailedAttends DEF Ready
<1>2. CASE starting = "readying" /\ child # 0
  <2>1. /\ \A r \in Requests : phase'[r] = IF r \in Waiting THEN "pending" ELSE phase[r]
        /\ \A r \in Requests : sentTo'[r] = IF r \in Waiting THEN child ELSE sentTo[r]
    BY <1>2 DEF Ready
  <2>2. NotOver(child)
    BY <1>2 DEF AttendedInv, HoldsNotOver
  <2>3. QED
    BY <2>1, <2>2 DEF AttendedInv, NobodyAwaitsNothing, NotOver, Waiting
<1>3. CASE starting # "readying"
  BY <1>3 DEF Ready, AttendedInv, NobodyAwaitsNothing, NotOver
<1>4. QED
  BY <1>1, <1>2, <1>3

LEMMA LineAttends ==
  ASSUME AttendedInv, NEW h \in Helpers, TakeLine(h)
  PROVE  HoldsNotOver' /\ NobodyAwaitsNothing'
<1>1. UNCHANGED <<child, helpers>>
  BY DEF TakeLine
<1>2. HoldsNotOver'
  BY <1>1 DEF AttendedInv, HoldsNotOver, NotOver
<1>3. \/ Ready
      \/ UNCHANGED <<starting, phase, sentTo>>
      \/ \E r : Answer(r) /\ UNCHANGED <<starting, sentTo>>
  BY DEF TakeLine
<1>4. CASE UNCHANGED <<starting, phase, sentTo>>
  BY <1>1, <1>2, <1>4 DEF AttendedInv, NobodyAwaitsNothing, NotOver
<1>5. ASSUME NEW r, Answer(r), UNCHANGED <<starting, sentTo>>
      PROVE  NobodyAwaitsNothing'
  <2>1. \A other \in Requests : phase'[other] \in {phase[other], "answered"}
    BY <1>5 DEF Answer, AttendedInv, TypeOK
  <2>2. QED
    BY <1>1, <1>5, <2>1 DEF AttendedInv, NobodyAwaitsNothing, NotOver
<1>6. QED
  BY <1>1, <1>2, <1>3, <1>4, <1>5, ReadyAttends

LEMMA HelperAttends ==
  ASSUME AttendedInv, NEW h \in Helpers, HelperStep(h)
  PROVE  HoldsNotOver' /\ NobodyAwaitsNothing'
<1>1. helpers \in [Helpers -> {"none", "booting", "serving", "failed", "dead", "exited"}]
  BY DEF AttendedInv, TypeOK
<1>2. CASE SpawnError(h)
  <2>1. /\ helpers' = [helpers EXCEPT ![h] = "failed"] /\ helpers[h] = "booting"
        /\ child' = child /\ sentTo' = sentTo
    BY <1>2 DEF SpawnError
  <2>2. \A other : NotOver(other) => NotOver(other)'
    BY <1>1, <2>1 DEF NotOver
  <2>3. HoldsNotOver'
    BY <2>1, <2>2 DEF AttendedInv, HoldsNotOver, NotOver
  <2>4. \/ UNCHANGED <<starting, phase>>
        \/ \A r \in Requests : phase'[r] = IF r \in Waiting THEN "failed" ELSE phase[r]
    BY <1>2 DEF SpawnError, StartFails, Failed
  <2>5. NobodyAwaitsNothing'
    BY <2>1, <2>2, <2>4 DEF AttendedInv, NobodyAwaitsNothing, NotOver, Waiting
  <2>6. QED
    BY <2>3, <2>5
<1>3. CASE Exit(h)
  <2>1. child' = 0 /\ Failed(ExitFails)
    BY <1>3 DEF Exit
  <2>2. starting' = IF starting = "readying" THEN "no" ELSE starting
    BY <1>3 DEF Exit
  <2>3. ASSUME NEW r \in Requests
        PROVE  /\ phase'[r] # "pending"
               /\ phase'[r] = "waiting" => phase[r] = "waiting" /\ starting # "readying"
    BY <2>1 DEF Failed, ExitFails, Pending, Waiting
  <2>4. NobodyAwaitsNothing'
    BY <2>2, <2>3 DEF AttendedInv, NobodyAwaitsNothing
  <2>5. QED
    BY <2>1, <2>4 DEF HoldsNotOver
<1>4. CASE HelperReady(h) \/ HelperServes(h) \/ HelperDies(h)
  <2>1. UNCHANGED <<phase, sentTo, starting, child>>
    BY <1>4 DEF HelperReady, HelperServes, HelperDies, bridge
  <2>2. \/ helpers' = helpers
        \/ \E state \in {"serving", "dead"} : helpers' = [helpers EXCEPT ![h] = state]
    BY <1>4 DEF HelperReady, HelperServes, HelperDies
  <2>3. \A other : NotOver(other) => NotOver(other)'
    BY <1>1, <2>2 DEF NotOver
  <2>4. QED
    BY <2>1, <2>3 DEF AttendedInv, HoldsNotOver, NobodyAwaitsNothing, NotOver
<1>5. QED
  BY <1>2, <1>3, <1>4, LineAttends DEF HelperStep

LEMMA AttendedStep ==
  ASSUME AttendedInv, [Next]_vars
  PROVE  AttendedInv'
<1>1. TypeOK'
  BY TypesStep DEF AttendedInv
<1>2. CASE Next
  <2>1. CASE \E r \in Requests : RequestStep(r)
    BY <1>1, <2>1, RequestAttends DEF AttendedInv
  <2>2. CASE \E h \in Helpers : HelperStep(h)
    BY <1>1, <2>2, HelperAttends DEF AttendedInv
  <2>3. CASE StartStep
    BY <1>1, <2>3, StartAttends DEF AttendedInv
  <2>4. QED
    BY <1>2, <2>1, <2>2, <2>3, NextByParts
<1>3. CASE UNCHANGED vars
  BY <1>1, <1>3 DEF vars, bridge, processes, AttendedInv, HoldsNotOver, NobodyAwaitsNothing, NotOver
<1>4. QED
  BY <1>2, <1>3

(***************************************************************************)
(* The safety half of RequestsConclude: when an exit of process-bridge.ts  *)
(* is heard, a start fails or times out, or dispose comes between, nothing *)
(* is left behind in waiting for a start that is not under way or for an   *)
(* answer of a process known to be gone.                                   *)
(***************************************************************************)
THEOREM NoRequestIsForgotten == Spec => []NobodyAwaitsNothing
<1>1. AttendedInv => NobodyAwaitsNothing
  BY DEF AttendedInv
<1>2. QED
  BY <1>1, AttendedInit, AttendedStep, PTL DEF Spec
=============================================================================
