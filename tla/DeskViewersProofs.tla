------------------------- MODULE DeskViewersProofs -------------------------
(***************************************************************************)
(* Proofs about DeskConfig and DeskViewers.                                *)
(***************************************************************************)
EXTENDS DeskViewers, FunctionTheorems, FiniteSetTheorems, SequenceTheorems,
        WellFoundedInduction, TLAPS

-----------------------------------------------------------------------------
(* Numbers and finite sets *)

Smaller == {pair \in Nat \X Nat : pair[1] < pair[2]}

(* A property that fails for some number fails for a least one. *)
LEMMA LeastOf ==
  ASSUME NEW S, S \subseteq Nat, S # {}
  PROVE  \E n \in S : \A m \in S : n <= m
<1>1. IsWellFoundedOn(Smaller, Nat)
  BY NatLessThanWellFounded DEF OpToRel, Smaller
<1>2. PICK n \in S : \A m \in S : <<m, n>> \notin Smaller
  BY <1>1, WFMin
<1>3. ASSUME NEW m \in S PROVE n <= m
  <2>1. m \in Nat /\ n \in Nat /\ <<m, n>> \notin Smaller
    BY <1>2
  <2>2. ~(m < n)
    BY <2>1 DEF Smaller
  <2> QED BY <2>1, <2>2
<1> QED BY <1>3

(* Some finite set of numbers without a highest one would be the smallest: less one element it has one. *)
LEMMA HighestExists ==
  ASSUME NEW S, S \subseteq Nat, S # {}, IsFiniteSet(S)
  PROVE  \E n \in S : \A m \in S : m <= n
<1> DEFINE Topped(T) == \E n \in T : \A m \in T : m <= n
           Flat == {T \in SUBSET S : T # {} /\ ~Topped(T)}
           Sizes == {Cardinality(T) : T \in Flat}
<1>1. \A T \in SUBSET S : IsFiniteSet(T) /\ Cardinality(T) \in Nat
  BY FS_Subset, FS_CardinalityType
<1>2. SUFFICES ASSUME Flat # {} PROVE FALSE
  OBVIOUS
<1>3. Sizes \subseteq Nat /\ Sizes # {}
  BY <1>1, <1>2
<1>4. PICK T \in Flat : \A U \in Flat : Cardinality(T) <= Cardinality(U)
  <2>1. PICK n \in Sizes : \A m \in Sizes : n <= m
    BY <1>3, LeastOf
  <2> QED BY <2>1
<1>5. PICK a \in T : TRUE
  BY <1>4
<1>6. IsFiniteSet(T) /\ Cardinality(T) \in Nat /\ T \subseteq Nat /\ a \in Nat
  BY <1>1, <1>4, <1>5
<1> DEFINE U == T \ {a}
<1>7. Cardinality(U) = Cardinality(T) - 1 /\ U \in SUBSET S
  BY <1>5, <1>6, FS_RemoveElement
<1> HIDE DEF Flat, U
<1>8. U \notin Flat
  <2>1. ~(Cardinality(T) <= Cardinality(U))
    BY <1>6, <1>7
  <2> QED BY <2>1, <1>4
<1> USE DEF Flat, U
<1>9. CASE U = {}
  <2>1. T = {a}
    BY <1>5, <1>9
  <2> QED BY <2>1, <1>4, <1>6
<1>10. CASE U # {}
  <2>1. PICK n \in U : \A m \in U : m <= n
    BY <1>7, <1>8, <1>10
  <2>2. n \in T /\ n \in Nat /\ T = U \cup {a}
    BY <1>5, <1>6, <2>1
  <2>3. CASE a <= n
    <3>1. Topped(T)
      BY <2>1, <2>2, <2>3
    <3> QED BY <3>1, <1>4
  <2>4. CASE ~(a <= n)
    <3>1. n <= a
      BY <2>2, <2>4, <1>6
    <3>2. \A m \in T : m <= a
      <4> SUFFICES ASSUME NEW m \in T PROVE m <= a
        OBVIOUS
      <4>1. m \in Nat /\ (m = a \/ m <= n)
        BY <2>1, <2>2, <1>6
      <4> QED BY <4>1, <3>1, <2>2, <1>6
    <3>3. Topped(T)
      BY <3>2, <1>5
    <3> QED BY <3>3, <1>4
  <2> QED BY <2>3, <2>4
<1> QED BY <1>9, <1>10

(* So what Highest chooses is there, and is the highest. *)
LEMMA HighestIs ==
  ASSUME NEW S, S \subseteq Nat, S # {}, IsFiniteSet(S)
  PROVE  Highest(S) \in S /\ \A m \in S : m <= Highest(S)
<1>1. \E n \in S : \A m \in S : m <= n
  BY HighestExists
<1> QED BY <1>1 DEF Highest

(* The images of finitely many are finitely many. *)
LEMMA ImagesAreFinite ==
  ASSUME NEW S, IsFiniteSet(S), NEW f
  PROVE  IsFiniteSet({f[x] : x \in S})
<1> DEFINE T == {f[x] : x \in S}
           g == [x \in S |-> f[x]]
<1>1. g \in Surjection(S, T)
  BY DEF Surjection
<1> QED BY <1>1, FS_Surjection

-----------------------------------------------------------------------------
(* The fold over reports *)

(* The largest of some positions, as the fold takes them. *)
LEMMA MaxIsThere ==
  ASSUME NEW n \in Nat, NEW S \in SUBSET (1..n), S # {}
  PROVE  Max(S) \in S /\ \A m \in S : Max(S) >= m
<1>1. IsFiniteSet(S) /\ S \subseteq Nat
  <2>1. IsFiniteSet(1..n) /\ 1..n \subseteq Nat
    BY FS_Interval
  <2> QED BY <2>1, FS_Subset
<1>2. PICK k \in S : \A m \in S : m <= k
  BY <1>1, HighestExists
<1>3. \A m \in S : k >= m
  BY <1>1, <1>2
<1> QED BY <1>3 DEF Max

(* One step of the fold: what positions give, from what one position less gives. *)
StepOf(g, base, s, S) ==
  IF S = {} THEN base ELSE EnsurePlacement(g[S \ {Max(S)}], s[Max(S)])

Folding(base, s) == CHOOSE g : g = [S \in SUBSET (DOMAIN s) |-> StepOf(g, base, s, S)]

LEMMA FoldIsFolding ==
  ASSUME NEW base, NEW s \in Seq(Monitors)
  PROVE  FoldLeft(EnsurePlacement, base, s) = Folding(base, s)[DOMAIN s]
BY DEF FoldLeft, MapThenFoldSet, Folding, StepOf

(* There is such a function: it is built position by position. *)
LEMMA FoldingExists ==
  ASSUME NEW base, NEW s \in Seq(Monitors)
  PROVE  \E g : g = [S \in SUBSET (DOMAIN s) |-> StepOf(g, base, s, S)]
<1> DEFINE D == SUBSET (DOMAIN s)
           Upto(g, k) == /\ g = [S \in D |-> g[S]]
                         /\ \A S \in SUBSET (1..k) : g[S] = StepOf(g, base, s, S)
           Bad == {k \in 0..Len(s) : ~\E g : Upto(g, k)}
<1>1. DOMAIN s = 1..Len(s) /\ Len(s) \in Nat
  OBVIOUS
<1>2. 0 \notin Bad
  <2> DEFINE g == [S \in D |-> base]
  <2>1. \A S \in SUBSET (1..0) : S = {}
    OBVIOUS
  <2>2. {} \in D
    OBVIOUS
  <2>3. Upto(g, 0)
    BY <2>1, <2>2 DEF StepOf
  <2> HIDE DEF Upto
  <2> QED BY <2>3
<1>3. ASSUME NEW k \in 0..Len(s), k # Len(s), k \notin Bad PROVE k + 1 \notin Bad
  <2>1. PICK g : Upto(g, k)
    BY <1>3
  <2> DEFINE h == [S \in D |-> IF S \subseteq 1..k THEN g[S] ELSE StepOf(g, base, s, S)]
  <2>2. h = [S \in D |-> h[S]]
    OBVIOUS
  <2>3. ASSUME NEW S \in SUBSET (1..(k + 1)) PROVE h[S] = StepOf(h, base, s, S)
    <3>1. S \in D /\ k \in Nat
      BY <1>1, <1>3
    <3>2. CASE S = {}
      <4>1. S \in SUBSET (1..k)
        BY <3>2
      <4> QED BY <2>1, <3>1, <3>2, <4>1 DEF StepOf
    <3>3. CASE S # {}
      <4> DEFINE top == Max(S)
                 R == S \ {top}
      <4>1. top \in S /\ \A m \in S : top >= m
        <5>1. k + 1 \in Nat
          BY <3>1
        <5> QED BY <5>1, <3>3, MaxIsThere
      <4>2. R \in SUBSET (1..k) /\ R \in D
        <5> SUFFICES ASSUME NEW m \in S, m # top PROVE m \in 1..k
          BY <3>1
        <5>1. top >= m /\ top \in 1..(k + 1) /\ m \in 1..(k + 1)
          BY <4>1
        <5> QED BY <5>1, <3>1
      <4>3. h[R] = g[R]
        BY <4>2
      <4>4. StepOf(h, base, s, S) = StepOf(g, base, s, S)
        BY <3>3, <4>3 DEF StepOf
      <4>5. h[S] = StepOf(g, base, s, S)
        BY <3>1, <2>1
      <4> QED BY <4>4, <4>5
    <3> QED BY <3>2, <3>3
  <2>4. Upto(h, k + 1)
    BY <2>2, <2>3
  <2> HIDE DEF Upto, h
  <2> QED BY <2>4
<1>4. Bad = {}
  <2> HIDE DEF Upto
  <2>1. SUFFICES ASSUME Bad # {} PROVE FALSE
    OBVIOUS
  <2>2. Bad \subseteq Nat
    BY <1>1
  <2> HIDE DEF Bad
  <2>3. PICK k \in Bad : \A m \in Bad : k <= m
    BY <2>1, <2>2, LeastOf
  <2>4. k \in 0..Len(s) /\ k # 0
    BY <1>2, <2>3 DEF Bad
  <2>5. k - 1 \in 0..Len(s) /\ k - 1 # Len(s) /\ k - 1 \notin Bad /\ (k - 1) + 1 = k
    BY <1>1, <2>3, <2>4
  <2> QED BY <1>3, <2>3, <2>5
<1>5. PICK g : Upto(g, Len(s))
  <2> HIDE DEF Upto
  <2>1. Len(s) \in 0..Len(s) /\ Len(s) \notin Bad
    BY <1>1, <1>4
  <2> QED BY <2>1
<1>6. g = [S \in D |-> StepOf(g, base, s, S)]
  BY <1>1, <1>5
<1> QED BY <1>6

(* What every place given keeps, the fold keeps. *)
LEMMA FoldKeeps ==
  ASSUME NEW G, NEW base \in G, NEW s \in Seq(Monitors),
         \A c \in G, m \in Monitors : EnsurePlacement(c, m) \in G
  PROVE  FoldLeft(EnsurePlacement, base, s) \in G
<1> DEFINE g == Folding(base, s)
<1>1. g = [S \in SUBSET (DOMAIN s) |-> StepOf(g, base, s, S)]
  BY FoldingExists DEF Folding
<1>2. DOMAIN s = 1..Len(s) /\ Len(s) \in Nat
  OBVIOUS
<1> DEFINE Bad == {k \in 0..Len(s) : g[1..k] \notin G}
<1> HIDE DEF g
<1>3. g[1..0] = base
  <2>1. 1..0 = {}
    OBVIOUS
  <2>2. g[{}] = StepOf(g, base, s, {})
    BY <1>1
  <2> QED BY <2>1, <2>2 DEF StepOf
<1>4. ASSUME NEW k \in 0..Len(s), k # 0, g[1..(k - 1)] \in G PROVE g[1..k] \in G
  <2>1. k \in Nat /\ k \in 1..k /\ k \in 1..Len(s)
    BY <1>2, <1>4
  <2>2. 1..k \in SUBSET (DOMAIN s) /\ 1..k # {} /\ s[k] \in Monitors
    <3>1. 1..k \subseteq 1..Len(s)
      BY <2>1, <1>2
    <3>2. s[k] \in Monitors
      BY <2>1, ElementOfSeq
    <3> QED BY <3>1, <3>2, <2>1, <1>2
  <2>3. Max(1..k) \in 1..k /\ \A m \in 1..k : Max(1..k) >= m
    BY <2>1, <2>2, MaxIsThere
  <2>4. Max(1..k) = k
    BY <2>1, <2>3
  <2>5. (1..k) \ {k} = 1..(k - 1)
    BY <2>1
  <2>6. g[1..k] = StepOf(g, base, s, 1..k)
    BY <1>1, <2>2
  <2>7. g[1..k] = EnsurePlacement(g[1..(k - 1)], s[k])
    BY <2>2, <2>4, <2>5, <2>6 DEF StepOf
  <2> QED BY <1>4, <2>2, <2>7
<1>5. Bad = {}
  <2>1. SUFFICES ASSUME Bad # {} PROVE FALSE
    OBVIOUS
  <2>2. Bad \subseteq Nat
    BY <1>2
  <2>3. PICK k \in Bad : \A m \in Bad : k <= m
    BY <2>1, <2>2, LeastOf
  <2>4. k \in 0..Len(s) /\ k # 0
    BY <1>3, <2>3
  <2>5. k - 1 \in 0..Len(s) /\ k - 1 \notin Bad
    BY <1>2, <2>3, <2>4
  <2>6. g[1..(k - 1)] \in G
    BY <2>5
  <2> QED BY <1>4, <2>3, <2>4, <2>6
<1>6. g[DOMAIN s] \in G
  BY <1>2, <1>5
<1> QED BY <1>6, FoldIsFolding DEF g

-----------------------------------------------------------------------------
(* What the functions of the store make of a configuration *)

Configs == {c \in Config : IsFiniteSet(c.presets)}

(* What every edit is: nothing of its kind is broken by it, but for what it moved. *)
Keeps(c, d, moved) ==
  /\ d \in Configs
  /\ InOrder(c) => InOrder(d)
  /\ d.age >= c.age
  /\ PlacesAreRespected(c, d, moved)

LEMMA MoreMoved ==
  ASSUME NEW c, NEW d, NEW moved, NEW more, moved \subseteq more, Keeps(c, d, moved)
  PROVE  Keeps(c, d, more)
BY DEF Keeps, PlacesAreRespected

Aged(c) == [c EXCEPT !.age = @ + 1]

LEMMA AgedKeeps ==
  ASSUME NEW c \in Configs, NEW d, NEW moved, Keeps(c, d, moved)
  PROVE  /\ Keeps(c, Aged(d), moved)
         /\ Aged(d).presets = d.presets /\ Aged(d).overrides = d.overrides
         /\ Aged(d).manual = d.manual
<1>1. d \in Config /\ d.age \in Nat /\ c.age \in Nat
  BY DEF Keeps, Configs, Config
<1>2. /\ Aged(d) \in Config /\ Aged(d).age = d.age + 1 /\ Aged(d).presets = d.presets
      /\ Aged(d).overrides = d.overrides /\ Aged(d).manual = d.manual
      /\ Aged(d).placed = d.placed /\ Aged(d).columns = d.columns
  BY <1>1 DEF Aged, Config
<1>3. InOrder(d) => InOrder(Aged(d))
  BY <1>2 DEF InOrder
<1>4. PlacesAreRespected(c, Aged(d), moved)
  BY <1>2 DEF PlacesAreRespected, Keeps
<1>5. Aged(d) \in Configs /\ Aged(d).age >= c.age
  BY <1>1, <1>2 DEF Keeps, Configs
<1> QED BY <1>2, <1>3, <1>4, <1>5 DEF Keeps

(* Another set of presets, whatever it is, breaks at most what is said of presets. *)
LEMMA OtherPresets ==
  ASSUME NEW c \in Configs, NEW some \in SUBSET Preset, IsFiniteSet(some), NEW d,
         d = [c EXCEPT !.presets = some],
         InOrder(c) => \A p, q \in some : (p.id = q.id \/ p.order = q.order) => p = q
  PROVE  /\ Keeps(c, d, {}) /\ d.presets = some /\ d.overrides = c.overrides /\ d.manual = c.manual
<1>1. c \in Config /\ c.age \in Nat
  BY DEF Configs, Config
<1>2. /\ d \in Config /\ d.presets = some /\ d.overrides = c.overrides /\ d.manual = c.manual
      /\ d.placed = c.placed /\ d.columns = c.columns /\ d.age = c.age
  BY <1>1 DEF Config
<1>3. InOrder(c) => InOrder(d)
  BY <1>2 DEF InOrder
<1>4. PlacesAreRespected(c, d, {})
  BY <1>2 DEF PlacesAreRespected
<1>5. d \in Configs /\ d.age >= c.age
  <2>1. IsFiniteSet(d.presets)
    BY <1>2
  <2>2. d.age >= c.age
    BY <1>1, <1>2
  <2> QED BY <1>2, <2>1, <2>2 DEF Configs
<1>6. Keeps(c, d, {})
  BY <1>3, <1>4, <1>5 DEF Keeps
<1> QED BY <1>2, <1>6

(* uniquePresetId finds a free id of that name while there is one. *)
LEMMA UniqueIsFree ==
  ASSUME NEW c \in Configs, NEW n \in Names,
         \E k \in DOMAIN IdsOf[n] : IdsOf[n][k] \notin IdsIn(c)
  PROVE  UniquePresetId(c, n) \in PresetIds /\ UniquePresetId(c, n) \notin IdsIn(c)
<1> DEFINE free == {k \in DOMAIN IdsOf[n] : IdsOf[n][k] \notin IdsIn(c)}
           k == CHOOSE k \in free : \A other \in free : k <= other
<1>1. IdsOf[n] \in Seq(PresetIds)
  BY ConfigAssumption
<1>2. free \subseteq Nat /\ free # {}
  BY <1>1
<1>3. k \in free
  BY <1>2, LeastOf
<1>4. UniquePresetId(c, n) = IdsOf[n][k]
  BY DEF UniquePresetId
<1> HIDE DEF k
<1> QED BY <1>3, <1>4 DEF PresetIds

LEMMA CreatedKeeps ==
  ASSUME NEW c \in Configs, NEW n \in Names,
         \E k \in DOMAIN IdsOf[n] : IdsOf[n][k] \notin IdsIn(c)
  PROVE  /\ Keeps(c, Created(c, n), {}) /\ IdsIn(c) \subseteq IdsIn(Created(c, n))
         /\ Created(c, n).overrides = c.overrides /\ Created(c, n).manual = c.manual
<1> DEFINE orders == {p.order : p \in c.presets}
           order == IF c.presets = {} THEN 0 ELSE 1 + Highest(orders)
           new == [id |-> UniquePresetId(c, n), order |-> order, name |-> None, assigned |-> TRUE]
           some == c.presets \cup {new}
<1>1. c \in Config /\ c.presets \in SUBSET Preset /\ IsFiniteSet(c.presets)
  BY DEF Configs, Config
<1>2. UniquePresetId(c, n) \in PresetIds /\ UniquePresetId(c, n) \notin IdsIn(c)
  BY UniqueIsFree
<1>3. orders \subseteq Nat /\ IsFiniteSet(orders)
  <2> DEFINE f == [p \in c.presets |-> p.order]
  <2>1. orders = {f[p] : p \in c.presets}
    OBVIOUS
  <2>2. IsFiniteSet({f[p] : p \in c.presets})
    <3> HIDE DEF f
    <3> QED BY <1>1, ImagesAreFinite
  <2> QED BY <1>1, <2>1, <2>2 DEF Preset
<1>4. order \in Nat /\ \A p \in c.presets : p.order # order
  <2>1. CASE c.presets = {}
    BY <2>1
  <2>2. CASE c.presets # {}
    <3>1. orders # {}
      BY <2>2
    <3>2. Highest(orders) \in orders /\ \A m \in orders : m <= Highest(orders)
      <4> HIDE DEF orders
      <4> QED BY <1>3, <3>1, HighestIs
    <3>3. \A p \in c.presets : p.order \in Nat /\ p.order <= Highest(orders)
      BY <1>3, <3>2
    <3>4. order = 1 + Highest(orders) /\ Highest(orders) \in Nat
      BY <1>3, <2>2, <3>2
    <3> HIDE DEF order, orders
    <3>5. \A p \in c.presets : p.order # order
      BY <3>3, <3>4
    <3> QED BY <3>4, <3>5
  <2> QED BY <2>1, <2>2
<1>5. new \in Preset
  <2> HIDE DEF order
  <2> QED BY <1>2, <1>4 DEF Preset
<1>6. some \in SUBSET Preset /\ IsFiniteSet(some)
  BY <1>1, <1>5, FS_AddElement
<1>7. \A p \in c.presets : p.id # new.id /\ p.order # new.order
  BY <1>2, <1>4 DEF IdsIn
<1> HIDE DEF new, order
<1>8. InOrder(c) => \A p, q \in some : (p.id = q.id \/ p.order = q.order) => p = q
  BY <1>7 DEF InOrder
<1>9. Created(c, n) = [c EXCEPT !.presets = some]
  BY DEF Created, new, order
<1> HIDE DEF some
<1>10. /\ Keeps(c, Created(c, n), {}) /\ Created(c, n).presets = some
       /\ Created(c, n).overrides = c.overrides /\ Created(c, n).manual = c.manual
  BY <1>6, <1>8, <1>9, OtherPresets
<1> QED BY <1>10 DEF IdsIn, some

(* Presets of which each keeps its id and its place can be told apart as before. *)
LEMMA EachKeepsItsId ==
  ASSUME NEW c \in Configs, NEW f,
         \A p \in c.presets : f[p] \in Preset /\ f[p].id = p.id /\ f[p].order = p.order,
         NEW some, \A q : q \in some <=> \E p \in c.presets : q = f[p]
  PROVE  /\ some \in SUBSET Preset /\ IsFiniteSet(some)
         /\ InOrder(c) => \A p, q \in some : (p.id = q.id \/ p.order = q.order) => p = q
<1>1. IsFiniteSet(c.presets)
  BY DEF Configs
<1>2. IsFiniteSet(some)
  <2>1. some = {f[p] : p \in c.presets}
    OBVIOUS
  <2>2. IsFiniteSet({f[p] : p \in c.presets})
    BY <1>1, ImagesAreFinite
  <2> QED BY <2>1, <2>2
<1>3. ASSUME InOrder(c), NEW p \in some, NEW q \in some, p.id = q.id \/ p.order = q.order
      PROVE  p = q
  <2>1. PICK a \in c.presets, b \in c.presets : p = f[a] /\ q = f[b]
    OBVIOUS
  <2>2. a.id = b.id \/ a.order = b.order
    BY <1>3, <2>1
  <2> QED BY <1>3, <2>1, <2>2 DEF InOrder
<1> QED BY <1>2, <1>3

LEMMA UpdatedKeeps ==
  ASSUME NEW c \in Configs, NEW id, NEW assigned \in BOOLEAN
  PROVE  /\ Keeps(c, Updated(c, id, assigned), {}) /\ IdsIn(Updated(c, id, assigned)) = IdsIn(c)
         /\ Updated(c, id, assigned).overrides = c.overrides
         /\ Updated(c, id, assigned).manual = c.manual
<1> DEFINE f == [p \in c.presets |-> IF p.id = id THEN [p EXCEPT !.assigned = assigned] ELSE p]
           some == {f[p] : p \in c.presets}
<1>1. c.presets \in SUBSET Preset
  BY DEF Configs, Config
<1>2. \A p \in c.presets : f[p] \in Preset /\ f[p].id = p.id /\ f[p].order = p.order
  BY <1>1 DEF Preset
<1>3. Updated(c, id, assigned) = [c EXCEPT !.presets = some]
  BY DEF Updated
<1> HIDE DEF f
<1>4. /\ some \in SUBSET Preset /\ IsFiniteSet(some)
      /\ InOrder(c) => \A p, q \in some : (p.id = q.id \/ p.order = q.order) => p = q
      /\ {p.id : p \in some} = IdsIn(c)
  <2>1. \A q : q \in some <=> \E p \in c.presets : q = f[p]
    OBVIOUS
  <2> HIDE DEF some
  <2>2. /\ some \in SUBSET Preset /\ IsFiniteSet(some)
        /\ InOrder(c) => \A p, q \in some : (p.id = q.id \/ p.order = q.order) => p = q
    BY <1>2, <2>1, EachKeepsItsId
  <2>3. {p.id : p \in some} = IdsIn(c)
    BY <1>2, <2>1 DEF IdsIn
  <2> QED BY <2>2, <2>3
<1> HIDE DEF some
<1>5. /\ Keeps(c, Updated(c, id, assigned), {}) /\ Updated(c, id, assigned).presets = some
      /\ Updated(c, id, assigned).overrides = c.overrides
      /\ Updated(c, id, assigned).manual = c.manual
  BY <1>3, <1>4, OtherPresets
<1> QED BY <1>4, <1>5 DEF IdsIn

LEMMA DeletedKeeps ==
  ASSUME NEW c \in Configs, NEW id
  PROVE  /\ Keeps(c, Deleted(c, id), {}) /\ IdsIn(Deleted(c, id)) = IdsIn(c) \ {id}
         /\ Deleted(c, id).overrides = c.overrides /\ Deleted(c, id).manual = c.manual
<1> DEFINE some == {p \in c.presets : p.id # id}
<1>1. c.presets \in SUBSET Preset /\ IsFiniteSet(c.presets)
  BY DEF Configs, Config
<1>2. some \in SUBSET Preset /\ IsFiniteSet(some)
  BY <1>1, FS_Subset
<1>3. InOrder(c) => \A p, q \in some : (p.id = q.id \/ p.order = q.order) => p = q
  BY DEF InOrder
<1>4. Deleted(c, id) = [c EXCEPT !.presets = some]
  BY DEF Deleted
<1>5. {p.id : p \in some} = IdsIn(c) \ {id}
  BY DEF IdsIn
<1> HIDE DEF some
<1>6. /\ Keeps(c, Deleted(c, id), {}) /\ Deleted(c, id).presets = some
      /\ Deleted(c, id).overrides = c.overrides /\ Deleted(c, id).manual = c.manual
  BY <1>2, <1>3, <1>4, OtherPresets
<1> QED BY <1>5, <1>6 DEF IdsIn

LEMMA OverriddenKeeps ==
  ASSUME NEW c \in Configs, NEW e \in Entities, NEW next \in Override
  PROVE  /\ Keeps(c, Overridden(c, e, next), {}) /\ IdsIn(Overridden(c, e, next)) = IdsIn(c)
         /\ Overridden(c, e, next).overrides = [c.overrides EXCEPT ![e] = next]
<1> DEFINE f == [p \in c.presets |-> IF p.id = e THEN [p EXCEPT !.name = next.name] ELSE p]
           some == {f[p] : p \in c.presets}
           d == [c EXCEPT !.overrides[e] = next]
           h == [d EXCEPT !.presets = some]
<1>1. c.presets \in SUBSET Preset /\ c \in Config /\ next.name \in Labels \cup {None}
  BY DEF Configs, Config, Override
<1>2. \A p \in c.presets : f[p] \in Preset /\ f[p].id = p.id /\ f[p].order = p.order
  BY <1>1 DEF Preset
<1>3. Overridden(c, e, next) = h
  BY DEF Overridden
<1> HIDE DEF f
<1>4. /\ some \in SUBSET Preset /\ IsFiniteSet(some)
      /\ InOrder(c) => \A p, q \in some : (p.id = q.id \/ p.order = q.order) => p = q
      /\ {p.id : p \in some} = IdsIn(c)
  <2>1. \A q : q \in some <=> \E p \in c.presets : q = f[p]
    OBVIOUS
  <2> HIDE DEF some
  <2>2. /\ some \in SUBSET Preset /\ IsFiniteSet(some)
        /\ InOrder(c) => \A p, q \in some : (p.id = q.id \/ p.order = q.order) => p = q
    BY <1>2, <2>1, EachKeepsItsId
  <2>3. {p.id : p \in some} = IdsIn(c)
    BY <1>2, <2>1 DEF IdsIn
  <2> QED BY <2>2, <2>3
<1> HIDE DEF some
<1>5. /\ d \in Config /\ d.overrides = [c.overrides EXCEPT ![e] = next] /\ d.presets = c.presets
      /\ d.placed = c.placed /\ d.columns = c.columns /\ d.age = c.age
  BY <1>1 DEF Config
<1>6. d \in Configs /\ Keeps(c, d, {}) /\ (InOrder(c) <=> InOrder(d))
  <2>1. InOrder(c) <=> InOrder(d)
    BY <1>5 DEF InOrder
  <2>2. PlacesAreRespected(c, d, {})
    BY <1>5 DEF PlacesAreRespected
  <2>3. d \in Configs /\ d.age >= c.age
    BY <1>5 DEF Configs, Config
  <2> QED BY <2>1, <2>2, <2>3 DEF Keeps
<1> HIDE DEF d
<1>7. Keeps(d, h, {}) /\ h.presets = some /\ h.overrides = d.overrides
  BY <1>4, <1>6, OtherPresets
<1> HIDE DEF h
<1>8. Keeps(c, h, {})
  <2>1. PlacesAreRespected(c, h, {})
    BY <1>5, <1>7 DEF Keeps, PlacesAreRespected
  <2> QED BY <2>1, <1>5, <1>6, <1>7 DEF Keeps
<1> QED BY <1>3, <1>4, <1>5, <1>7, <1>8 DEF IdsIn

-----------------------------------------------------------------------------
(* Places *)

LEMMA PlacedAtIs ==
  ASSUME NEW c \in Configs, NEW m \in Monitors, NEW placement \in Placement
  PROVE  LET d == PlacedAt(c, m, placement)
         IN  /\ d \in Configs /\ d.placed = [c.placed EXCEPT ![m] = placement]
             /\ d.presets = c.presets /\ d.overrides = c.overrides /\ d.manual = c.manual
             /\ d.age = c.age
             /\ InOrder(c) => InOrder(d)
<1> DEFINE d == PlacedAt(c, m, placement)
           columns == IF c.columns > placement.x THEN c.columns ELSE placement.x + 1
           half == [c EXCEPT !.placed[m] = placement]
           whole == [half EXCEPT !.columns = columns]
<1>1. c \in Config /\ c.columns \in Nat /\ placement.x \in Nat /\ IsFiniteSet(c.presets)
      /\ c.placed \in [Monitors -> Placement \cup {None}]
  BY DEF Configs, Config, Placement
<1>2. columns \in Nat /\ c.columns <= columns /\ placement.x < columns
  BY <1>1
<1>3. d = whole
  BY DEF PlacedAt
<1> HIDE DEF columns
<1>4. /\ half \in Config /\ half.placed = [c.placed EXCEPT ![m] = placement]
      /\ half.presets = c.presets /\ half.overrides = c.overrides /\ half.manual = c.manual
      /\ half.age = c.age
  BY <1>1 DEF Config
<1> HIDE DEF half
<1>5. /\ whole \in Config /\ whole.placed = half.placed /\ whole.columns = columns
      /\ whole.presets = c.presets /\ whole.overrides = c.overrides /\ whole.manual = c.manual
      /\ whole.age = c.age
  BY <1>2, <1>4 DEF Config
<1> HIDE DEF whole, d
<1>6. InOrder(c) => InOrder(d)
  <2>1. d.presets = c.presets
    BY <1>3, <1>4, <1>5
  <2>2. ASSUME InOrder(c), NEW k \in Monitors, d.placed[k] # None PROVE d.placed[k].x < d.columns
    <3>1. CASE k = m
      BY <1>1, <1>2, <1>3, <1>4, <1>5, <3>1
    <3>2. CASE k # m
      <4>1. d.placed[k] = c.placed[k] /\ d.columns = columns
        BY <1>1, <1>3, <1>4, <1>5, <3>2
      <4>2. c.placed[k] \in Placement /\ c.placed[k].x < c.columns
        BY <1>1, <2>2, <4>1 DEF InOrder
      <4>3. c.placed[k].x \in Nat
        BY <4>2 DEF Placement
      <4> QED BY <1>1, <1>2, <4>1, <4>2, <4>3
    <3> QED BY <3>1, <3>2
  <2> QED BY <2>1, <2>2 DEF InOrder
<1> QED BY <1>1, <1>3, <1>4, <1>5, <1>6 DEF Configs, d

(* A place the user has chosen. *)
LEMMA SpotKeeps ==
  ASSUME NEW c \in Configs, NEW m \in Monitors, NEW x \in Spots
  PROVE  LET d == PlacedAt(c, m, [x |-> x, auto |-> FALSE])
         IN  Keeps(c, d, {m}) /\ IdsIn(d) = IdsIn(c) /\ d.overrides = c.overrides
<1> DEFINE spot == [x |-> x, auto |-> FALSE]
           d == PlacedAt(c, m, spot)
<1>1. spot \in Placement /\ spot # None /\ spot.auto = FALSE
  <2>1. x \in Nat /\ None \notin Placement
    BY ConfigAssumption
  <2>2. spot \in Placement
    BY <2>1 DEF Placement
  <2> QED BY <2>1, <2>2
<1> HIDE DEF spot
<1>2. /\ d \in Configs /\ d.placed = [c.placed EXCEPT ![m] = spot]
      /\ d.presets = c.presets /\ d.overrides = c.overrides /\ d.age = c.age
      /\ InOrder(c) => InOrder(d)
  BY <1>1, PlacedAtIs
<1>3. c.placed \in [Monitors -> Placement \cup {None}] /\ c.age \in Nat
  BY DEF Configs, Config
<1> HIDE DEF d
<1>4. PlacesAreRespected(c, d, {m})
  <2> SUFFICES ASSUME NEW k \in Monitors
               PROVE  /\ c.placed[k] # None /\ k \notin {m} => d.placed[k] = c.placed[k]
                      /\ c.placed[k] = None /\ d.placed[k] # None => ~d.placed[k].auto
    BY DEF PlacesAreRespected
  <2>1. CASE k = m
    BY <1>1, <1>2, <1>3, <2>1
  <2>2. CASE k # m
    BY <1>2, <1>3, <2>2
  <2> QED BY <2>1, <2>2
<1>5. d.age >= c.age
  BY <1>2, <1>3
<1>6. Keeps(c, d, {m})
  BY <1>2, <1>4, <1>5 DEF Keeps
<1> QED BY <1>2, <1>6 DEF IdsIn, d, spot

(* Right of all others is free. *)
LEMMA RightEdgeIsFree ==
  ASSUME NEW c \in Configs
  PROVE  /\ RightEdge(c) \in Nat
         /\ \A m \in Monitors : c.placed[m] # None => c.placed[m].x < RightEdge(c)
<1> DEFINE taken == {m \in Monitors : c.placed[m] # None}
           f == [m \in taken |-> c.placed[m].x + 1]
           edges == {f[m] : m \in taken}
<1>1. c.placed \in [Monitors -> Placement \cup {None}]
  BY DEF Configs, Config
<1>2. \A m \in taken : c.placed[m].x \in Nat /\ f[m] = c.placed[m].x + 1
  BY <1>1 DEF Placement
<1>3. IsFiniteSet(taken)
  BY ConfigAssumption, FS_Subset
<1>4. RightEdge(c) = Highest({0} \cup edges)
  <2>1. edges = {c.placed[m].x + 1 : m \in taken}
    BY <1>2
  <2> QED BY <2>1 DEF RightEdge
<1> HIDE DEF f
<1>5. IsFiniteSet(edges) /\ edges \subseteq Nat
  <2>1. IsFiniteSet(edges)
    <3> HIDE DEF taken
    <3> QED BY <1>3, ImagesAreFinite
  <2>2. edges \subseteq Nat
    BY <1>2
  <2> QED BY <2>1, <2>2
<1> DEFINE all == {0} \cup edges
<1>6. IsFiniteSet(all) /\ all \subseteq Nat /\ all # {}
  <2>1. all = edges \cup {0}
    OBVIOUS
  <2> HIDE DEF edges
  <2>2. IsFiniteSet(edges \cup {0})
    BY <1>5, FS_AddElement
  <2> HIDE DEF all
  <2>3. IsFiniteSet(all) /\ all \subseteq Nat /\ all # {}
    BY <1>5, <2>1, <2>2
  <2> QED BY <2>3
<1>7. \A m \in taken : f[m] \in all
  OBVIOUS
<1> HIDE DEF all
<1>8. Highest(all) \in all /\ \A k \in all : k <= Highest(all)
  BY <1>6, HighestIs
<1>9. RightEdge(c) = Highest(all)
  BY <1>4 DEF all
<1>10. ASSUME NEW m \in Monitors, c.placed[m] # None PROVE c.placed[m].x < RightEdge(c)
  <2>1. m \in taken
    BY <1>10
  <2>2. f[m] \in all /\ f[m] = c.placed[m].x + 1 /\ c.placed[m].x \in Nat
    BY <1>2, <1>7, <2>1
  <2>3. f[m] <= Highest(all) /\ Highest(all) \in Nat
    BY <1>6, <1>8, <2>2
  <2> QED BY <1>9, <2>2, <2>3
<1> QED BY <1>6, <1>8, <1>9, <1>10

(* What placing those without a place may come to: places that were given stay, new ones are apart. *)
Apart(d, m) ==
  \A other \in Monitors \ {m} :
    d.placed[other] # None => d.placed[other].x # d.placed[m].x

Grown(c) ==
  {d \in Configs :
     /\ d.presets = c.presets /\ d.overrides = c.overrides /\ d.manual = c.manual /\ d.age = c.age
     /\ InOrder(c) => InOrder(d)
     /\ \A m \in Monitors : c.placed[m] # None => d.placed[m] = c.placed[m]
     /\ \A m \in Monitors : c.placed[m] = None /\ d.placed[m] # None => Apart(d, m)}

LEMMA EnsureStaysGrown ==
  ASSUME NEW c \in Configs, NEW d \in Grown(c), NEW m \in Monitors
  PROVE  EnsurePlacement(d, m) \in Grown(c)
<1> DEFINE spot == [x |-> RightEdge(d), auto |-> TRUE]
           h == PlacedAt(d, m, spot)
<1>1. d \in Configs
  BY DEF Grown
<1>2. CASE d.placed[m] # None
  BY <1>2 DEF EnsurePlacement
<1>3. CASE d.placed[m] = None
  <2>1. /\ RightEdge(d) \in Nat
        /\ \A k \in Monitors : d.placed[k] # None => d.placed[k].x < RightEdge(d)
    BY <1>1, RightEdgeIsFree
  <2>2. spot \in Placement /\ spot.x = RightEdge(d)
    BY <2>1 DEF Placement
  <2>3. EnsurePlacement(d, m) = h
    BY <1>3 DEF EnsurePlacement, AutoPlaced
  <2> HIDE DEF spot
  <2>4. /\ h \in Configs /\ h.placed = [d.placed EXCEPT ![m] = spot]
        /\ h.presets = d.presets /\ h.overrides = d.overrides /\ h.manual = d.manual
        /\ h.age = d.age
        /\ InOrder(d) => InOrder(h)
    BY <1>1, <2>2, PlacedAtIs
  <2> HIDE DEF h
  <2>5. d.placed \in [Monitors -> Placement \cup {None}]
    BY <1>1 DEF Configs, Config
  <2>6. /\ h.placed[m] = spot
        /\ \A k \in Monitors \ {m} : h.placed[k] = d.placed[k]
    BY <2>4, <2>5
  <2>7. c.placed[m] = None
    BY <1>3 DEF Grown
  <2>8. \A k \in Monitors : c.placed[k] # None => h.placed[k] = c.placed[k]
    BY <2>6, <2>7 DEF Grown
  <2>9. \A k \in Monitors \ {m} : d.placed[k] # None => d.placed[k].x \in Nat /\ d.placed[k].x < spot.x
    BY <2>1, <2>2, <2>5 DEF Placement
  <2>10. \A k \in Monitors \ {m} : d.placed[k] # None => d.placed[k].x # spot.x
    BY <2>1, <2>2, <2>9
  <2>11. ASSUME NEW k \in Monitors, c.placed[k] = None, h.placed[k] # None PROVE Apart(h, k)
    <3>1. CASE k = m
      BY <2>6, <2>10, <3>1 DEF Apart
    <3>2. CASE k # m
      <4>1. Apart(d, k) /\ d.placed[k] # None /\ h.placed[k] = d.placed[k]
        BY <2>6, <2>11, <3>2 DEF Grown
      <4>2. ASSUME NEW other \in Monitors \ {k}, h.placed[other] # None
            PROVE  h.placed[other].x # h.placed[k].x
        <5>1. CASE other = m
          BY <2>6, <2>10, <3>2, <4>1, <5>1
        <5>2. CASE other # m
          BY <2>6, <4>1, <4>2, <5>2 DEF Apart
        <5> QED BY <5>1, <5>2
      <4> QED BY <4>2 DEF Apart
    <3> QED BY <3>1, <3>2
  <2>12. h \in Grown(c)
    <3>1. /\ h.presets = c.presets /\ h.overrides = c.overrides /\ h.manual = c.manual
          /\ h.age = c.age
          /\ InOrder(c) => InOrder(h)
      BY <2>4 DEF Grown
    <3> QED BY <2>4, <2>8, <2>11, <3>1 DEF Grown
  <2> QED BY <2>3, <2>12
<1> QED BY <1>2, <1>3

(* The reports of an agent place what has no place, and nothing else. *)
LEMMA ReportsKeep ==
  ASSUME NEW c \in Configs, NEW reports \in Reports
  PROVE  LET d == FoldLeft(EnsurePlacement, c, reports)
         IN  Keeps(c, d, {}) /\ IdsIn(d) = IdsIn(c) /\ d.overrides = c.overrides
<1> DEFINE d == FoldLeft(EnsurePlacement, c, reports)
<1>1. reports \in Seq(Monitors)
  BY ViewersAssumption
<1>2. c \in Grown(c)
  BY DEF Grown
<1>3. \A g \in Grown(c), m \in Monitors : EnsurePlacement(g, m) \in Grown(c)
  BY EnsureStaysGrown
<1>4. d \in Grown(c)
  BY <1>1, <1>2, <1>3, FoldKeeps
<1> HIDE DEF d
<1>5. PlacesAreRespected(c, d, {})
  BY <1>4 DEF Grown, PlacesAreRespected, Apart
<1>6. d.age >= c.age
  BY <1>4 DEF Grown, Configs, Config
<1>7. Keeps(c, d, {})
  BY <1>4, <1>5, <1>6 DEF Grown, Keeps
<1> QED BY <1>4, <1>7 DEF Grown, IdsIn, d

-----------------------------------------------------------------------------
(* What is loaded *)

LEMMA SeedIsInOrder == Seed \in Configs /\ InOrder(Seed) /\ Seed.presets = {}
<1>1. Seed.presets = {} /\ Seed.placed = [m \in Monitors |-> None]
  BY DEF Seed
<1>2. Bare \in Override
  BY DEF Bare, Override, Looks
<1>3. Seed \in Config
  BY <1>2 DEF Seed, Config
<1>4. InOrder(Seed)
  BY <1>1 DEF InOrder
<1> QED BY <1>1, <1>3, <1>4, FS_EmptySet DEF Configs

LEMMA MigratedIs ==
  ASSUME NEW file, file.config \in Configs
  PROVE  /\ Migrated(file) \in Configs
         /\ InOrder(file.config) => InOrder(Migrated(file))
         /\ Migrated(file).age = file.config.age
<1> DEFINE over == [e \in Entities |-> IF e \in DOMAIN file.customNames /\ file.customNames[e] \in Labels
                                       THEN [name |-> file.customNames[e], look |-> None] ELSE Bare]
           c == file.config
           d == [c EXCEPT !.overrides = over]
<1>1. c \in Config /\ IsFiniteSet(c.presets)
  BY DEF Configs
<1>2. over \in [Entities -> Override]
  BY DEF Bare, Override, Looks
<1>3. Migrated(file) = d
  BY DEF Migrated
<1> HIDE DEF over, c
<1>4. /\ d \in Config /\ d.presets = c.presets /\ d.placed = c.placed /\ d.columns = c.columns
      /\ d.age = c.age
  BY <1>1, <1>2 DEF Config
<1> HIDE DEF d
<1>5. InOrder(c) => InOrder(d)
  BY <1>4 DEF InOrder
<1>6. d \in Configs
  BY <1>1, <1>4 DEF Configs
<1> QED BY <1>3, <1>4, <1>5, <1>6 DEF c

-----------------------------------------------------------------------------
(* The invariants *)

Known == [Live -> Labels \cup {None, Absent}]
Written == {None} \cup {Current(c) : c \in Configs}
Saves == [content : Written, late : BOOLEAN]

OnDisk(file) ==
  \/ file = None
  \/ /\ file.kind \in {"current", "old", "invalid", "garbled"}
     /\ file.kind \in {"current", "old"} => file.config \in Configs

(***************************************************************************)
(* The types, with what they rest on: that presets are finitely many, so   *)
(* that a new one has a place behind the others.                           *)
(***************************************************************************)
ConfigInv ==
  /\ ConfigTypeOK
  /\ cfg \in Configs
  /\ OnDisk(disk)
  /\ saves \in [SaveSlots -> {None} \cup Saves]

(* The monitors the user drags in a step. *)
Dragged == {m \in Monitors : \E x \in Spots : SetPlacement(m, x)}

(* What every edit and every report is to the configuration. *)
Moves ==
  /\ Serving /\ UNCHANGED <<disk, aside, absorbed, failed, overtaken, proc, saves>>
  /\ Keeps(cfg, cfg', Dragged)
  /\ cfg' = cfg \/ cfg'.age > cfg.age
  /\ timer' => timer \/ proc = "up"
  /\ names' \in Known
  /\ active' \in PresetIds \cup {None}
  /\ (active # None => active \in IdsIn(cfg)) => (active' # None => active' \in IdsIn(cfg'))
  /\ NamesAgree(cfg, names) => NamesAgree(cfg', names')

LEMMA SameKeeps ==
  ASSUME NEW c \in Configs
  PROVE  Keeps(c, c, {})
<1>1. c.age \in Nat /\ PlacesAreRespected(c, c, {})
  <2>1. c.age \in Nat
    BY DEF Configs, Config
  <2>2. PlacesAreRespected(c, c, {})
    BY DEF PlacesAreRespected
  <2> QED BY <2>1, <2>2
<1>2. c.age >= c.age
  BY <1>1
<1> QED BY <1>1, <1>2 DEF Keeps

LEMMA OverridesName ==
  ASSUME NEW c \in Configs, NEW e \in Live
  PROVE  c.overrides[e] \in Override /\ c.overrides[e].name \in Labels \cup {None}
<1>1. c.overrides \in [Entities -> Override] /\ e \in Entities
  BY DEF Configs, Config, Entities
<1>2. c.overrides[e] \in Override
  BY <1>1
<1> QED BY <1>2 DEF Override

LEMMA EditedIs ==
  ASSUME ConfigInv, NEW d, NEW moved, moved \subseteq Dragged, Keeps(cfg, d, moved), Edited(d)
  PROVE  /\ Serving /\ UNCHANGED <<disk, aside, absorbed, failed, overtaken, proc, saves>>
         /\ Keeps(cfg, cfg', Dragged)
         /\ cfg'.age > cfg.age
         /\ timer' => timer \/ proc = "up"
         /\ IdsIn(cfg') = IdsIn(d) /\ cfg'.overrides = d.overrides /\ cfg'.manual = d.manual
<1>1. cfg' = Aged(d)
  BY DEF Edited, Aged
<1>2. cfg \in Configs
  BY DEF ConfigInv
<1>3. Keeps(cfg, d, Dragged)
  <2> HIDE DEF Dragged
  <2> QED BY MoreMoved
<1>4. Keeps(cfg, Aged(d), Dragged) /\ Aged(d).presets = d.presets /\ Aged(d).overrides = d.overrides
      /\ Aged(d).manual = d.manual
  <2> HIDE DEF Dragged
  <2> QED BY <1>2, <1>3, AgedKeeps
<1>5. IdsIn(Aged(d)) = IdsIn(d)
  BY <1>4 DEF IdsIn
<1>6. /\ Serving /\ UNCHANGED <<disk, aside, absorbed, failed, overtaken, proc, saves>>
      /\ timer' => timer \/ proc = "up"
  BY DEF Edited, diskSide
<1>7. Aged(d).age > cfg.age
  <2>1. d \in Config /\ cfg.age \in Nat /\ d.age \in Nat /\ d.age >= cfg.age
    BY <1>2 DEF Keeps, Configs, Config
  <2>2. Aged(d).age = d.age + 1
    BY <2>1 DEF Aged, Config
  <2> QED BY <2>1, <2>2
<1> QED BY <1>1, <1>4, <1>5, <1>6, <1>7

LEMMA CreateMoves ==
  ASSUME ConfigInv, NEW n \in Names, CreatePreset(n)
  PROVE  Moves
<1>1. cfg \in Configs /\ names \in Known /\ active \in PresetIds \cup {None}
  BY DEF ConfigInv, ConfigTypeOK, Known
<1>2. /\ Edited(Created(cfg, n)) /\ UNCHANGED <<names, active>>
      /\ \E k \in DOMAIN IdsOf[n] : IdsOf[n][k] \notin IdsIn(cfg)
  BY DEF CreatePreset
<1>3. /\ Keeps(cfg, Created(cfg, n), {}) /\ IdsIn(cfg) \subseteq IdsIn(Created(cfg, n))
      /\ Created(cfg, n).overrides = cfg.overrides
  BY <1>1, <1>2, CreatedKeeps
<1> QED BY <1>1, <1>2, <1>3, EditedIs DEF Moves, NamesAgree

LEMMA UpdateMoves ==
  ASSUME ConfigInv, NEW id, NEW assigned \in BOOLEAN, UpdatePreset(id, assigned)
  PROVE  Moves
<1>1. cfg \in Configs /\ names \in Known /\ active \in PresetIds \cup {None}
  BY DEF ConfigInv, ConfigTypeOK, Known
<1>2. Edited(Updated(cfg, id, assigned)) /\ UNCHANGED <<names, active>>
  BY DEF UpdatePreset
<1>3. /\ Keeps(cfg, Updated(cfg, id, assigned), {}) /\ IdsIn(Updated(cfg, id, assigned)) = IdsIn(cfg)
      /\ Updated(cfg, id, assigned).overrides = cfg.overrides
  BY <1>1, UpdatedKeeps
<1> QED BY <1>1, <1>2, <1>3, EditedIs DEF Moves, NamesAgree

LEMMA DeleteMoves ==
  ASSUME ConfigInv, NEW id, DeletePreset(id)
  PROVE  Moves
<1>1. cfg \in Configs /\ names \in Known /\ active \in PresetIds \cup {None}
  BY DEF ConfigInv, ConfigTypeOK, Known
<1>2. Edited(Deleted(cfg, id)) /\ names' = names /\ active' = IF active = id THEN None ELSE active
  BY DEF DeletePreset
<1>3. /\ Keeps(cfg, Deleted(cfg, id), {}) /\ IdsIn(Deleted(cfg, id)) = IdsIn(cfg) \ {id}
      /\ Deleted(cfg, id).overrides = cfg.overrides
  BY <1>1, DeletedKeeps
<1> QED BY <1>1, <1>2, <1>3, EditedIs DEF Moves, NamesAgree

LEMMA OverrideMoves ==
  ASSUME ConfigInv, NEW e \in Entities, NEW patch \in Patches, SetOverride(e, patch)
  PROVE  Moves
<1> DEFINE next == Patched(cfg.overrides[e], patch)
           d == Overridden(cfg, e, next)
<1>1. cfg \in Configs /\ names \in Known /\ active \in PresetIds \cup {None}
  BY DEF ConfigInv, ConfigTypeOK, Known
<1>2. /\ Edited(d) /\ active' = active
      /\ names' = IF e \in Live THEN [names EXCEPT ![e] = next.name] ELSE names
  BY DEF SetOverride
<1>3. next \in Override
  <2>1. cfg.overrides \in [Entities -> Override]
    BY <1>1 DEF Configs, Config
  <2>2. cfg.overrides[e] \in Override /\ patch \in [name : Labels \cup {None, Keep}, look : Looks \cup {Keep}]
    BY <2>1, ConfigAssumption
  <2>3. /\ patch.name \in Labels \cup {None, Keep} /\ patch.look \in Looks \cup {Keep}
        /\ cfg.overrides[e].name \in Labels \cup {None} /\ cfg.overrides[e].look \in Looks
    BY <2>2 DEF Override
  <2> QED BY <2>3 DEF Patched, Override
<1> HIDE DEF next
<1>4. /\ Keeps(cfg, d, {}) /\ IdsIn(d) = IdsIn(cfg)
      /\ d.overrides = [cfg.overrides EXCEPT ![e] = next]
  BY <1>1, <1>3, OverriddenKeeps
<1> HIDE DEF d
<1>5. /\ Serving /\ UNCHANGED <<disk, aside, absorbed, failed, overtaken, proc, saves>>
      /\ Keeps(cfg, cfg', Dragged)
      /\ cfg' = cfg \/ cfg'.age > cfg.age
      /\ timer' => timer \/ proc = "up"
      /\ IdsIn(cfg') = IdsIn(cfg) /\ cfg'.overrides = [cfg.overrides EXCEPT ![e] = next]
  BY <1>2, <1>4, EditedIs
<1>6. next.name \in Labels \cup {None}
  BY <1>3 DEF Override
<1>7. names' \in Known
  BY <1>1, <1>2, <1>6 DEF Known
<1>8. ASSUME NamesAgree(cfg, names) PROVE NamesAgree(cfg', names')
  <2> SUFFICES ASSUME NEW k \in Live, names'[k] # Absent
               PROVE  names'[k] = cfg'.overrides[k].name
    BY DEF NamesAgree
  <2>1. cfg.overrides \in [Entities -> Override] /\ k \in Entities /\ names \in [Live -> Labels \cup {None, Absent}]
    BY <1>1 DEF Configs, Config, Entities, Known
  <2>2. CASE k = e
    BY <1>2, <1>5, <2>1, <2>2
  <2>3. CASE k # e
    <3>1. names'[k] = names[k] /\ cfg'.overrides[k] = cfg.overrides[k]
      BY <1>2, <1>5, <2>1, <2>3
    <3> QED BY <1>8, <3>1 DEF NamesAgree
  <2> QED BY <2>2, <2>3
<1> QED BY <1>1, <1>2, <1>5, <1>7, <1>8 DEF Moves

LEMMA PlacementMoves ==
  ASSUME ConfigInv, NEW m \in Monitors, NEW x \in Spots, SetPlacement(m, x)
  PROVE  Moves
<1> DEFINE d == PlacedAt(cfg, m, [x |-> x, auto |-> FALSE])
<1>1. cfg \in Configs /\ names \in Known /\ active \in PresetIds \cup {None}
  BY DEF ConfigInv, ConfigTypeOK, Known
<1>2. Edited(d) /\ UNCHANGED <<names, active>>
  BY DEF SetPlacement
<1>3. Keeps(cfg, d, {m}) /\ IdsIn(d) = IdsIn(cfg) /\ d.overrides = cfg.overrides
  BY <1>1, SpotKeeps
<1> HIDE DEF d
<1>4. {m} \subseteq Dragged
  BY DEF Dragged
<1> QED BY <1>1, <1>2, <1>3, <1>4, EditedIs DEF Moves, NamesAgree

LEMMA DeclareMoves ==
  ASSUME ConfigInv, NEW c \in Declared, DeclareComputer(c)
  PROVE  Moves
<1> DEFINE d == [cfg EXCEPT !.manual = @ \cup {c}]
<1>1. cfg \in Configs /\ names \in Known /\ active \in PresetIds \cup {None} /\ c \in Live
  BY DEF ConfigInv, ConfigTypeOK, Known, Live
<1>2. /\ Edited(d) /\ active' = active
      /\ names' = IF names[c] = Absent THEN [names EXCEPT ![c] = cfg.overrides[c].name] ELSE names
  BY DEF DeclareComputer
<1>3. /\ d \in Config /\ d.presets = cfg.presets /\ d.overrides = cfg.overrides /\ d.age = cfg.age
      /\ d.placed = cfg.placed /\ d.columns = cfg.columns
  BY <1>1 DEF Configs, Config
<1> HIDE DEF d
<1>4. Keeps(cfg, d, {}) /\ IdsIn(d) = IdsIn(cfg)
  <2>1. InOrder(cfg) => InOrder(d)
    BY <1>3 DEF InOrder
  <2>2. PlacesAreRespected(cfg, d, {})
    BY <1>3 DEF PlacesAreRespected
  <2>3. d \in Configs /\ d.age >= cfg.age
    BY <1>1, <1>3 DEF Configs, Config
  <2>4. IdsIn(d) = IdsIn(cfg)
    BY <1>3 DEF IdsIn
  <2> QED BY <2>1, <2>2, <2>3, <2>4 DEF Keeps
<1>5. cfg.overrides[c].name \in Labels \cup {None}
  BY <1>1, OverridesName
<1>6. names' \in Known
  BY <1>1, <1>2, <1>5 DEF Known
<1>7. \A k \in Live : names'[k] = names[k] \/ names'[k] = cfg.overrides[k].name
  BY <1>1, <1>2 DEF Known
<1>8. /\ Serving /\ UNCHANGED <<disk, aside, absorbed, failed, overtaken, proc, saves>>
      /\ Keeps(cfg, cfg', Dragged)
      /\ cfg' = cfg \/ cfg'.age > cfg.age
      /\ timer' => timer \/ proc = "up"
      /\ IdsIn(cfg') = IdsIn(cfg) /\ cfg'.overrides = cfg.overrides
  BY <1>2, <1>3, <1>4, EditedIs
<1>9. NamesAgree(cfg, names) => NamesAgree(cfg', names')
  BY <1>7, <1>8 DEF NamesAgree
<1> QED BY <1>1, <1>2, <1>6, <1>8, <1>9 DEF Moves

LEMMA WiringMoves ==
  ASSUME ConfigInv, NEW wiring \in Wirings, SetWiringOverride(wiring[1], wiring[2])
  PROVE  Moves
<1> DEFINE m == wiring[1]
           c == wiring[2]
           wired == [cfg.wired EXCEPT ![m] = c]
           d == [cfg EXCEPT !.wired[m] = c]
<1>1. cfg \in Configs /\ names \in Known /\ active \in PresetIds \cup {None}
  BY DEF ConfigInv, ConfigTypeOK, Known
<1>2. Edited(d) /\ UNCHANGED <<names, active>>
  BY DEF SetWiringOverride
<1>3. m \in Monitors /\ c \in Computers \cup Declared \cup {None}
  BY ConfigAssumption
<1> HIDE DEF m, c
<1>4. cfg \in Config /\ wired \in [Monitors -> Computers \cup Declared \cup {None}]
  BY <1>1, <1>3 DEF Configs, Config
<1>5. d = [cfg EXCEPT !.wired = wired]
  OBVIOUS
<1> HIDE DEF wired, d
<1>6. /\ d \in Config /\ d.presets = cfg.presets /\ d.overrides = cfg.overrides /\ d.age = cfg.age
      /\ d.placed = cfg.placed /\ d.columns = cfg.columns
  BY <1>4, <1>5 DEF Config
<1>7. Keeps(cfg, d, {}) /\ IdsIn(d) = IdsIn(cfg)
  <2>1. InOrder(cfg) => InOrder(d)
    BY <1>6 DEF InOrder
  <2>2. PlacesAreRespected(cfg, d, {})
    BY <1>6 DEF PlacesAreRespected
  <2>3. d \in Configs /\ d.age >= cfg.age
    BY <1>1, <1>6 DEF Configs, Config
  <2>4. IdsIn(d) = IdsIn(cfg)
    BY <1>6 DEF IdsIn
  <2> QED BY <2>1, <2>2, <2>3, <2>4 DEF Keeps
<1> QED BY <1>1, <1>2, <1>6, <1>7, EditedIs DEF Moves, NamesAgree

(* What both reports do, but for the names. *)
LEMMA ReportIs ==
  ASSUME ConfigInv, NEW reports \in Reports, ReportMonitors(reports)
  PROVE  /\ Serving /\ UNCHANGED <<disk, aside, absorbed, failed, overtaken, proc, saves>>
         /\ Keeps(cfg, cfg', Dragged)
         /\ cfg' = cfg \/ cfg'.age > cfg.age
         /\ timer' => timer \/ proc = "up"
         /\ IdsIn(cfg') = IdsIn(cfg) /\ cfg'.overrides = cfg.overrides /\ active' = active
<1>1. cfg \in Configs
  BY DEF ConfigInv
<1>2. /\ Keeps(cfg, Reported(reports), {}) /\ IdsIn(Reported(reports)) = IdsIn(cfg)
      /\ Reported(reports).overrides = cfg.overrides
  BY <1>1, ReportsKeep DEF Reported
<1>3. CASE Reported(reports) = cfg
  <2>1. Serving /\ UNCHANGED <<disk, aside, absorbed, failed, overtaken, proc, saves, cfg, timer, active>>
    BY <1>3 DEF ReportMonitors, diskSide
  <2>2. Keeps(cfg, cfg, Dragged)
    BY <1>1, SameKeeps, MoreMoved
  <2> QED BY <2>1, <2>2
<1>4. CASE Reported(reports) # cfg
  <2>1. Edited(Reported(reports)) /\ active' = active
    BY <1>4 DEF ReportMonitors
  <2> QED BY <1>2, <2>1, EditedIs
<1> QED BY <1>3, <1>4

LEMMA FoundIs ==
  ASSUME ConfigInv, NEW reports \in Reports
  PROVE  /\ Found(reports) \in Known
         /\ \A k \in Live : Found(reports)[k] = names[k] \/ Found(reports)[k] = cfg.overrides[k].name
<1>1. names \in Known /\ \A k \in Live : cfg.overrides[k].name \in Labels \cup {None}
  BY OverridesName DEF ConfigInv, ConfigTypeOK, Known
<1> QED BY <1>1 DEF Found, Known

LEMMA InventoryMoves ==
  ASSUME ConfigInv, NEW reports \in Reports, Inventory(reports)
  PROVE  Moves
<1>1. active \in PresetIds \cup {None}
  BY DEF ConfigInv, ConfigTypeOK
<1>2. ReportMonitors(reports) /\ names' = Found(reports)
  BY DEF Inventory
<1>3. /\ names' \in Known
      /\ \A k \in Live : names'[k] = names[k] \/ names'[k] = cfg.overrides[k].name
  BY <1>2, FoundIs
<1>4. /\ Serving /\ UNCHANGED <<disk, aside, absorbed, failed, overtaken, proc, saves>>
      /\ Keeps(cfg, cfg', Dragged)
      /\ cfg' = cfg \/ cfg'.age > cfg.age
      /\ timer' => timer \/ proc = "up"
      /\ IdsIn(cfg') = IdsIn(cfg) /\ cfg'.overrides = cfg.overrides /\ active' = active
  BY <1>2, ReportIs
<1>5. NamesAgree(cfg, names) => NamesAgree(cfg', names')
  BY <1>3, <1>4 DEF NamesAgree
<1> QED BY <1>1, <1>3, <1>4, <1>5 DEF Moves

LEMMA RegisterMoves ==
  ASSUME ConfigInv, NEW reports \in Reports, NEW c \in Computers, Register(c, reports)
  PROVE  Moves
<1>1. active \in PresetIds \cup {None} /\ c \in Live /\ cfg \in Configs
  BY DEF ConfigInv, ConfigTypeOK, Live
<1>2. ReportMonitors(reports) /\ names' = [Found(reports) EXCEPT ![c] = cfg.overrides[c].name]
  BY DEF Register
<1>3. cfg.overrides[c].name \in Labels \cup {None}
  BY <1>1, OverridesName
<1>4. /\ Found(reports) \in Known
      /\ \A k \in Live : Found(reports)[k] = names[k] \/ Found(reports)[k] = cfg.overrides[k].name
  BY FoundIs
<1>5. /\ names' \in Known
      /\ \A k \in Live : names'[k] = names[k] \/ names'[k] = cfg.overrides[k].name
  BY <1>1, <1>2, <1>3, <1>4 DEF Known
<1>6. /\ Serving /\ UNCHANGED <<disk, aside, absorbed, failed, overtaken, proc, saves>>
      /\ Keeps(cfg, cfg', Dragged)
      /\ cfg' = cfg \/ cfg'.age > cfg.age
      /\ timer' => timer \/ proc = "up"
      /\ IdsIn(cfg') = IdsIn(cfg) /\ cfg'.overrides = cfg.overrides /\ active' = active
  BY <1>2, ReportIs
<1>7. NamesAgree(cfg, names) => NamesAgree(cfg', names')
  BY <1>5, <1>6 DEF NamesAgree
<1> QED BY <1>1, <1>5, <1>6, <1>7 DEF Moves

LEMMA ApplyMoves ==
  ASSUME ConfigInv, NEW id \in PresetIds, ApplyPreset(id)
  PROVE  Moves
<1>1. cfg \in Configs /\ names \in Known
  BY DEF ConfigInv, ConfigTypeOK, Known
<1>2. /\ Serving /\ id \in IdsIn(cfg) /\ active' = id
      /\ UNCHANGED <<disk, aside, absorbed, failed, overtaken, proc, saves, cfg, names, timer>>
  BY DEF ApplyPreset, diskSide
<1>3. Keeps(cfg, cfg', Dragged)
  BY <1>1, <1>2, SameKeeps, MoreMoved
<1> QED BY <1>1, <1>2, <1>3 DEF Moves, NamesAgree

LEMMA ChangeMoves ==
  ASSUME ConfigInv, Change
  PROVE  Moves
BY CreateMoves, UpdateMoves, DeleteMoves, ApplyMoves, OverrideMoves, PlacementMoves,
   DeclareMoves, WiringMoves, InventoryMoves, RegisterMoves DEF Change

-----------------------------------------------------------------------------
(* The steps of the controller, and the types *)

ConfigNext ==
  \/ Change \/ Start \/ Debounce \/ Shutdown \/ Close \/ Crash
  \/ \E n \in SaveSlots : WriteTemporary(n) \/ Rename(n) \/ SaveFails(n)

(* What pages do is nothing to the controller. *)
LEMMA StepOfController ==
  ASSUME [Next]_vars
  PROVE  ConfigNext \/ UNCHANGED configVars
<1>1. CASE UNCHANGED vars
  BY <1>1 DEF vars
<1>2. CASE BroadcastNow \/ \E v \in pages : Connect(v) \/ Drop(v) \/ OnMessage(v) \/ OnClose(v)
                                           \/ Retry(v) \/ Answer(v) \/ FirstPaint(v)
  BY <1>2 DEF BroadcastNow, Connect, Drop, OnMessage, OnClose, Retry, Answer, FirstPaint
<1>3. CASE ConfigNext
  BY <1>3
<1> QED BY <1>1, <1>2, <1>3 DEF Next, Quietly, ConfigNext

LEMMA CurrentIs ==
  ASSUME NEW c
  PROVE  Current(c).kind = "current" /\ Current(c).config = c
BY DEF Current, File

LEMMA WrittenIs ==
  ASSUME NEW w \in Written, w # None
  PROVE  w.kind = "current" /\ w.config \in Configs /\ w = Current(w.config)
<1>1. PICK c \in Configs : w = Current(c)
  BY DEF Written
<1> QED BY <1>1, CurrentIs

LEMMA LoadedIs ==
  ASSUME OnDisk(disk)
  PROVE  /\ Loaded \in Configs
         /\ disk # None /\ disk.kind \in {"current", "old"} => Loaded.age = disk.config.age
         /\ (disk # None /\ disk.kind \in {"current", "old"} => InOrder(disk.config)) => InOrder(Loaded)
<1>1. CASE Is("current")
  <2>1. Loaded = disk.config /\ disk.config \in Configs /\ disk # None /\ disk.kind = "current"
    BY <1>1 DEF Loaded, Is, OnDisk
  <2> QED BY <2>1
<1>2. CASE Is("old")
  <2>1. disk # None /\ disk.kind = "old" /\ disk.config \in Configs
    BY <1>2 DEF Is, OnDisk
  <2>2. Loaded = Migrated(disk)
    BY <2>1 DEF Loaded, Is
  <2> QED BY <2>1, <2>2, MigratedIs
<1>3. CASE ~Is("current") /\ ~Is("old")
  <2>1. Loaded = Seed
    BY <1>3 DEF Loaded
  <2>2. ~(disk # None /\ disk.kind \in {"current", "old"})
    BY <1>3 DEF Is
  <2> QED BY <2>1, <2>2, SeedIsInOrder
<1> QED BY <1>1, <1>2, <1>3

(* A save is a save, before and after it has taken its content. *)
LEMMA SavesAre ==
  /\ None \in Written /\ \A c \in Configs : Current(c) \in Written
  /\ None \notin Saves /\ Begun \in Saves
  /\ Saves \subseteq Save
  /\ 0 \in SaveSlots
<1>1. Written \subseteq {None} \cup [kind : {"current"}, config : Config, customNames : {None}]
  BY DEF Written, Current, File, Configs
<1>2. Saves \subseteq Save
  <2> HIDE DEF Written
  <2> QED BY <1>1 DEF Saves, Save
<1>3. None \notin Saves /\ 0 \in SaveSlots
  BY <1>2, ConfigAssumption DEF SaveSlots
<1>4. None \in Written /\ \A c \in Configs : Current(c) \in Written
  BY DEF Written
<1>5. Begun \in Saves
  <2> HIDE DEF Written
  <2> QED BY <1>4 DEF Begun, Saves
<1> QED BY <1>2, <1>3, <1>4, <1>5

(* The parts of ConfigInv, one by one. *)
LEMMA ConfigParts ==
  ASSUME ConfigInv
  PROVE  /\ proc \in {"off", "booting", "up", "closing", "saving", "ended"}
         /\ cfg \in Configs /\ names \in Known /\ active \in PresetIds \cup {None}
         /\ saves \in [SaveSlots -> {None} \cup Saves]
         /\ OnDisk(disk)
         /\ timer => proc = "up"
         /\ saves[0] # None <=> proc \in {"booting", "saving"}
         /\ failed \in BOOLEAN /\ overtaken \in BOOLEAN
BY DEF ConfigInv, ConfigTypeOK, Known

LEMMA ConfigPartsSuffice ==
  ASSUME proc \in {"off", "booting", "up", "closing", "saving", "ended"},
         cfg \in Configs, names \in Known, active \in PresetIds \cup {None},
         saves \in [SaveSlots -> {None} \cup Saves], OnDisk(disk),
         timer => proc = "up",
         saves[0] # None <=> proc \in {"booting", "saving"},
         failed \in BOOLEAN, overtaken \in BOOLEAN
  PROVE  ConfigInv
<1>1. saves \in [SaveSlots -> {None} \cup Save]
  BY SavesAre
<1> QED BY <1>1 DEF ConfigInv, ConfigTypeOK, Known, Configs, OnDisk

(* A save that is in progress, and what it holds. *)
LEMMA SaveIs ==
  ASSUME ConfigInv, NEW n \in SaveSlots, saves[n] # None
  PROVE  /\ saves[n] \in Saves
         /\ saves[n].content \in Written /\ saves[n].late \in BOOLEAN
<1>1. saves[n] \in Saves
  BY ConfigParts
<1> QED BY <1>1 DEF Saves

LEMMA InitConfigInv ==
  ASSUME ConfigInit
  PROVE  ConfigInv
<1>1. Seed \in Configs
  BY SeedIsInOrder
<1>2. saves \in [SaveSlots -> {None} \cup Saves] /\ saves[0] = None
  BY SavesAre DEF ConfigInit, Idle
<1>3. OnDisk(disk)
  <2>1. disk \in Files
    BY DEF ConfigInit
  <2> QED BY <2>1, ConfigAssumption DEF OnDisk, Configs
<1>4. names \in Known
  BY DEF ConfigInit, Known
<1>5. /\ proc = "off" /\ cfg = Seed /\ active = None /\ timer = FALSE /\ failed = FALSE
      /\ overtaken = FALSE
  BY DEF ConfigInit
<1> QED BY <1>1, <1>2, <1>3, <1>4, <1>5, ConfigPartsSuffice

(* A save takes its content, and no other does. *)
LEMMA WriteIs ==
  ASSUME ConfigInv, NEW n \in SaveSlots, WriteTemporary(n)
  PROVE  /\ UNCHANGED <<disk, aside, absorbed, failed, overtaken, cfg, names, active, proc, timer>>
         /\ Running /\ saves[n] # None /\ saves[n].content = None
         /\ saves' \in [SaveSlots -> {None} \cup Saves]
         /\ saves'[n] # None /\ saves'[n].content = Current(cfg)
         /\ \A k \in SaveSlots \ {n} : saves'[k] = saves[k]
<1> DEFINE now == [saves[n] EXCEPT !.content = Current(cfg)]
<1>1. /\ saves \in [SaveSlots -> {None} \cup Saves] /\ cfg \in Configs
      /\ saves[n] # None /\ saves[n].content = None /\ Running
      /\ saves' = [saves EXCEPT ![n] = now]
      /\ UNCHANGED <<disk, aside, absorbed, failed, overtaken, cfg, names, active, proc, timer>>
  BY ConfigParts DEF WriteTemporary, diskSide, deskSide
<1>2. now \in Saves /\ now.content = Current(cfg)
  <2>1. Current(cfg) \in Written
    BY <1>1, SavesAre
  <2>2. saves[n] \in Saves
    BY <1>1
  <2> HIDE DEF Written
  <2> QED BY <2>1, <2>2 DEF Saves
<1> HIDE DEF now
<1>3. now # None
  BY <1>2, SavesAre
<1> QED BY <1>1, <1>2, <1>3

(* What the end of a save is to the process. *)
LEMMA SettledIs ==
  ASSUME ConfigInv, NEW n \in SaveSlots, saves[n] # None, NEW ok \in BOOLEAN, Settled(n, ok)
  PROVE  /\ UNCHANGED <<aside, cfg, active, timer>>
         /\ names' \in Known
         /\ n # 0 => proc' = proc /\ names' = names
         /\ n = 0 => proc \in {"booting", "saving"}
         /\ n = 0 /\ proc = "booting" => proc' = (IF ok THEN "up" ELSE "off")
         /\ n = 0 /\ proc = "saving" => proc' = (IF ok THEN "ended" ELSE "off")
<1>1. /\ proc \in {"off", "booting", "up", "closing", "saving", "ended"}
      /\ cfg \in Configs /\ names \in Known
      /\ n = 0 => proc \in {"booting", "saving"}
  BY ConfigParts
<1>2. names' \in Known
  <2>1. \A e \in Live : cfg.overrides[e].name \in Labels \cup {None}
    BY <1>1, OverridesName
  <2>2. [e \in Live |-> IF e \in Seeded THEN cfg.overrides[e].name ELSE Absent] \in Known
    BY <2>1 DEF Known
  <2> QED BY <1>1, <2>2 DEF Settled
<1>3. /\ proc' = AfterSave(n, ok) /\ UNCHANGED <<aside, cfg, active, timer>>
      /\ n # 0 => names' = names
  BY DEF Settled
<1> QED BY <1>1, <1>2, <1>3 DEF AfterSave

(* A save lands: the others stay, those that hold less are late. *)
LEMMA RenameIs ==
  ASSUME ConfigInv, NEW n \in SaveSlots, Rename(n)
  PROVE  /\ saves[n] # None /\ saves[n].content # None
         /\ disk' = saves[n].content /\ absorbed' = saves[n].content
         /\ failed' = (failed /\ saves[n].content # Current(cfg)) /\ overtaken' = saves[n].late
         /\ Settled(n, TRUE)
         /\ saves' \in [SaveSlots -> {None} \cup Saves] /\ saves'[n] = None
         /\ \A k \in SaveSlots \ {n} :
              /\ saves[k] = None => saves'[k] = None
              /\ saves[k] # None =>
                   /\ saves'[k] # None /\ saves'[k].content = saves[k].content
                   /\ saves'[k].late = (saves[k].late \/ Behind(saves[k], saves[n].content))
<1>1. /\ saves[n] # None /\ saves[n].content # None
      /\ disk' = saves[n].content /\ absorbed' = saves[n].content
      /\ failed' = (failed /\ saves[n].content # Current(cfg)) /\ overtaken' = saves[n].late
      /\ Settled(n, TRUE) /\ saves' = Without(n)
      /\ saves \in [SaveSlots -> {None} \cup Saves]
  BY ConfigParts DEF Rename
<1>2. ASSUME NEW k \in SaveSlots, saves[k] # None
      PROVE  LET late == [saves[k] EXCEPT !.late = TRUE]
             IN  late \in Saves /\ late.content = saves[k].content /\ late.late = TRUE /\ late # None
  <2> DEFINE late == [saves[k] EXCEPT !.late = TRUE]
  <2>1. saves[k] \in Saves
    BY <1>1, <1>2
  <2>2. late \in Saves /\ late.content = saves[k].content /\ late.late = TRUE
    <3> HIDE DEF Written
    <3> QED BY <2>1 DEF Saves
  <2> HIDE DEF late
  <2>3. late # None
    BY <2>2, SavesAre
  <2> QED BY <2>2, <2>3 DEF late
<1>3. ASSUME NEW k \in SaveSlots, k # n
      PROVE  /\ saves'[k] \in {None} \cup Saves
             /\ saves[k] = None => saves'[k] = None
             /\ saves[k] # None =>
                   /\ saves'[k] # None /\ saves'[k].content = saves[k].content
                   /\ saves'[k].late = (saves[k].late \/ Behind(saves[k], saves[n].content))
  <2>1. saves'[k] = IF Behind(saves[k], saves[n].content) THEN [saves[k] EXCEPT !.late = TRUE] ELSE saves[k]
    BY <1>1, <1>3 DEF Without
  <2>2. saves[k] = None => ~Behind(saves[k], saves[n].content)
    BY DEF Behind
  <2>3. saves[k] # None => saves[k].late \in BOOLEAN
    BY SaveIs
  <2>4. CASE Behind(saves[k], saves[n].content)
    BY <1>2, <2>1, <2>2, <2>3, <2>4
  <2>5. CASE ~Behind(saves[k], saves[n].content)
    BY <1>1, <2>1, <2>3, <2>5
  <2> QED BY <2>4, <2>5
<1>4. saves'[n] = None
  BY <1>1 DEF Without
<1>5. saves' \in [SaveSlots -> {None} \cup Saves]
  <2>1. saves' = [k \in SaveSlots |-> saves'[k]]
    BY <1>1 DEF Without
  <2> QED BY <1>3, <1>4, <2>1
<1> QED BY <1>1, <1>3, <1>4, <1>5

LEMMA FailIs ==
  ASSUME ConfigInv, NEW n \in SaveSlots, SaveFails(n)
  PROVE  /\ Running /\ saves[n] # None
         /\ UNCHANGED <<disk, absorbed, overtaken>> /\ failed' = TRUE
         /\ Settled(n, FALSE)
         /\ saves' \in [SaveSlots -> {None} \cup Saves] /\ saves'[n] = None
         /\ \A k \in SaveSlots \ {n} : saves'[k] = saves[k]
<1>1. saves \in [SaveSlots -> {None} \cup Saves] /\ saves' = [saves EXCEPT ![n] = None]
  BY ConfigParts DEF SaveFails
<1> QED BY <1>1 DEF SaveFails

(* A save begins: the debounce takes a free place, main its own. *)
LEMMA DebounceIs ==
  ASSUME ConfigInv, Debounce
  PROVE  /\ UNCHANGED <<disk, aside, absorbed, failed, overtaken, cfg, names, active, proc>>
         /\ timer /\ ~timer' /\ proc = "up"
         /\ saves' \in [SaveSlots -> {None} \cup Saves]
         /\ \E n \in SaveSlots :
              /\ n # 0 /\ saves[n] = None /\ saves'[n] = Begun
              /\ \A k \in SaveSlots \ {n} : saves'[k] = saves[k]
<1>1. saves \in [SaveSlots -> {None} \cup Saves] /\ (timer => proc = "up")
  BY ConfigParts
<1>2. PICK n \in 1..MaxSaves : saves[n] = None /\ saves' = [saves EXCEPT ![n] = Begun]
  BY DEF Debounce
<1>3. n \in SaveSlots /\ n # 0
  BY ConfigAssumption DEF SaveSlots
<1>4. UNCHANGED <<disk, aside, absorbed, failed, overtaken, cfg, names, active, proc>> /\ timer /\ ~timer'
  BY DEF Debounce, diskSide, deskSide
<1>5. saves' \in [SaveSlots -> {None} \cup Saves] /\ saves'[n] = Begun
  BY <1>1, <1>2, <1>3, SavesAre
<1> QED BY <1>1, <1>2, <1>3, <1>4, <1>5

LEMMA CloseIs ==
  ASSUME ConfigInv, Close
  PROVE  /\ UNCHANGED <<disk, aside, absorbed, failed, overtaken, names, active, timer>>
         /\ proc = "closing" /\ proc' = "saving"
         /\ cfg' \in Configs /\ cfg'.presets = cfg.presets /\ cfg'.placed = cfg.placed
         /\ cfg'.columns = cfg.columns /\ cfg'.age > cfg.age
         /\ saves' \in [SaveSlots -> {None} \cup Saves] /\ saves'[0] = Begun
         /\ \A k \in SaveSlots \ {0} : saves'[k] = saves[k]
<1>1. /\ saves \in [SaveSlots -> {None} \cup Saves] /\ cfg \in Configs
      /\ active \in PresetIds \cup {None}
  BY ConfigParts
<1>2. /\ cfg' = [cfg EXCEPT !.last = active, !.age = @ + 1] /\ saves' = [saves EXCEPT ![0] = Begun]
      /\ proc = "closing" /\ proc' = "saving"
      /\ UNCHANGED <<disk, aside, absorbed, failed, overtaken, names, active, timer>>
  BY DEF Close, diskSide
<1>3. cfg \in Config /\ IsFiniteSet(cfg.presets) /\ cfg.age \in Nat
  BY <1>1 DEF Configs, Config
<1>4. /\ cfg' \in Config /\ cfg'.presets = cfg.presets /\ cfg'.placed = cfg.placed
      /\ cfg'.columns = cfg.columns /\ cfg'.age = cfg.age + 1
  <2> DEFINE half == [cfg EXCEPT !.last = active]
  <2>1. /\ half \in Config /\ half.presets = cfg.presets /\ half.placed = cfg.placed
        /\ half.columns = cfg.columns /\ half.age = cfg.age
    BY <1>1, <1>3 DEF Config
  <2>2. cfg' = [half EXCEPT !.age = @ + 1]
    BY <1>2
  <2> HIDE DEF half
  <2> QED BY <1>3, <2>1, <2>2 DEF Config
<1>5. cfg' \in Configs /\ cfg'.age > cfg.age
  BY <1>3, <1>4 DEF Configs
<1>6. saves' \in [SaveSlots -> {None} \cup Saves] /\ saves'[0] = Begun
  BY <1>1, <1>2, SavesAre
<1>7. \A k \in SaveSlots \ {0} : saves'[k] = saves[k]
  BY <1>1, <1>2
<1> QED BY <1>2, <1>4, <1>5, <1>6, <1>7

LEMMA StartIs ==
  ASSUME ConfigInv, Start
  PROVE  /\ ~Running /\ proc' = "booting" /\ cfg' = Loaded /\ UNCHANGED timer
         /\ failed' = FALSE /\ overtaken' = FALSE
         /\ names' = [e \in Live |-> Absent] /\ active' = None
         /\ disk' = IF Is("invalid") THEN None ELSE disk
         /\ absorbed' = IF Is("current") \/ Is("old") THEN disk ELSE None
         /\ saves' \in [SaveSlots -> {None} \cup Saves] /\ saves'[0] = Begun
         /\ \A k \in SaveSlots \ {0} : saves'[k] = None
<1>1. saves' = [Idle EXCEPT ![0] = Begun]
  BY DEF Start
<1>2. Idle \in [SaveSlots -> {None} \cup Saves] /\ \A k \in SaveSlots : Idle[k] = None
  BY DEF Idle
<1> HIDE DEF Idle
<1>3. saves' \in [SaveSlots -> {None} \cup Saves] /\ saves'[0] = Begun
  BY <1>1, <1>2, SavesAre
<1>4. \A k \in SaveSlots \ {0} : saves'[k] = None
  BY <1>1, <1>2
<1> QED BY <1>3, <1>4 DEF Start, Quarantine, Forgotten

LEMMA CrashIs ==
  ASSUME Crash
  PROVE  /\ Running /\ proc' = "off" /\ cfg' = Seed /\ timer' = FALSE /\ failed' = FALSE
         /\ overtaken' = FALSE /\ names' = [e \in Live |-> Absent] /\ active' = None
         /\ UNCHANGED <<disk, aside, absorbed>>
         /\ saves' \in [SaveSlots -> {None} \cup Saves] /\ \A k \in SaveSlots : saves'[k] = None
BY DEF Crash, Forgotten, Idle

LEMMA StepConfigInv ==
  ASSUME ConfigInv, ConfigNext \/ UNCHANGED configVars
  PROVE  ConfigInv'
<1> DEFINE Goal ==
  /\ proc' \in {"off", "booting", "up", "closing", "saving", "ended"}
  /\ cfg' \in Configs /\ names' \in Known /\ active' \in PresetIds \cup {None}
  /\ saves' \in [SaveSlots -> {None} \cup Saves] /\ OnDisk(disk')
  /\ timer' => proc' = "up"
  /\ saves'[0] # None <=> proc' \in {"booting", "saving"}
  /\ failed' \in BOOLEAN /\ overtaken' \in BOOLEAN
<1>1. /\ proc \in {"off", "booting", "up", "closing", "saving", "ended"}
      /\ cfg \in Configs /\ names \in Known /\ active \in PresetIds \cup {None}
      /\ saves \in [SaveSlots -> {None} \cup Saves]
      /\ OnDisk(disk)
      /\ timer => proc = "up"
      /\ saves[0] # None <=> proc \in {"booting", "saving"}
      /\ failed \in BOOLEAN /\ overtaken \in BOOLEAN
  BY ConfigParts
<1>2. Goal => ConfigInv'
  <2>1. [SaveSlots -> {None} \cup Saves] \subseteq [SaveSlots -> {None} \cup Save]
    BY SavesAre
  <2> QED BY <2>1 DEF ConfigInv, ConfigTypeOK, Known, Configs, OnDisk
<1>3. CASE UNCHANGED configVars
  BY <1>1, <1>2, <1>3 DEF configVars, diskSide, deskSide
<1>4. CASE Change
  <2>1. Moves
    BY <1>4, ChangeMoves
  <2> QED BY <1>1, <1>2, <2>1 DEF Moves, Keeps
<1>5. Begun # None /\ 0 \in SaveSlots
  BY SavesAre
<1>6. CASE Start
  <2>1. /\ ~Running /\ proc' = "booting" /\ cfg' = Loaded /\ UNCHANGED timer
        /\ failed' = FALSE /\ overtaken' = FALSE
        /\ names' = [e \in Live |-> Absent] /\ active' = None
        /\ disk' \in {disk, None}
        /\ saves' \in [SaveSlots -> {None} \cup Saves] /\ saves'[0] = Begun
    BY <1>6, StartIs
  <2>2. Loaded \in Configs
    BY <1>1, LoadedIs
  <2>3. names' \in Known /\ OnDisk(disk') /\ ~timer
    BY <1>1, <2>1 DEF Known, OnDisk, Running
  <2>4. Goal
    BY <1>1, <1>5, <2>1, <2>2, <2>3
  <2> QED BY <1>2, <2>4
<1>7. CASE Debounce
  <2>1. /\ UNCHANGED <<disk, failed, overtaken, cfg, names, active, proc>>
        /\ ~timer' /\ saves' \in [SaveSlots -> {None} \cup Saves] /\ saves'[0] = saves[0]
    BY <1>5, <1>7, DebounceIs
  <2> QED BY <1>1, <1>2, <2>1
<1>8. CASE \E n \in SaveSlots : WriteTemporary(n)
  <2>1. PICK n \in SaveSlots : WriteTemporary(n)
    BY <1>8
  <2>2. /\ UNCHANGED <<disk, failed, overtaken, cfg, names, active, proc, timer>>
        /\ saves' \in [SaveSlots -> {None} \cup Saves]
        /\ saves[n] # None /\ saves'[n] # None
        /\ \A k \in SaveSlots \ {n} : saves'[k] = saves[k]
    BY <2>1, WriteIs
  <2>3. saves'[0] # None <=> saves[0] # None
    BY <1>5, <2>2
  <2> QED BY <1>1, <1>2, <2>2, <2>3
<1>9. ASSUME NEW n \in SaveSlots, saves[n] # None, NEW ok \in BOOLEAN, Settled(n, ok), OnDisk(disk'),
             failed' \in BOOLEAN, overtaken' \in BOOLEAN,
             saves' \in [SaveSlots -> {None} \cup Saves], saves'[n] = None,
             n # 0 => (saves'[0] # None <=> saves[0] # None)
      PROVE  Goal
  <2>1. /\ UNCHANGED <<aside, cfg, active, timer>>
        /\ names' \in Known
        /\ n # 0 => proc' = proc
        /\ n = 0 => proc \in {"booting", "saving"}
        /\ n = 0 /\ proc = "booting" => proc' = (IF ok THEN "up" ELSE "off")
        /\ n = 0 /\ proc = "saving" => proc' = (IF ok THEN "ended" ELSE "off")
    BY <1>9, SettledIs
  <2>2. n = 0 => proc' \in {"up", "off", "ended"} /\ ~timer
    BY <1>1, <2>1
  <2> QED BY <1>1, <1>9, <2>1, <2>2
<1>10. CASE \E n \in SaveSlots : Rename(n)
  <2>1. PICK n \in SaveSlots : Rename(n)
    BY <1>10
  <2>2. /\ saves[n] # None /\ saves[n].content # None
        /\ disk' = saves[n].content /\ Settled(n, TRUE)
        /\ failed' = (failed /\ saves[n].content # Current(cfg)) /\ overtaken' = saves[n].late
        /\ saves' \in [SaveSlots -> {None} \cup Saves] /\ saves'[n] = None
        /\ \A k \in SaveSlots \ {n} : saves[k] = None <=> saves'[k] = None
    BY <2>1, RenameIs
  <2>3. saves[n].content \in Written /\ saves[n].late \in BOOLEAN
    BY <2>2, SaveIs
  <2>4. OnDisk(disk')
    BY <2>2, <2>3, WrittenIs DEF OnDisk
  <2>5. Goal
    BY <1>1, <1>5, <1>9, <2>2, <2>3, <2>4
  <2> QED BY <1>2, <2>5
<1>11. CASE \E n \in SaveSlots : SaveFails(n)
  <2>1. PICK n \in SaveSlots : SaveFails(n)
    BY <1>11
  <2>2. /\ saves[n] # None /\ UNCHANGED <<disk, overtaken>> /\ failed' = TRUE /\ Settled(n, FALSE)
        /\ saves' \in [SaveSlots -> {None} \cup Saves] /\ saves'[n] = None
        /\ \A k \in SaveSlots \ {n} : saves'[k] = saves[k]
    BY <2>1, FailIs
  <2>3. Goal
    BY <1>1, <1>5, <1>9, <2>2
  <2> QED BY <1>2, <2>3
<1>12. CASE Shutdown
  <2>1. /\ proc = "up" /\ proc' = "closing" /\ timer' = FALSE
        /\ UNCHANGED <<disk, failed, overtaken, cfg, names, active, saves>>
    BY <1>12 DEF Shutdown, diskSide, deskSide
  <2> QED BY <1>1, <1>2, <2>1
<1>13. CASE Close
  <2>1. /\ UNCHANGED <<disk, failed, overtaken, names, active, timer>>
        /\ proc = "closing" /\ proc' = "saving" /\ cfg' \in Configs
        /\ saves' \in [SaveSlots -> {None} \cup Saves] /\ saves'[0] = Begun
    BY <1>13, CloseIs
  <2> QED BY <1>1, <1>2, <1>5, <2>1
<1>14. CASE Crash
  <2>1. /\ proc' = "off" /\ cfg' = Seed /\ timer' = FALSE /\ failed' = FALSE
        /\ overtaken' = FALSE /\ names' = [e \in Live |-> Absent] /\ active' = None
        /\ disk' = disk /\ saves' \in [SaveSlots -> {None} \cup Saves] /\ saves'[0] = None
    BY <1>5, <1>14, CrashIs
  <2>2. names' \in Known /\ cfg' \in Configs
    BY <2>1, SeedIsInOrder DEF Known
  <2> QED BY <1>1, <1>2, <2>1, <2>2
<1> QED BY <1>3, <1>4, <1>6, <1>7, <1>8, <1>10, <1>11, <1>12, <1>13, <1>14 DEF ConfigNext

-----------------------------------------------------------------------------
(* The pages *)

Snapshots ==
  [presets : SUBSET Preset, placed : [Monitors -> Placement \cup {None}], columns : Nat,
   names : Known, active : PresetIds \cup {None}]

(* The types of what pages hold: frames are snapshots, so that there is a first one and a rest. *)
ViewInv ==
  /\ pages \in Watchings
  /\ broadcast \in BOOLEAN
  /\ socket \in [pages -> {"connecting", "open", "ending", "waiting"}]
  /\ live \in [pages -> BOOLEAN]
  /\ wire \in [pages -> Seq(Snapshots)]
  /\ \A v \in pages : /\ Len(wire[v]) <= MaxFrames + 1
                      /\ socket[v] \in {"connecting", "waiting"} => wire[v] = <<>>
                      /\ socket[v] = "open" => Serving
  /\ events \in 0..MaxEvents[pages]

TypeInv == ConfigInv /\ ViewInv

LEMMA TypeInvIsTypeOK == TypeInv => TypeOK
BY DEF TypeInv, TypeOK, ConfigInv, ViewInv

LEMMA SnapshotIs == ConfigInv => Snapshot \in Snapshots
<1> SUFFICES ASSUME ConfigInv PROVE Snapshot \in Snapshots
  OBVIOUS
<1>1. cfg \in Configs /\ names \in Known /\ active \in PresetIds \cup {None}
  BY ConfigParts
<1>2. cfg.presets \in SUBSET Preset /\ cfg.placed \in [Monitors -> Placement \cup {None}] /\ cfg.columns \in Nat
  BY <1>1 DEF Configs, Config
<1> QED BY <1>1, <1>2 DEF Snapshot, Snapshots

LEMMA FrameNumbers == MaxFrames \in Nat /\ \A some \in Watchings : MaxEvents[some] \in Nat
BY ViewersAssumption

LEMMA HappensIs ==
  ASSUME ViewInv, Happens
  PROVE  events' \in 0..MaxEvents[pages]
<1>1. events \in 0..MaxEvents[pages] /\ MaxEvents[pages] \in Nat
  BY FrameNumbers DEF ViewInv
<1> QED BY <1>1 DEF Happens

(* A step of the controller that no page notices. *)
LEMMA UnnoticedKeepsView ==
  ASSUME ViewInv, UNCHANGED <<pages, socket, wire, live>>, broadcast' \in BOOLEAN,
         events' \in 0..MaxEvents[pages], Serving => Serving'
  PROVE  ViewInv'
BY DEF ViewInv

LEMMA GoneKeepsView ==
  ASSUME ViewInv, Gone, events' \in 0..MaxEvents[pages]
  PROVE  ViewInv'
<1>1. /\ broadcast' = FALSE /\ UNCHANGED <<pages, wire, live>>
      /\ socket' = [v \in pages |-> IF socket[v] = "open" THEN "ending" ELSE socket[v]]
  BY DEF Gone
<1>2. socket' \in [pages -> {"connecting", "open", "ending", "waiting"}]
  BY <1>1 DEF ViewInv
<1>3. \A v \in pages : /\ socket'[v] # "open"
                       /\ socket'[v] \in {"connecting", "waiting"} => socket[v] = socket'[v]
  BY <1>1 DEF ViewInv
<1> QED BY <1>1, <1>2, <1>3 DEF ViewInv

(* A step of the controller leaves it serving, or what it was not. *)
LEMMA StillServing ==
  ASSUME ConfigInv,
         \/ Change \/ Shutdown \/ Start \/ Debounce
         \/ \E n \in SaveSlots : WriteTemporary(n) \/ Rename(n) \/ (n # 0 /\ SaveFails(n))
  PROVE  Serving => Serving'
<1>1. CASE Change
  BY <1>1, ChangeMoves DEF Moves, Serving
<1>2. CASE Shutdown \/ Start \/ Debounce
  BY <1>2 DEF Shutdown, Start, Debounce, Running, Serving
<1>3. CASE \E n \in SaveSlots : WriteTemporary(n)
  BY <1>3 DEF WriteTemporary, Serving
<1>4. ASSUME NEW n \in SaveSlots, Rename(n) PROVE Serving => Serving'
  <2>1. saves[n] # None /\ Settled(n, TRUE)
    BY <1>4 DEF Rename
  <2> QED BY <2>1, SettledIs DEF Serving
<1>5. ASSUME NEW n \in SaveSlots, n # 0, SaveFails(n) PROVE Serving => Serving'
  <2>1. saves[n] # None /\ Settled(n, FALSE)
    BY <1>5 DEF SaveFails
  <2> QED BY <1>5, <2>1, SettledIs DEF Serving
<1> QED BY <1>1, <1>2, <1>3, <1>4, <1>5

LEMMA NowKeepsView ==
  ASSUME TypeInv, BroadcastNow
  PROVE  ViewInv'
<1>1. /\ broadcast' = FALSE /\ UNCHANGED <<proc, pages, socket, live, events>>
      /\ \A v \in pages : Len(wire[v]) < MaxFrames
      /\ wire' = [v \in pages |-> IF socket[v] = "open" THEN Append(wire[v], Snapshot) ELSE wire[v]]
  BY DEF BroadcastNow, configVars
<1>2. Snapshot \in Snapshots /\ MaxFrames \in Nat
  BY SnapshotIs, FrameNumbers DEF TypeInv
<1>3. ASSUME NEW v \in pages
      PROVE  /\ wire'[v] \in Seq(Snapshots) /\ Len(wire'[v]) <= MaxFrames + 1
             /\ socket[v] \in {"connecting", "waiting"} => wire'[v] = <<>>
  <2>1. wire[v] \in Seq(Snapshots) /\ Len(wire[v]) \in Nat /\ Len(wire[v]) < MaxFrames
    BY <1>1, LenProperties DEF TypeInv, ViewInv
  <2>2. CASE socket[v] = "open"
    <3>1. wire'[v] = Append(wire[v], Snapshot)
      BY <1>1, <2>2
    <3>2. wire'[v] \in Seq(Snapshots) /\ Len(wire'[v]) = Len(wire[v]) + 1
      BY <1>2, <2>1, <3>1, AppendProperties
    <3> QED BY <1>2, <2>1, <2>2, <3>2
  <2>3. CASE socket[v] # "open"
    <3>1. wire'[v] = wire[v]
      BY <1>1, <2>3
    <3> QED BY <1>2, <2>1, <3>1 DEF TypeInv, ViewInv
  <2> QED BY <2>2, <2>3
<1>4. wire' \in [pages -> Seq(Snapshots)]
  <2>1. wire' = [v \in pages |-> wire'[v]]
    BY <1>1
  <2> QED BY <1>3, <2>1
<1> QED BY <1>1, <1>3, <1>4 DEF TypeInv, ViewInv, Serving

LEMMA PageKeepsView ==
  ASSUME TypeInv, NEW v \in pages,
         Connect(v) \/ Drop(v) \/ OnMessage(v) \/ OnClose(v) \/ Retry(v) \/ Answer(v) \/ FirstPaint(v)
  PROVE  ViewInv'
<1>1. /\ socket \in [pages -> {"connecting", "open", "ending", "waiting"}]
      /\ wire \in [pages -> Seq(Snapshots)] /\ MaxFrames \in Nat
      /\ wire[v] \in Seq(Snapshots) /\ Len(wire[v]) \in Nat /\ Len(wire[v]) <= MaxFrames + 1
  BY FrameNumbers, LenProperties DEF TypeInv, ViewInv
<1>2. CASE Connect(v)
  <2>1. UNCHANGED <<proc, pages, broadcast, live, events>>
    BY <1>2 DEF Connect, configVars
  <2>2. CASE Serving
    <3>1. /\ socket' = [socket EXCEPT ![v] = "open"]
          /\ wire' = [wire EXCEPT ![v] = <<Snapshot>>]
      BY <1>2, <2>2 DEF Connect
    <3>2. <<Snapshot>> \in Seq(Snapshots) /\ Len(<<Snapshot>>) = 1 /\ 1 <= MaxFrames + 1
      BY <1>1, SnapshotIs DEF TypeInv
    <3>3. wire' \in [pages -> Seq(Snapshots)] /\ wire'[v] = <<Snapshot>> /\ socket'[v] = "open"
      BY <1>1, <3>1, <3>2
    <3>4. \A other \in pages \ {v} : wire'[other] = wire[other] /\ socket'[other] = socket[other]
      BY <1>1, <3>1
    <3>5. socket' \in [pages -> {"connecting", "open", "ending", "waiting"}]
      BY <1>1, <3>1
    <3> QED BY <2>1, <2>2, <3>2, <3>3, <3>4, <3>5 DEF TypeInv, ViewInv, Serving
  <2>3. CASE ~Serving
    <3>1. socket' = [socket EXCEPT ![v] = "waiting"] /\ wire' = wire /\ socket[v] = "connecting"
      BY <1>2, <2>3 DEF Connect
    <3>2. wire[v] = <<>>
      BY <3>1 DEF TypeInv, ViewInv
    <3> QED BY <1>1, <2>1, <3>1, <3>2 DEF TypeInv, ViewInv, Serving
  <2> QED BY <2>2, <2>3
<1>3. CASE Drop(v)
  <2>1. /\ UNCHANGED <<proc, pages, broadcast, wire, live>>
        /\ socket' = [socket EXCEPT ![v] = "ending"] /\ Happens
    BY <1>3 DEF Drop, configVars
  <2>2. events' \in 0..MaxEvents[pages]
    BY <2>1, HappensIs DEF TypeInv
  <2> QED BY <1>1, <2>1, <2>2 DEF TypeInv, ViewInv, Serving
<1>4. CASE OnMessage(v)
  <2>1. /\ UNCHANGED <<proc, pages, broadcast, socket, events>>
        /\ wire[v] # <<>>
        /\ live' = [live EXCEPT ![v] = TRUE]
        /\ wire' = [wire EXCEPT ![v] = Tail(wire[v])]
    BY <1>4 DEF OnMessage, configVars
  <2>2. Tail(wire[v]) \in Seq(Snapshots) /\ Len(Tail(wire[v])) = Len(wire[v]) - 1
    BY <1>1, <2>1, HeadTailProperties
  <2>3. /\ wire' \in [pages -> Seq(Snapshots)] /\ Len(wire'[v]) <= MaxFrames + 1
        /\ \A other \in pages \ {v} : wire'[other] = wire[other]
    BY <1>1, <2>1, <2>2
  <2>4. socket[v] \notin {"connecting", "waiting"}
    BY <2>1 DEF TypeInv, ViewInv
  <2>5. live' \in [pages -> BOOLEAN]
    BY <2>1 DEF TypeInv, ViewInv
  <2> QED BY <2>1, <2>3, <2>4, <2>5 DEF TypeInv, ViewInv, Serving
<1>5. CASE OnClose(v)
  <2>1. /\ UNCHANGED <<proc, pages, broadcast, live, events>>
        /\ socket' = [socket EXCEPT ![v] = "waiting"]
        /\ wire' = [wire EXCEPT ![v] = <<>>]
    BY <1>5 DEF OnClose, configVars
  <2>2. <<>> \in Seq(Snapshots) /\ Len(<<>>) = 0 /\ 0 <= MaxFrames + 1
    BY <1>1
  <2>3. wire' \in [pages -> Seq(Snapshots)] /\ wire'[v] = <<>> /\ socket'[v] = "waiting"
    BY <1>1, <2>1, <2>2
  <2>4. \A other \in pages \ {v} : wire'[other] = wire[other] /\ socket'[other] = socket[other]
    BY <1>1, <2>1
  <2>5. socket' \in [pages -> {"connecting", "open", "ending", "waiting"}]
    BY <1>1, <2>1
  <2> QED BY <2>1, <2>2, <2>3, <2>4, <2>5 DEF TypeInv, ViewInv, Serving
<1>6. CASE Retry(v)
  <2>1. /\ UNCHANGED <<proc, pages, broadcast, wire, live, events>>
        /\ socket[v] = "waiting" /\ socket' = [socket EXCEPT ![v] = "connecting"]
    BY <1>6 DEF Retry, configVars
  <2>2. wire[v] = <<>>
    BY <2>1 DEF TypeInv, ViewInv
  <2> QED BY <1>1, <2>1, <2>2 DEF TypeInv, ViewInv, Serving
<1>7. CASE Answer(v) \/ FirstPaint(v)
  <2>1. UNCHANGED <<proc, pages, broadcast, socket, wire, live, events>>
    BY <1>7 DEF Answer, FirstPaint, configVars
  <2> QED BY <2>1 DEF TypeInv, ViewInv, Serving
<1> QED BY <1>2, <1>3, <1>4, <1>5, <1>6, <1>7

LEMMA InitTypeInv == Init => TypeInv
<1> SUFFICES ASSUME Init PROVE TypeInv
  OBVIOUS
<1>1. ConfigInv
  BY InitConfigInv DEF Init
<1>2. /\ pages \in Watchings /\ broadcast = FALSE /\ events = 0 /\ MaxEvents[pages] \in Nat /\ MaxFrames \in Nat
      /\ socket = [v \in pages |-> "connecting"] /\ wire = [v \in pages |-> <<>>]
      /\ live = [v \in pages |-> FALSE]
  BY FrameNumbers DEF Init
<1>3. <<>> \in Seq(Snapshots) /\ Len(<<>>) = 0
  BY EmptySeq
<1>4. wire \in [pages -> Seq(Snapshots)] /\ socket \in [pages -> {"connecting", "open", "ending", "waiting"}]
      /\ live \in [pages -> BOOLEAN] /\ broadcast \in BOOLEAN /\ events \in 0..MaxEvents[pages]
  <2>1. wire \in [pages -> Seq(Snapshots)]
    BY <1>2, <1>3
  <2>2. socket \in [pages -> {"connecting", "open", "ending", "waiting"}]
    BY <1>2
  <2>3. live \in [pages -> BOOLEAN] /\ broadcast \in BOOLEAN
    BY <1>2
  <2>4. events \in 0..MaxEvents[pages]
    BY <1>2
  <2> QED BY <2>1, <2>2, <2>3, <2>4
<1>5. \A v \in pages : wire[v] = <<>> /\ Len(wire[v]) <= MaxFrames + 1 /\ socket[v] # "open"
  BY <1>2, <1>3
<1> QED BY <1>1, <1>2, <1>4, <1>5 DEF TypeInv, ViewInv

LEMMA StepTypeInv == TypeInv /\ [Next]_vars => TypeInv'
<1> SUFFICES ASSUME TypeInv, [Next]_vars PROVE TypeInv'
  OBVIOUS
<1>1. ConfigInv /\ ViewInv
  BY DEF TypeInv
<1>2. ConfigInv'
  BY <1>1, StepOfController, StepConfigInv
<1>3. broadcast \in BOOLEAN /\ events \in 0..MaxEvents[pages]
  BY <1>1 DEF ViewInv
<1>4. CASE UNCHANGED vars
  <2>1. UNCHANGED <<pages, socket, wire, live, broadcast, events, proc>>
    BY <1>4 DEF vars, viewVars, configVars
  <2>2. ViewInv'
    BY <1>1, <1>3, <2>1, UnnoticedKeepsView DEF Serving
  <2> QED BY <1>2, <2>2 DEF TypeInv
<1>5. CASE Happens /\ Change /\ Touch
  <2>1. broadcast' \in BOOLEAN /\ UNCHANGED <<pages, socket, wire, live>>
    BY <1>3, <1>5 DEF Touch
  <2>2. events' \in 0..MaxEvents[pages] /\ (Serving => Serving')
    BY <1>1, <1>5, HappensIs, StillServing
  <2>3. ViewInv'
    BY <1>1, <2>1, <2>2, UnnoticedKeepsView
  <2> QED BY <1>2, <2>3 DEF TypeInv
<1>6. ASSUME NEW n \in SaveSlots,
             Happens /\ SaveFails(n) /\ (IF n = 0 THEN Gone ELSE UNCHANGED viewVars)
      PROVE  TypeInv'
  <2>1. events' \in 0..MaxEvents[pages]
    BY <1>1, <1>6, HappensIs
  <2>2. CASE n = 0
    <3>1. ViewInv'
      BY <1>1, <1>6, <2>1, <2>2, GoneKeepsView
    <3> QED BY <1>2, <3>1 DEF TypeInv
  <2>3. CASE n # 0
    <3>1. UNCHANGED <<pages, socket, wire, live, broadcast>>
      BY <1>6, <2>3 DEF viewVars
    <3>2. Serving => Serving'
      BY <1>1, <1>6, <2>3, StillServing
    <3>3. ViewInv'
      BY <1>1, <1>3, <2>1, <3>1, <3>2, UnnoticedKeepsView
    <3> QED BY <1>2, <3>3 DEF TypeInv
  <2> QED BY <2>2, <2>3
<1>7. CASE Happens /\ Crash /\ Gone
  <2>1. events' \in 0..MaxEvents[pages]
    BY <1>1, <1>7, HappensIs
  <2>2. ViewInv'
    BY <1>1, <1>7, <2>1, GoneKeepsView
  <2> QED BY <1>2, <2>2 DEF TypeInv
<1>8. CASE Happens /\ Shutdown /\ Deaf
  <2>1. UNCHANGED <<pages, socket, wire, live>> /\ broadcast' \in BOOLEAN
    BY <1>8 DEF Deaf
  <2>2. events' \in 0..MaxEvents[pages] /\ (Serving => Serving')
    BY <1>1, <1>8, HappensIs, StillServing
  <2>3. ViewInv'
    BY <1>1, <1>3, <2>1, <2>2, UnnoticedKeepsView
  <2> QED BY <1>2, <2>3 DEF TypeInv
<1>9. CASE Close /\ Gone /\ UNCHANGED events
  <2>1. ViewInv'
    BY <1>1, <1>3, <1>9, GoneKeepsView
  <2> QED BY <1>2, <2>1 DEF TypeInv
<1>10. CASE \/ Quietly(Start) \/ Quietly(Debounce)
            \/ \E n \in SaveSlots : Quietly(WriteTemporary(n)) \/ Quietly(Rename(n))
  <2>1. UNCHANGED <<pages, socket, wire, live, broadcast, events>>
    BY <1>10 DEF Quietly, viewVars
  <2>2. Start \/ Debounce \/ \E n \in SaveSlots : WriteTemporary(n) \/ Rename(n)
    BY <1>10 DEF Quietly
  <2>3. Serving => Serving'
    BY <1>1, <2>2, StillServing
  <2>4. ViewInv'
    BY <1>1, <1>3, <2>1, <2>3, UnnoticedKeepsView
  <2> QED BY <1>2, <2>4 DEF TypeInv
<1>11. CASE BroadcastNow
  BY <1>2, <1>11, NowKeepsView DEF TypeInv
<1>12. CASE \E v \in pages : Connect(v) \/ Drop(v) \/ OnMessage(v) \/ OnClose(v) \/ Retry(v)
                            \/ Answer(v) \/ FirstPaint(v)
  BY <1>2, <1>12, PageKeepsView DEF TypeInv
<1> QED BY <1>4, <1>5, <1>6, <1>7, <1>8, <1>9, <1>10, <1>11, <1>12 DEF Next

(***************************************************************************)
(* Types are kept by every step: a preset is created with an id of its     *)
(* name and a place behind the others, what is dragged or found gets a     *)
(* place on the grid, only a controller that serves has pages on the line, *)
(* the save that main awaits is in progress just while it does, and the    *)
(* debounce runs only while edits are listened to.                         *)
(***************************************************************************)
THEOREM ViewersKeepTypes == Spec => []TypeOK
<1>1. Spec => []TypeInv
  BY InitTypeInv, StepTypeInv, PTL DEF Spec
<1> QED BY <1>1, TypeInvIsTypeOK, PTL

-----------------------------------------------------------------------------
(* The saves *)

(***************************************************************************)
(* Every save that has taken its content took what is in memory now, or    *)
(* what was there before an edit.                                          *)
(***************************************************************************)
AgeInv ==
  \A n \in SaveSlots : saves[n] # None /\ saves[n].content # None =>
    saves[n].content = Current(cfg) \/ saves[n].content.config.age < cfg.age

(* Numbers of edits are numbers. *)
LEMMA AgesAreNumbers ==
  ASSUME ConfigInv
  PROVE  /\ cfg.age \in Nat
         /\ disk # None /\ disk.kind \in {"current", "old"} => disk.config.age \in Nat
         /\ \A n \in SaveSlots : saves[n] # None /\ saves[n].content # None =>
              /\ saves[n].content.kind = "current" /\ saves[n].content.config \in Configs
              /\ saves[n].content.config.age \in Nat
<1>1. cfg \in Configs /\ OnDisk(disk) /\ \A c \in Configs : c.age \in Nat
  BY ConfigParts DEF Configs, Config
<1>2. ASSUME NEW n \in SaveSlots, saves[n] # None, saves[n].content # None
      PROVE  saves[n].content.kind = "current" /\ saves[n].content.config \in Configs
  BY <1>2, SaveIs, WrittenIs
<1> QED BY <1>1, <1>2 DEF OnDisk

(* At most what is in memory has the edits of memory. *)
LEMMA AgesAreBounded ==
  ASSUME ConfigInv, AgeInv, NEW n \in SaveSlots, saves[n] # None, saves[n].content # None
  PROVE  saves[n].content.config.age <= cfg.age
<1>1. cfg.age \in Nat /\ saves[n].content.config.age \in Nat
  BY AgesAreNumbers
<1> QED BY <1>1, CurrentIs DEF AgeInv

LEMMA StepAgeInv ==
  ASSUME ConfigInv, AgeInv, ConfigNext \/ UNCHANGED configVars
  PROVE  AgeInv'
<1>1. /\ cfg.age \in Nat
      /\ \A n \in SaveSlots : saves[n] # None /\ saves[n].content # None =>
           saves[n].content.config.age \in Nat
  BY AgesAreNumbers
<1>2. \A n \in SaveSlots : saves[n] # None /\ saves[n].content # None =>
        saves[n].content.config.age <= cfg.age
  BY AgesAreBounded
<1>3. ConfigInv' /\ 0 \in SaveSlots /\ Begun.content = None
  BY StepConfigInv, SavesAre DEF Begun
<1>4. cfg'.age \in Nat
  BY <1>3 DEF ConfigInv, Configs, Config
<1>5. ASSUME cfg' = cfg,
             \A n \in SaveSlots : saves'[n] # None /\ saves'[n].content # None =>
                \/ saves[n] # None /\ saves[n].content = saves'[n].content
                \/ saves'[n].content = Current(cfg)
      PROVE  AgeInv'
  BY <1>5 DEF AgeInv
<1>6. ASSUME cfg'.age > cfg.age,
             \A n \in SaveSlots : saves'[n] # None /\ saves'[n].content # None =>
                saves[n] # None /\ saves[n].content = saves'[n].content
      PROVE  AgeInv'
  <2> SUFFICES ASSUME NEW n \in SaveSlots, saves'[n] # None, saves'[n].content # None
               PROVE  saves'[n].content.config.age < cfg'.age
    BY DEF AgeInv
  <2>1. saves[n] # None /\ saves[n].content # None /\ saves[n].content = saves'[n].content
    BY <1>6
  <2> QED BY <1>1, <1>2, <1>4, <1>6, <2>1
<1>7. CASE UNCHANGED configVars
  BY <1>5, <1>7 DEF configVars, deskSide
<1>8. CASE Change
  BY <1>5, <1>6, <1>8, ChangeMoves DEF Moves
<1>9. CASE Start
  <2>1. \A n \in SaveSlots : saves'[n] = None \/ saves'[n].content = None
    BY <1>3, <1>9, StartIs
  <2> QED BY <2>1 DEF AgeInv
<1>10. CASE Debounce
  <2>1. cfg' = cfg /\ \A n \in SaveSlots : saves'[n] = saves[n] \/ saves'[n].content = None
    BY <1>3, <1>10, DebounceIs
  <2> QED BY <1>5, <2>1
<1>11. CASE Shutdown
  BY <1>5, <1>11 DEF Shutdown, deskSide
<1>12. CASE Close
  <2>1. cfg'.age > cfg.age /\ \A n \in SaveSlots : saves'[n] = saves[n] \/ saves'[n].content = None
    BY <1>3, <1>12, CloseIs
  <2> QED BY <1>6, <2>1
<1>13. CASE Crash
  BY <1>13, CrashIs DEF AgeInv
<1>14. ASSUME NEW n \in SaveSlots, WriteTemporary(n) PROVE AgeInv'
  <2>1. /\ cfg' = cfg /\ saves'[n].content = Current(cfg)
        /\ \A k \in SaveSlots \ {n} : saves'[k] = saves[k]
    BY <1>14, WriteIs
  <2> QED BY <1>5, <2>1
<1>15. ASSUME NEW n \in SaveSlots, Rename(n) PROVE AgeInv'
  <2>1. /\ saves[n] # None /\ Settled(n, TRUE) /\ saves'[n] = None
        /\ \A k \in SaveSlots \ {n} :
              /\ saves[k] = None => saves'[k] = None
              /\ saves[k] # None => saves'[k].content = saves[k].content
    BY <1>15, RenameIs
  <2>2. cfg' = cfg
    BY <2>1, SettledIs
  <2> QED BY <1>5, <2>1, <2>2
<1>16. ASSUME NEW n \in SaveSlots, SaveFails(n) PROVE AgeInv'
  <2>1. /\ saves[n] # None /\ Settled(n, FALSE) /\ saves'[n] = None
        /\ \A k \in SaveSlots \ {n} : saves'[k] = saves[k]
    BY <1>16, FailIs
  <2>2. cfg' = cfg
    BY <2>1, SettledIs
  <2> QED BY <1>5, <2>1, <2>2
<1> QED BY <1>7, <1>8, <1>9, <1>10, <1>11, <1>12, <1>13, <1>14, <1>15, <1>16 DEF ConfigNext

(* What memory and the saves come to, in one. *)
SavesInv == TypeInv /\ AgeInv

LEMMA InitSavesInv == Init => SavesInv
<1>1. ConfigInit => AgeInv
  BY DEF ConfigInit, AgeInv, Idle
<1> QED BY <1>1, InitTypeInv DEF Init, SavesInv

LEMMA StepSavesInv == SavesInv /\ [Next]_vars => SavesInv'
BY StepTypeInv, StepOfController, StepAgeInv DEF SavesInv, TypeInv

-----------------------------------------------------------------------------
(* The file *)

(* What was on disk at first is a configuration, or fits no schema: all but text that is not JSON. *)
NoFileIsGarbled == \A f \in Files : f # None => f.kind # "garbled"

(* A process runs, or one that has ended has left a rename to the system. *)
Writing == Running \/ \E n \in SaveSlots : saves[n] # None

(***************************************************************************)
(* While anything may be written, what is on disk is what the process      *)
(* loaded or wrote last, and it holds the edits of every save but those    *)
(* that are known to be late.                                              *)
(***************************************************************************)
DiskInv ==
  /\ disk # None => disk.kind # "garbled"
  /\ Writing /\ disk # None =>
       /\ absorbed = disk /\ disk.kind \in {"current", "old"}
       /\ disk.config.age <= cfg.age
       /\ \A n \in SaveSlots : saves[n] # None /\ saves[n].content # None /\ ~saves[n].late =>
            disk.config.age <= saves[n].content.config.age

LEMMA InitDiskInv ==
  ASSUME NoFileIsGarbled, ConfigInit
  PROVE  DiskInv
<1>1. disk \in Files /\ proc = "off" /\ \A n \in SaveSlots : saves[n] = None
  BY DEF ConfigInit, Idle
<1> QED BY <1>1 DEF DiskInv, Writing, Running, NoFileIsGarbled

(* The file is replaced by a save with at least its edits, or one that is late, or was put aside before. *)
LEMMA StepDisk ==
  ASSUME ConfigInv, DiskInv, ConfigNext \/ UNCHANGED configVars, disk' # disk
  PROVE  /\ \/ disk = None \/ disk \in aside'
            \/ /\ absorbed = disk /\ disk'.kind = "current"
               /\ disk'.config.age >= disk.config.age \/ overtaken'
         /\ disk # None /\ disk.kind \in {"invalid", "garbled"} => disk \in aside'
<1>1. \/ Start /\ Is("invalid")
      \/ \E n \in SaveSlots : Rename(n)
  <2>1. ~(UNCHANGED configVars)
    BY DEF configVars, diskSide
  <2>2. ~Change
    BY ChangeMoves DEF Moves
  <2>3. ~(Debounce \/ Shutdown \/ Close \/ Crash)
    BY DEF Debounce, Shutdown, Close, Crash, diskSide
  <2>4. ~(\E n \in SaveSlots : WriteTemporary(n) \/ SaveFails(n))
    BY DEF WriteTemporary, SaveFails, diskSide
  <2>5. ASSUME Start PROVE Is("invalid")
    BY <2>5 DEF Start, Quarantine
  <2> QED BY <2>1, <2>2, <2>3, <2>4, <2>5 DEF ConfigNext
<1>2. CASE Start /\ Is("invalid")
  <2>1. aside' = aside \cup {disk}
    BY <1>2 DEF Start, Quarantine
  <2> QED BY <2>1
<1>3. ASSUME NEW n \in SaveSlots, Rename(n)
      PROVE  disk # None =>
               /\ absorbed = disk /\ disk.kind \in {"current", "old"} /\ disk'.kind = "current"
               /\ disk'.config.age >= disk.config.age \/ overtaken'
  <2>1. /\ saves[n] # None /\ saves[n].content # None /\ disk' = saves[n].content
        /\ overtaken' = saves[n].late
    BY <1>3, RenameIs
  <2>2. disk # None =>
          /\ absorbed = disk /\ disk.kind \in {"current", "old"}
          /\ ~saves[n].late => disk.config.age <= saves[n].content.config.age
    BY <2>1 DEF DiskInv, Writing
  <2>3. /\ saves[n].content.kind = "current" /\ saves[n].content.config.age \in Nat
        /\ disk # None /\ disk.kind \in {"current", "old"} => disk.config.age \in Nat
    BY <2>1, AgesAreNumbers
  <2>4. CASE saves[n].late
    BY <2>1, <2>2, <2>3, <2>4
  <2>5. CASE ~saves[n].late
    BY <2>1, <2>2, <2>3, <2>5
  <2> QED BY <2>4, <2>5
<1> QED BY <1>1, <1>2, <1>3

LEMMA StepDiskInv ==
  ASSUME ConfigInv, AgeInv, DiskInv, ConfigNext \/ UNCHANGED configVars
  PROVE  DiskInv'
<1>1. /\ cfg.age \in Nat
      /\ disk # None /\ disk.kind \in {"current", "old"} => disk.config.age \in Nat
      /\ \A n \in SaveSlots : saves[n] # None /\ saves[n].content # None =>
           saves[n].content.kind = "current" /\ saves[n].content.config.age \in Nat
  BY AgesAreNumbers
<1>2. OnDisk(disk) /\ ConfigInv' /\ 0 \in SaveSlots /\ Begun.content = None
  BY ConfigParts, StepConfigInv, SavesAre DEF Begun
<1>3. cfg'.age \in Nat
  BY <1>2 DEF ConfigInv, Configs, Config
<1>4. ASSUME disk' = disk, absorbed' = absorbed, cfg' = cfg \/ cfg'.age > cfg.age,
             Writing' => Writing,
             \A n \in SaveSlots : saves'[n] # None /\ saves'[n].content # None =>
                \/ saves[n] # None /\ saves'[n] = saves[n]
                \/ saves'[n].content = Current(cfg)
      PROVE  DiskInv'
  <2>1. CASE Writing' /\ disk # None
    <3>1. /\ absorbed = disk /\ disk.kind \in {"current", "old"} /\ disk.config.age <= cfg.age
          /\ \A n \in SaveSlots : saves[n] # None /\ saves[n].content # None /\ ~saves[n].late =>
               disk.config.age <= saves[n].content.config.age
      BY <1>4, <2>1 DEF DiskInv
    <3>2. disk.config.age <= cfg'.age
      BY <1>1, <1>3, <1>4, <2>1, <3>1
    <3>3. \A n \in SaveSlots : saves'[n] # None /\ saves'[n].content # None /\ ~saves'[n].late =>
               disk.config.age <= saves'[n].content.config.age
      BY <1>4, <3>1, CurrentIs
    <3> QED BY <1>4, <3>1, <3>2, <3>3 DEF DiskInv
  <2>2. CASE ~(Writing' /\ disk # None)
    BY <1>4, <2>2 DEF DiskInv
  <2> QED BY <2>1, <2>2
<1>5. CASE UNCHANGED configVars
  BY <1>4, <1>5 DEF configVars, diskSide, deskSide, Writing, Running
<1>6. CASE Change
  BY <1>4, <1>6, ChangeMoves DEF Moves, Writing, Running
<1>7. CASE Start
  <2>1. /\ cfg' = Loaded
        /\ absorbed' = IF Is("current") \/ Is("old") THEN disk ELSE None
        /\ disk' = IF Is("invalid") THEN None ELSE disk
        /\ \A n \in SaveSlots : saves'[n] = None \/ saves'[n].content = None
    BY <1>2, <1>7, StartIs
  <2>2. ASSUME disk' # None
        PROVE  /\ absorbed' = disk' /\ disk'.kind \in {"current", "old"}
               /\ disk'.config.age <= cfg'.age
    <3>1. disk' = disk /\ disk # None /\ disk.kind \in {"current", "old"}
      BY <1>2, <2>1, <2>2 DEF Is, OnDisk, DiskInv
    <3>2. absorbed' = disk
      BY <2>1, <3>1 DEF Is
    <3>3. cfg'.age = disk.config.age
      BY <1>2, <2>1, <3>1, LoadedIs
    <3> QED BY <1>1, <3>1, <3>2, <3>3
  <2> QED BY <2>1, <2>2 DEF DiskInv
<1>8. CASE Debounce
  <2>1. /\ UNCHANGED <<disk, absorbed, cfg>> /\ proc = "up"
        /\ \A n \in SaveSlots : saves'[n] = saves[n] \/ saves'[n].content = None
    BY <1>2, <1>8, DebounceIs
  <2> QED BY <1>4, <2>1 DEF Writing, Running
<1>9. CASE Shutdown
  BY <1>4, <1>9 DEF Shutdown, diskSide, deskSide, Writing, Running
<1>10. CASE Close
  <2>1. /\ UNCHANGED <<disk, absorbed>> /\ cfg'.age > cfg.age /\ proc = "closing"
        /\ \A n \in SaveSlots : saves'[n] = saves[n] \/ saves'[n].content = None
    BY <1>2, <1>10, CloseIs
  <2> QED BY <1>4, <2>1 DEF Writing, Running
<1>11. CASE Crash
  <2>1. disk' = disk /\ ~Writing'
    BY <1>11, CrashIs DEF Writing, Running
  <2> QED BY <2>1 DEF DiskInv
<1>12. ASSUME NEW n \in SaveSlots, WriteTemporary(n) PROVE DiskInv'
  <2>1. /\ UNCHANGED <<disk, absorbed, cfg>> /\ Running /\ saves'[n].content = Current(cfg)
        /\ \A k \in SaveSlots \ {n} : saves'[k] = saves[k]
    BY <1>12, WriteIs
  <2> QED BY <1>4, <2>1 DEF Writing
<1>13. ASSUME NEW n \in SaveSlots, Rename(n) PROVE DiskInv'
  <2>1. /\ saves[n] # None /\ saves[n].content # None /\ Settled(n, TRUE)
        /\ disk' = saves[n].content /\ absorbed' = saves[n].content
        /\ saves'[n] = None
        /\ \A k \in SaveSlots \ {n} :
              /\ saves[k] = None => saves'[k] = None
              /\ saves[k] # None =>
                   /\ saves'[k] # None /\ saves'[k].content = saves[k].content
                   /\ saves'[k].late = (saves[k].late \/ Behind(saves[k], saves[n].content))
    BY <1>13, RenameIs
  <2>2. cfg' = cfg
    BY <2>1, SettledIs
  <2>3. disk'.kind = "current" /\ disk'.config.age <= cfg'.age
    BY <1>1, <2>1, <2>2, AgesAreBounded
  <2>4. ASSUME NEW k \in SaveSlots, saves'[k] # None, saves'[k].content # None, ~saves'[k].late
        PROVE  disk'.config.age <= saves'[k].content.config.age
    <3>1. saves[k] # None /\ saves'[k].content = saves[k].content /\ ~Behind(saves[k], saves[n].content)
      BY <2>1, <2>4
    <3>2. ~(saves[k].content.config.age < saves[n].content.config.age)
      BY <2>4, <3>1 DEF Behind
    <3>3. saves[k].content.config.age \in Nat /\ saves[n].content.config.age \in Nat
      BY <1>1, <2>1, <2>4, <3>1
    <3> QED BY <2>1, <3>1, <3>2, <3>3
  <2> QED BY <2>1, <2>3, <2>4 DEF DiskInv
<1>14. ASSUME NEW n \in SaveSlots, SaveFails(n) PROVE DiskInv'
  <2>1. /\ Running /\ saves[n] # None /\ UNCHANGED <<disk, absorbed>> /\ Settled(n, FALSE)
        /\ saves'[n] = None /\ \A k \in SaveSlots \ {n} : saves'[k] = saves[k]
    BY <1>14, FailIs
  <2>2. cfg' = cfg
    BY <2>1, SettledIs
  <2> QED BY <1>4, <2>1, <2>2 DEF Writing
<1> QED BY <1>5, <1>6, <1>7, <1>8, <1>9, <1>10, <1>11, <1>12, <1>13, <1>14 DEF ConfigNext

(***************************************************************************)
(* The file never loses what was in it but in one case, however many saves *)
(* overlap, in whatever order they land, fail or are cut off by a crash:   *)
(* it is replaced only after it was set aside, or by a configuration that  *)
(* began with it and holds at least its edits, unless that one lands after *)
(* a save with more edits that had overtaken it.  A file that fits no      *)
(* schema is set aside.  Text that is not JSON is left out: main takes it  *)
(* for no file, and the first save overwrites it.                          *)
(***************************************************************************)
THEOREM FileKeepsEdits ==
  ASSUME NoFileIsGarbled
  PROVE  Spec => DiskKeepsEdits /\ InvalidIsSetAside
<1> DEFINE Inv == SavesInv /\ DiskInv
<1>1. Init => Inv
  BY InitSavesInv, InitDiskInv DEF Init
<1>2. Inv /\ [Next]_vars => Inv'
  BY StepSavesInv, StepOfController, StepDiskInv DEF SavesInv, TypeInv
<1>3. Inv /\ [Next]_vars =>
        /\ [disk' # disk =>
              \/ disk = None \/ disk \in aside'
              \/ /\ absorbed = disk /\ disk'.kind = "current"
                 /\ disk'.config.age >= disk.config.age \/ overtaken']_configVars
        /\ [disk' # disk /\ disk # None /\ disk.kind \in {"invalid", "garbled"} => disk \in aside']_configVars
  BY StepOfController, StepDisk DEF SavesInv, TypeInv
<1> QED BY <1>1, <1>2, <1>3, PTL DEF Spec, DiskKeepsEdits, InvalidIsSetAside

-----------------------------------------------------------------------------
(* A clean shutdown *)

(* What is in n is of no more use: it holds what memory holds, or will be known to be late. *)
Told(n) == saves[n] = None \/ saves[n].content \in {None, Current(cfg)} \/ saves[n].late

(***************************************************************************)
(* The save of a shutdown takes what memory holds, which nobody edits any  *)
(* more.  What is left to the system when the process has ended is of the  *)
(* same configuration, or late.                                            *)
(***************************************************************************)
ExitInv ==
  /\ proc = "saving" => saves[0].content \in {None, Current(cfg)}
  /\ proc = "ended" => /\ disk = Current(cfg) \/ overtaken
                       /\ \A n \in SaveSlots : Told(n)

(* What lands with the configuration of memory leaves the others late, or the same. *)
LEMMA LandedTells ==
  ASSUME ConfigInv, AgeInv, NEW n \in SaveSlots, Rename(n), saves[n].content = Current(cfg)
  PROVE  disk' = Current(cfg') /\ \A k \in SaveSlots : Told(k)'
<1>1. /\ saves[n] # None /\ saves[n].content # None /\ Settled(n, TRUE) /\ disk' = saves[n].content
      /\ saves'[n] = None
      /\ \A k \in SaveSlots \ {n} :
            /\ saves[k] = None => saves'[k] = None
            /\ saves[k] # None =>
                 /\ saves'[k] # None /\ saves'[k].content = saves[k].content
                 /\ saves'[k].late = (saves[k].late \/ Behind(saves[k], saves[n].content))
  BY RenameIs
<1>2. cfg' = cfg
  BY <1>1, SettledIs
<1>3. ASSUME NEW k \in SaveSlots, k # n, saves[k] # None, saves[k].content \notin {None, Current(cfg)}
      PROVE  saves'[k].late
  <2>1. saves[k].content.config.age < cfg.age
    BY <1>3 DEF AgeInv
  <2>2. Behind(saves[k], saves[n].content)
    BY <1>3, <2>1, CurrentIs DEF Behind
  <2> QED BY <1>1, <1>3, <2>2
<1> QED BY <1>1, <1>2, <1>3 DEF Told

(* What lands while all are told lands late, or with the configuration of memory; the others stay told. *)
LEMMA ToldLands ==
  ASSUME ConfigInv, AgeInv, NEW n \in SaveSlots, Rename(n), \A k \in SaveSlots : Told(k)
  PROVE  (disk' = Current(cfg') \/ overtaken') /\ \A k \in SaveSlots : Told(k)'
<1>1. /\ saves[n] # None /\ saves[n].content # None /\ Settled(n, TRUE) /\ overtaken' = saves[n].late
      /\ saves'[n] = None
      /\ \A k \in SaveSlots \ {n} :
            /\ saves[k] = None => saves'[k] = None
            /\ saves[k] # None =>
                 /\ saves'[k] # None /\ saves'[k].content = saves[k].content
                 /\ saves'[k].late = (saves[k].late \/ Behind(saves[k], saves[n].content))
  BY RenameIs
<1>2. cfg' = cfg
  BY <1>1, SettledIs
<1>3. CASE saves[n].content = Current(cfg)
  BY <1>3, LandedTells
<1>4. CASE saves[n].content # Current(cfg)
  <2>1. overtaken'
    BY <1>1, <1>4 DEF Told
  <2>2. \A k \in SaveSlots : Told(k)'
    BY <1>1, <1>2 DEF Told
  <2> QED BY <2>1, <2>2
<1> QED BY <1>3, <1>4

LEMMA StepExitInv ==
  ASSUME ConfigInv, AgeInv, ExitInv, ConfigNext \/ UNCHANGED configVars
  PROVE  ExitInv'
<1>1. /\ proc \in {"off", "booting", "up", "closing", "saving", "ended"} /\ 0 \in SaveSlots
      /\ timer => proc = "up"
      /\ Begun.content = None
  BY ConfigParts, SavesAre DEF Begun
<1>2. CASE UNCHANGED configVars
  BY <1>2 DEF configVars, diskSide, deskSide, ExitInv, Told
<1>3. CASE Change
  <2>1. Serving /\ proc' = proc
    BY <1>3, ChangeMoves DEF Moves
  <2> QED BY <2>1 DEF Serving, ExitInv
<1>4. CASE Start \/ Shutdown \/ Crash
  BY <1>4 DEF Start, Shutdown, Crash, ExitInv
<1>5. CASE Debounce
  <2>1. proc = "up" /\ proc' = proc
    BY <1>5, DebounceIs
  <2> QED BY <2>1 DEF ExitInv
<1>6. CASE Close
  <2>1. proc' = "saving" /\ saves'[0] = Begun
    BY <1>6, CloseIs
  <2> QED BY <1>1, <2>1 DEF ExitInv
<1>7. ASSUME NEW n \in SaveSlots, WriteTemporary(n) PROVE ExitInv'
  <2>1. /\ UNCHANGED <<cfg, proc>> /\ Running /\ saves'[n].content = Current(cfg)
        /\ \A k \in SaveSlots \ {n} : saves'[k] = saves[k]
    BY <1>7, WriteIs
  <2> QED BY <1>1, <2>1 DEF ExitInv, Running
<1>8. ASSUME NEW n \in SaveSlots, saves[n] # None, NEW ok \in BOOLEAN, Settled(n, ok)
      PROVE  /\ cfg' = cfg
             /\ proc' = "saving" => proc = "saving" /\ n # 0
             /\ proc' = "ended" => proc = "ended" \/ (proc = "saving" /\ n = 0 /\ ok)
  BY <1>8, SettledIs
<1>9. ASSUME NEW n \in SaveSlots, Rename(n) PROVE ExitInv'
  <2>1. /\ saves[n] # None /\ saves[n].content # None /\ Settled(n, TRUE)
        /\ n # 0 /\ saves[0] # None => saves'[0].content = saves[0].content
    BY <1>1, <1>9, RenameIs
  <2>2. /\ cfg' = cfg
        /\ proc' = "saving" => proc = "saving" /\ n # 0
        /\ proc' = "ended" => proc = "ended" \/ (proc = "saving" /\ n = 0)
    BY <1>8, <2>1
  <2>3. proc' = "saving" => saves'[0].content \in {None, Current(cfg')}
    <3>1. proc = "saving" => saves[0] # None
      BY ConfigParts
    <3> QED BY <2>1, <2>2, <3>1 DEF ExitInv
  <2>4. CASE proc' = "ended"
    <3>1. CASE proc = "ended"
      BY <1>9, <2>3, <2>4, <3>1, ToldLands DEF ExitInv
    <3>2. CASE proc = "saving" /\ n = 0
      <4>1. saves[n].content = Current(cfg)
        BY <2>1, <3>2 DEF ExitInv
      <4> QED BY <1>9, <2>3, <2>4, <4>1, LandedTells DEF ExitInv
    <3> QED BY <2>2, <2>4, <3>1, <3>2
  <2> QED BY <2>3, <2>4 DEF ExitInv
<1>10. ASSUME NEW n \in SaveSlots, SaveFails(n) PROVE ExitInv'
  <2>1. /\ Running /\ saves[n] # None /\ Settled(n, FALSE)
        /\ \A k \in SaveSlots \ {n} : saves'[k] = saves[k]
    BY <1>10, FailIs
  <2>2. /\ cfg' = cfg
        /\ proc' = "saving" => proc = "saving" /\ n # 0
        /\ proc' # "ended"
    BY <1>8, <2>1 DEF Running
  <2> QED BY <1>1, <2>1, <2>2 DEF ExitInv
<1> QED BY <1>2, <1>3, <1>4, <1>5, <1>6, <1>7, <1>9, <1>10 DEF ConfigNext

(***************************************************************************)
(* A controller that ends cleanly leaves nothing behind in memory, though  *)
(* shutdown waits for its own save only: what is on disk is the            *)
(* configuration as it last was, with what was wanted last, or a save of   *)
(* before, still under way when the last one landed, has landed after it.  *)
(***************************************************************************)
THEOREM CleanExitSavesAll == Spec => [](proc = "ended" => disk = Current(cfg) \/ overtaken)
<1> DEFINE Inv == SavesInv /\ ExitInv
<1>1. Init => Inv
  BY InitSavesInv DEF Init, ConfigInit, ExitInv
<1>2. Inv /\ [Next]_vars => Inv'
  BY StepSavesInv, StepOfController, StepExitInv DEF SavesInv, TypeInv
<1>3. Inv => (proc = "ended" => disk = Current(cfg) \/ overtaken)
  BY DEF ExitInv
<1> QED BY <1>1, <1>2, <1>3, PTL DEF Spec

-----------------------------------------------------------------------------
(* Presets and places *)

(* What is active is there, and what is known is called what it should be. *)
NamesInv ==
  /\ active # None => active \in IdsIn(cfg)
  /\ proc = "up" => NamesAgree(cfg, names)

LEMMA StepNamesInv ==
  ASSUME ConfigInv, NamesInv, ConfigNext \/ UNCHANGED configVars
  PROVE  NamesInv'
<1>1. CASE UNCHANGED configVars
  BY <1>1 DEF configVars, deskSide, NamesInv
<1>2. CASE Change
  BY <1>2, ChangeMoves DEF Moves, NamesInv
<1>3. CASE Start
  BY <1>3, StartIs DEF NamesInv
<1>4. CASE Debounce
  BY <1>4, DebounceIs DEF NamesInv
<1>5. CASE Shutdown
  BY <1>5 DEF Shutdown, deskSide, NamesInv
<1>6. CASE Close
  <2>1. active' = active /\ proc' = "saving" /\ cfg'.presets = cfg.presets
    BY <1>6, CloseIs
  <2> QED BY <2>1 DEF NamesInv, IdsIn
<1>7. CASE Crash
  BY <1>7, CrashIs DEF NamesInv
<1>8. ASSUME NEW n \in SaveSlots, WriteTemporary(n) PROVE NamesInv'
  BY <1>8, WriteIs DEF NamesInv
<1>9. ASSUME NEW n \in SaveSlots, saves[n] # None, NEW ok \in BOOLEAN, Settled(n, ok) PROVE NamesInv'
  <2>1. /\ UNCHANGED <<cfg, active>>
        /\ n # 0 => proc' = proc /\ names' = names
        /\ n = 0 => proc \in {"booting", "saving"}
        /\ n = 0 /\ proc = "booting" => proc' = (IF ok THEN "up" ELSE "off")
        /\ n = 0 /\ proc = "saving" => proc' # "up"
    BY <1>9, SettledIs
  <2>2. ASSUME n = 0, proc = "booting", ok PROVE NamesAgree(cfg, names')
    <3>1. names' = [e \in Live |-> IF e \in Seeded THEN cfg.overrides[e].name ELSE Absent]
      BY <1>9, <2>2 DEF Settled
    <3> QED BY <3>1 DEF NamesAgree
  <2> QED BY <2>1, <2>2 DEF NamesInv
<1>10. ASSUME NEW n \in SaveSlots, Rename(n) PROVE NamesInv'
  BY <1>9, <1>10 DEF Rename
<1>11. ASSUME NEW n \in SaveSlots, SaveFails(n) PROVE NamesInv'
  BY <1>9, <1>11 DEF SaveFails
<1> QED BY <1>1, <1>2, <1>3, <1>4, <1>5, <1>6, <1>7, <1>8, <1>10, <1>11 DEF ConfigNext

(* Only an edit or a report moves a monitor of a controller that serves, and only those the user drags. *)
LEMMA StepPlaces ==
  ASSUME ConfigInv, ConfigNext \/ UNCHANGED configVars, Serving, proc' # "off"
  PROVE  PlacesAreRespected(cfg, cfg', Dragged)
<1>1. CASE Change
  BY <1>1, ChangeMoves DEF Moves, Keeps
<1>2. CASE Start
  BY <1>2 DEF Start, Running, Serving
<1>3. ASSUME cfg'.placed = cfg.placed PROVE PlacesAreRespected(cfg, cfg', Dragged)
  <2> HIDE DEF Dragged
  <2> QED BY <1>3 DEF PlacesAreRespected
<1>4. CASE Debounce \/ Shutdown \/ UNCHANGED configVars
  BY <1>3, <1>4 DEF Debounce, Shutdown, deskSide, configVars
<1>5. CASE \E n \in SaveSlots : WriteTemporary(n) \/ Rename(n) \/ SaveFails(n)
  BY <1>3, <1>5 DEF WriteTemporary, Rename, SaveFails, Settled, deskSide
<1>6. CASE Close
  BY <1>3, <1>6, CloseIs
<1>7. CASE Crash
  BY <1>7 DEF Crash
<1> QED BY <1>1, <1>2, <1>4, <1>5, <1>6, <1>7 DEF ConfigNext

(* What a step begins with in order is in order after it. *)
LEMMA StepOrder ==
  ASSUME ConfigInv, ConfigNext \/ UNCHANGED configVars, Running \/ proc' = "booting", InOrder(Held)
  PROVE  InOrder(cfg')
<1>1. ASSUME NEW d, d.presets = cfg.presets, d.placed = cfg.placed, d.columns = cfg.columns, InOrder(cfg)
      PROVE  InOrder(d)
  BY <1>1 DEF InOrder
<1>2. CASE Running
  <2>1. InOrder(cfg)
    BY <1>2 DEF Held
  <2>2. CASE Change
    BY <2>1, <2>2, ChangeMoves DEF Moves, Keeps
  <2>3. CASE Start
    BY <1>2, <2>3 DEF Start
  <2>4. CASE Debounce \/ Shutdown \/ UNCHANGED configVars
    BY <2>1, <2>4 DEF Debounce, Shutdown, deskSide, configVars
  <2>5. CASE \E n \in SaveSlots : WriteTemporary(n) \/ Rename(n) \/ SaveFails(n)
    BY <2>1, <2>5 DEF WriteTemporary, Rename, SaveFails, Settled, deskSide
  <2>6. CASE Close
    BY <1>1, <2>1, <2>6, CloseIs
  <2>7. CASE Crash
    BY <2>7, SeedIsInOrder DEF Crash
  <2> QED BY <2>2, <2>3, <2>4, <2>5, <2>6, <2>7 DEF ConfigNext
<1>3. CASE ~Running
  <2>1. Start
    <3>1. ~Change
      BY <1>3, ChangeMoves DEF Moves, Serving, Running
    <3>2. ~(Debounce \/ Shutdown \/ Close \/ Crash)
      BY <1>3, ConfigParts DEF Debounce, Shutdown, Close, Crash, Running
    <3>3. ~(\E n \in SaveSlots : WriteTemporary(n) \/ SaveFails(n))
      BY <1>3 DEF WriteTemporary, SaveFails
    <3>4. ASSUME NEW n \in SaveSlots, Rename(n) PROVE FALSE
      <4>1. saves[n] # None /\ Settled(n, TRUE)
        BY <3>4 DEF Rename
      <4>2. n # 0 => proc' = proc
        BY <4>1, SettledIs
      <4>3. n # 0
        BY <1>3, <4>1, ConfigParts DEF Running
      <4> QED BY <1>3, <4>2, <4>3 DEF Running
    <3>5. ~(UNCHANGED configVars)
      BY <1>3 DEF configVars, Running
    <3> QED BY <3>1, <3>2, <3>3, <3>4, <3>5 DEF ConfigNext
  <2>2. cfg' = Loaded /\ OnDisk(disk)
    BY <2>1, StartIs, ConfigParts
  <2>3. disk # None /\ disk.kind \in {"current", "old"} => InOrder(disk.config)
    BY <1>3 DEF Held, Is
  <2> QED BY <2>2, <2>3, LoadedIs
<1> QED BY <1>2, <1>3

(***************************************************************************)
(* Whatever the files hold, and whichever ids names share: a configuration *)
(* that is in order stays so through edits, discoveries, crashes and       *)
(* restarts (presets told apart by id and by place, a grid that holds      *)
(* every monitor), one that was put out of order by hand is loaded as it   *)
(* is; the active preset is there, what is known bears the name the user   *)
(* gave it, a monitor moves only when it is dragged, and those the         *)
(* controller places are put on no other.                                  *)
(***************************************************************************)
THEOREM PresetsAndPlacesHold == Spec => PresetsAndPlaces
<1> DEFINE Inv == TypeInv /\ NamesInv
           Step == /\ (Running \/ proc' = "booting") /\ InOrder(Held) => InOrder(cfg')
                   /\ active' # None => active' \in IdsIn(cfg')
                   /\ proc' = "up" => NamesAgree(cfg', names')
                   /\ Serving /\ proc' # "off" =>
                        PlacesAreRespected(cfg, cfg', {m \in Monitors : \E x \in Spots : SetPlacement(m, x)})
<1>1. Init => Inv
  BY InitTypeInv DEF Init, ConfigInit, NamesInv
<1>2. Inv /\ [Next]_vars => Inv'
  BY StepTypeInv, StepOfController, StepNamesInv DEF TypeInv
<1>3. ASSUME Inv, [Next]_vars PROVE Step
  <2>1. NamesInv'
    BY <1>2, <1>3
  <2>2. ConfigInv /\ (ConfigNext \/ UNCHANGED configVars)
    BY <1>3, StepOfController DEF TypeInv
  <2>3. (Running \/ proc' = "booting") /\ InOrder(Held) => InOrder(cfg')
    BY <2>2, StepOrder
  <2>4. Serving /\ proc' # "off" => PlacesAreRespected(cfg, cfg', Dragged)
    BY <2>2, StepPlaces
  <2>5. Serving /\ proc' # "off" =>
          PlacesAreRespected(cfg, cfg', {m \in Monitors : \E x \in Spots : SetPlacement(m, x)})
    BY <2>4 DEF Dragged
  <2> QED BY <2>1, <2>3, <2>5 DEF NamesInv
<1>4. Inv /\ [Next]_vars =>
        [/\ (Running \/ proc' = "booting") /\ InOrder(Held) => InOrder(cfg')
         /\ active' # None => active' \in IdsIn(cfg')
         /\ proc' = "up" => NamesAgree(cfg', names')
         /\ Serving /\ proc' # "off" =>
              PlacesAreRespected(cfg, cfg', {m \in Monitors : \E x \in Spots : SetPlacement(m, x)})]_configVars
  BY <1>3
<1> QED BY <1>1, <1>2, <1>4, PTL DEF Spec, PresetsAndPlaces

-----------------------------------------------------------------------------
(* What a page shows *)

(* What a page is about to show, when all that is under way to it has come. *)
Expected(v) == IF wire[v] = <<>> THEN shown[v] ELSE wire[v][Len(wire[v])]

(***************************************************************************)
(* An open page has had a snapshot, which its first paint will not         *)
(* overwrite, and the last one sent is of the desk as it is unless a       *)
(* broadcast is due, of a controller that is not closing.                  *)
(***************************************************************************)
Promised(v) ==
  socket[v] = "open" =>
    /\ wire[v] = <<>> => live[v]
    /\ ~broadcast /\ proc = "up" => Expected(v) = Snapshot

PromiseInv == shown = [v \in pages |-> shown[v]] /\ \A v \in pages : Promised(v)

(* What an open page with nothing under way to it shows, when no broadcast is due. *)
OpenPagesAreCurrent ==
  proc = "up" =>
    \A v \in pages : socket[v] = "open" /\ wire[v] = <<>> /\ ~broadcast => shown[v] = Snapshot

(* A step of a controller that touches nothing shows the same desk, where it has pages on the line. *)
LEMMA SameDesk ==
  ASSUME ConfigInv, Serving, proc' = "up",
         \/ Start \/ Debounce
         \/ \E n \in SaveSlots : WriteTemporary(n) \/ Rename(n) \/ SaveFails(n)
  PROVE  proc = "up" /\ Snapshot' = Snapshot
<1>1. CASE Debounce \/ \E n \in SaveSlots : WriteTemporary(n)
  BY <1>1 DEF Debounce, WriteTemporary, deskSide, Snapshot
<1>2. CASE Start
  BY <1>2 DEF Start, Running, Serving
<1>3. ASSUME NEW n \in SaveSlots, saves[n] # None, NEW ok \in BOOLEAN, Settled(n, ok)
      PROVE  proc = "up" /\ Snapshot' = Snapshot
  <2>1. UNCHANGED <<cfg, active>> /\ n # 0 /\ proc' = proc /\ names' = names
    BY <1>3, SettledIs DEF Serving
  <2> QED BY <2>1 DEF Snapshot
<1>4. CASE \E n \in SaveSlots : Rename(n) \/ SaveFails(n)
  BY <1>3, <1>4 DEF Rename, SaveFails
<1> QED BY <1>1, <1>2, <1>3, <1>4

(* Pages that get nothing keep what they were promised, if it is still so. *)
LEMMA UntouchedPages ==
  ASSUME ViewInv, PromiseInv, UNCHANGED viewVars,
         Serving /\ proc' = "up" => proc = "up" /\ Snapshot' = Snapshot
  PROVE  PromiseInv'
<1>1. UNCHANGED <<pages, broadcast, socket, wire, live, shown>>
  BY DEF viewVars
<1>2. ASSUME NEW v \in pages PROVE Promised(v)'
  <2>1. socket[v] = "open" => Serving
    BY DEF ViewInv
  <2>2. Promised(v) /\ Expected(v)' = Expected(v)
    BY <1>1 DEF PromiseInv, Expected
  <2> QED BY <1>1, <2>1, <2>2 DEF Promised
<1> QED BY <1>1, <1>2 DEF PromiseInv

LEMMA TouchedPages ==
  ASSUME ConfigInv, PromiseInv, Change, Touch
  PROVE  PromiseInv'
<1>1. /\ UNCHANGED <<pages, socket, wire, live, shown>>
      /\ proc = "up" /\ pages # {} => broadcast'
  BY DEF Touch
<1>2. proc' = proc
  BY ChangeMoves DEF Moves
<1> QED BY <1>1, <1>2 DEF PromiseInv, Promised

(* A controller that closes promises nothing more. *)
LEMMA DeafPages ==
  ASSUME PromiseInv, Shutdown, Deaf
  PROVE  PromiseInv'
<1>1. UNCHANGED <<pages, socket, wire, live, shown>> /\ proc' # "up"
  BY DEF Deaf, Shutdown
<1> QED BY <1>1 DEF PromiseInv, Promised

LEMMA DroppedPages ==
  ASSUME PromiseInv, Gone
  PROVE  PromiseInv'
<1>1. /\ UNCHANGED <<pages, wire, live, shown>>
      /\ socket' = [v \in pages |-> IF socket[v] = "open" THEN "ending" ELSE socket[v]]
  BY DEF Gone
<1>2. \A v \in pages : socket'[v] # "open"
  BY <1>1
<1> QED BY <1>1, <1>2 DEF PromiseInv, Promised

LEMMA BroadcastPromises ==
  ASSUME TypeInv, PromiseInv, BroadcastNow
  PROVE  PromiseInv'
<1>1. /\ UNCHANGED <<cfg, names, active, proc, pages, socket, live, shown>>
      /\ wire' = [v \in pages |-> IF socket[v] = "open" THEN Append(wire[v], Snapshot) ELSE wire[v]]
  BY DEF BroadcastNow, configVars, deskSide
<1>2. Snapshot' = Snapshot
  BY <1>1 DEF Snapshot
<1>3. ASSUME NEW v \in pages, socket[v] = "open"
      PROVE  wire'[v] # <<>> /\ wire'[v][Len(wire'[v])] = Snapshot
  <2>1. wire'[v] = Append(wire[v], Snapshot) /\ wire[v] \in Seq(Snapshots) /\ Snapshot \in Snapshots
    BY <1>1, <1>3, SnapshotIs DEF TypeInv, ViewInv
  <2>2. Len(wire[v]) \in Nat /\ Len(wire'[v]) = Len(wire[v]) + 1 /\ wire'[v][Len(wire[v]) + 1] = Snapshot
    BY <2>1, AppendProperties, LenProperties
  <2>3. Len(wire'[v]) # 0
    BY <2>2
  <2>4. wire'[v] # <<>>
    BY <2>3, EmptySeq
  <2> QED BY <2>2, <2>4
<1> QED BY <1>1, <1>2, <1>3 DEF PromiseInv, Promised, Expected

LEMMA PagePromises ==
  ASSUME TypeInv, PromiseInv, NEW v \in pages,
         Connect(v) \/ Drop(v) \/ OnMessage(v) \/ OnClose(v) \/ Retry(v) \/ Answer(v) \/ FirstPaint(v)
  PROVE  PromiseInv'
<1>1. /\ UNCHANGED <<cfg, names, active, proc, pages, broadcast>>
      /\ Snapshot' = Snapshot
  BY DEF Connect, Drop, OnMessage, OnClose, Retry, Answer, FirstPaint, configVars, deskSide, Snapshot
<1>2. /\ socket = [p \in pages |-> socket[p]] /\ wire = [p \in pages |-> wire[p]]
      /\ live = [p \in pages |-> live[p]] /\ shown = [p \in pages |-> shown[p]]
      /\ wire[v] \in Seq(Snapshots)
  BY DEF TypeInv, ViewInv, PromiseInv
<1>3. SUFFICES ASSUME shown' = [p \in pages |-> shown'[p]]
               PROVE  \A p \in pages : Promised(p)'
  <2>1. shown' = [p \in pages |-> shown'[p]]
    BY <1>2 DEF Connect, Drop, OnMessage, OnClose, Retry, Answer, FirstPaint, Paint
  <2> QED BY <1>1, <2>1 DEF PromiseInv
<1>4. SUFFICES ASSUME NEW p \in pages, socket'[p] = "open" PROVE Promised(p)'
  BY DEF Promised
<1>5. Promised(p)
  BY DEF PromiseInv
<1>6. CASE /\ socket'[p] = socket[p] /\ wire'[p] = wire[p] /\ live'[p] = live[p] /\ shown'[p] = shown[p]
  BY <1>1, <1>5, <1>6 DEF Promised, Expected
<1>7. CASE p # v
  <2>1. socket'[p] = socket[p] /\ wire'[p] = wire[p] /\ live'[p] = live[p] /\ shown'[p] = shown[p]
    BY <1>2, <1>7 DEF Connect, Drop, OnMessage, OnClose, Retry, Answer, FirstPaint, Paint
  <2> QED BY <1>6, <2>1
<1>8. CASE p = v /\ Connect(v)
  <2>1. Serving /\ wire'[v] = <<Snapshot>>
    BY <1>2, <1>4, <1>8 DEF Connect
  <2>2. wire'[v] # <<>> /\ wire'[v][Len(wire'[v])] = Snapshot
    BY <2>1
  <2> QED BY <1>1, <1>8, <2>2 DEF Promised, Expected
<1>9. CASE p = v /\ (Drop(v) \/ OnClose(v) \/ Retry(v))
  BY <1>2, <1>4, <1>9 DEF Drop, OnClose, Retry
<1>10. CASE p = v /\ OnMessage(v)
  <2>1. /\ wire[v] # <<>> /\ shown'[v] = Head(wire[v]) /\ live'[v] = TRUE /\ wire'[v] = Tail(wire[v])
        /\ socket'[v] = socket[v]
    BY <1>2, <1>10 DEF OnMessage
  <2>2. Expected(v)' = Expected(v)
    <3> DEFINE line == wire[v]
    <3>1. line \in Seq(Snapshots) /\ line # <<>> /\ Len(line) \in Nat
      BY <1>2, <2>1, LenProperties
    <3> HIDE DEF line
    <3> DEFINE rest == Tail(line)
    <3>2. /\ rest \in Seq(Snapshots) /\ Len(rest) = Len(line) - 1 /\ Head(line) = line[1]
          /\ \A i \in 1..Len(rest) : rest[i] = line[i + 1]
      BY <3>1, HeadTailProperties
    <3> HIDE DEF rest
    <3>3. CASE rest = <<>>
      <4>1. Len(rest) = 0
        BY <3>3, EmptySeq
      <4>2. Len(line) = 1
        BY <3>1, <3>2, <4>1
      <4> QED BY <2>1, <3>1, <3>2, <3>3, <4>2 DEF Expected, line, rest
    <3>4. CASE rest # <<>>
      <4>1. Len(rest) \in 1..Len(rest) /\ Len(rest) + 1 = Len(line)
        BY <3>1, <3>2, <3>4, EmptySeq
      <4>2. rest[Len(rest)] = line[Len(line)]
        BY <3>2, <4>1
      <4> QED BY <2>1, <3>1, <3>4, <4>2 DEF Expected, line, rest
    <3> QED BY <3>3, <3>4
  <2> QED BY <1>1, <1>5, <1>10, <2>1, <2>2 DEF Promised
<1>11. CASE p = v /\ FirstPaint(v)
  <2>1. UNCHANGED <<socket, wire, live>> /\ shown' = Paint(v)
    BY <1>11 DEF FirstPaint
  <2>2. live[v] => shown' = shown
    BY <2>1 DEF Paint
  <2>3. Expected(v)' = Expected(v)
    BY <1>4, <1>5, <1>11, <2>1, <2>2 DEF Promised, Expected
  <2> QED BY <1>1, <1>5, <1>11, <2>1, <2>3 DEF Promised
<1>12. CASE Answer(v)
  BY <1>6, <1>12 DEF Answer
<1> QED BY <1>7, <1>8, <1>9, <1>10, <1>11, <1>12

LEMMA InitPromises == Init => PromiseInv
BY DEF Init, PromiseInv, Promised

LEMMA StepPromises == TypeInv /\ PromiseInv /\ [Next]_vars => PromiseInv'
<1> SUFFICES ASSUME TypeInv, PromiseInv, [Next]_vars PROVE PromiseInv'
  OBVIOUS
<1>1. ConfigInv /\ ViewInv
  BY DEF TypeInv
<1>2. CASE UNCHANGED vars
  <2>1. UNCHANGED viewVars /\ UNCHANGED <<cfg, names, active, proc>>
    BY <1>2 DEF vars, configVars, deskSide
  <2>2. Snapshot' = Snapshot
    BY <2>1 DEF Snapshot
  <2> QED BY <1>1, <2>1, <2>2, UntouchedPages
<1>3. CASE Happens /\ Change /\ Touch
  BY <1>1, <1>3, TouchedPages
<1>4. ASSUME NEW n \in SaveSlots,
             Happens /\ SaveFails(n) /\ (IF n = 0 THEN Gone ELSE UNCHANGED viewVars)
      PROVE  PromiseInv'
  <2>1. CASE Gone
    BY <2>1, DroppedPages
  <2>2. CASE UNCHANGED viewVars
    <3>1. Serving /\ proc' = "up" => proc = "up" /\ Snapshot' = Snapshot
      BY <1>1, <1>4, SameDesk
    <3> QED BY <1>1, <2>2, <3>1, UntouchedPages
  <2> QED BY <1>4, <2>1, <2>2
<1>5. CASE Happens /\ Crash /\ Gone
  BY <1>5, DroppedPages
<1>9. CASE Close /\ Gone /\ UNCHANGED events
  BY <1>9, DroppedPages
<1>6. CASE \/ Quietly(Start) \/ Quietly(Debounce)
           \/ \E n \in SaveSlots : Quietly(WriteTemporary(n)) \/ Quietly(Rename(n))
  <2>1. /\ UNCHANGED viewVars
        /\ Start \/ Debounce \/ \E n \in SaveSlots : WriteTemporary(n) \/ Rename(n)
    BY <1>6 DEF Quietly
  <2>2. Serving /\ proc' = "up" => proc = "up" /\ Snapshot' = Snapshot
    BY <1>1, <2>1, SameDesk
  <2> QED BY <1>1, <2>1, <2>2, UntouchedPages
<1>10. CASE Happens /\ Shutdown /\ Deaf
  BY <1>10, DeafPages
<1>7. CASE BroadcastNow
  BY <1>7, BroadcastPromises
<1>8. CASE \E v \in pages : Connect(v) \/ Drop(v) \/ OnMessage(v) \/ OnClose(v) \/ Retry(v)
                            \/ Answer(v) \/ FirstPaint(v)
  BY <1>8, PagePromises
<1> QED BY <1>2, <1>3, <1>4, <1>5, <1>6, <1>7, <1>8, <1>9, <1>10 DEF Next

(***************************************************************************)
(* No change is left untold: an open page with nothing under way to it     *)
(* shows the desk as it is, or a broadcast of server.ts is due.  The rest  *)
(* of ViewersCatchUp is that broadcasts come and frames arrive.            *)
(***************************************************************************)
THEOREM PagesLagOnlyWhileTold == Spec => []OpenPagesAreCurrent
<1>1. PromiseInv => OpenPagesAreCurrent
  BY DEF PromiseInv, Promised, Expected, OpenPagesAreCurrent
<1>2. Init => TypeInv /\ PromiseInv
  BY InitTypeInv, InitPromises
<1>3. TypeInv /\ PromiseInv /\ [Next]_vars => TypeInv' /\ PromiseInv'
  BY StepTypeInv, StepPromises
<1> QED BY <1>1, <1>2, <1>3, PTL DEF Spec

-----------------------------------------------------------------------------
(* Edits are on their way *)

(***************************************************************************)
(* What is in memory and not on disk has its debounce running or a save    *)
(* that has not taken its content yet, or has taken what is in memory now, *)
(* unless a save has failed since, or the save that landed last was late.  *)
(***************************************************************************)
EditsOnTheirWay ==
  proc \in {"booting", "up"} =>
    \/ timer
    \/ \E n \in SaveSlots : saves[n] # None /\ saves[n].content \in {None, Current(cfg)}
    \/ failed
    \/ disk = Current(cfg) \/ overtaken

(* The same, with what is left of the saves once memory is on disk. *)
OnTheirWay ==
  proc \in {"booting", "up"} =>
    \/ timer
    \/ \E n \in SaveSlots : saves[n] # None /\ saves[n].content \in {None, Current(cfg)}
    \/ failed
    \/ /\ disk = Current(cfg) \/ overtaken
       /\ \A n \in SaveSlots : Told(n)

LEMMA EditStartsTimer ==
  ASSUME Change, proc = "up"
  PROVE  timer' \/ (cfg' = cfg /\ timer' = timer)
<1>1. ASSUME NEW config, Edited(config) PROVE timer'
  BY <1>1 DEF Edited
<1>2. ASSUME NEW reports, ReportMonitors(reports) PROVE timer' \/ (cfg' = cfg /\ timer' = timer)
  BY <1>1, <1>2 DEF ReportMonitors
<1>3. CASE \E n \in Names : CreatePreset(n)
  BY <1>1, <1>3 DEF CreatePreset
<1>4. CASE \E id \in PresetIds : \/ \E assigned \in BOOLEAN : UpdatePreset(id, assigned)
                               \/ DeletePreset(id)
                               \/ ApplyPreset(id)
  BY <1>1, <1>4 DEF UpdatePreset, DeletePreset, ApplyPreset
<1>5. CASE \E e \in Entities, patch \in Patches : SetOverride(e, patch)
  BY <1>1, <1>5 DEF SetOverride
<1>6. CASE \E m \in Monitors, x \in Spots : SetPlacement(m, x)
  BY <1>1, <1>6 DEF SetPlacement
<1>7. CASE \E c \in Declared : DeclareComputer(c)
  BY <1>1, <1>7 DEF DeclareComputer
<1>9. CASE \E wiring \in Wirings : SetWiringOverride(wiring[1], wiring[2])
  BY <1>1, <1>9 DEF SetWiringOverride
<1>8. CASE \E reports \in Reports : Inventory(reports) \/ \E c \in Computers : Register(c, reports)
  BY <1>2, <1>8 DEF Inventory, Register
<1> QED BY <1>3, <1>4, <1>5, <1>6, <1>7, <1>8, <1>9 DEF Change

LEMMA StepOnTheirWay ==
  ASSUME ConfigInv, AgeInv, OnTheirWay, ConfigNext \/ UNCHANGED configVars
  PROVE  OnTheirWay'
<1>1. /\ proc \in {"off", "booting", "up", "closing", "saving", "ended"}
      /\ 0 \in SaveSlots /\ Begun.content = None /\ Begun # None
  BY ConfigParts, SavesAre DEF Begun
<1>2. CASE UNCHANGED configVars
  BY <1>2 DEF configVars, diskSide, deskSide, OnTheirWay, Told
<1>3. CASE Change
  <2>1. Serving /\ UNCHANGED <<disk, failed, overtaken, proc, saves>>
    BY <1>3, ChangeMoves DEF Moves
  <2>2. proc = "up" => timer' \/ (cfg' = cfg /\ timer' = timer)
    BY <1>3, EditStartsTimer
  <2> QED BY <2>1, <2>2 DEF Serving, OnTheirWay, Told
<1>4. CASE Start
  <2>1. saves'[0] = Begun
    BY <1>4, StartIs
  <2> QED BY <1>1, <2>1 DEF OnTheirWay
<1>5. CASE Shutdown \/ Crash \/ Close
  BY <1>5 DEF Shutdown, Crash, Close, OnTheirWay
<1>6. CASE Debounce
  <2>1. \E n \in SaveSlots : saves'[n] = Begun
    BY <1>6, DebounceIs
  <2> QED BY <1>1, <2>1 DEF OnTheirWay
<1>7. ASSUME NEW n \in SaveSlots, WriteTemporary(n) PROVE OnTheirWay'
  <2>1. cfg' = cfg /\ saves'[n] # None /\ saves'[n].content = Current(cfg)
    BY <1>7, WriteIs
  <2> QED BY <2>1 DEF OnTheirWay
<1>8. ASSUME NEW n \in SaveSlots, Rename(n) PROVE OnTheirWay'
  <2>1. /\ saves[n] # None /\ saves[n].content # None /\ Settled(n, TRUE)
        /\ failed' = (failed /\ saves[n].content # Current(cfg))
        /\ \A k \in SaveSlots \ {n} : saves[k] # None =>
             saves'[k] # None /\ saves'[k].content = saves[k].content
    BY <1>8, RenameIs
  <2>2. /\ UNCHANGED <<cfg, timer>>
        /\ proc' \in {"booting", "up"} => proc \in {"booting", "up"}
    BY <2>1, SettledIs
  <2>3. CASE saves[n].content = Current(cfg)
    BY <1>8, <2>3, LandedTells DEF OnTheirWay
  <2>4. CASE saves[n].content # Current(cfg)
    <3>1. SUFFICES ASSUME proc \in {"booting", "up"} PROVE OnTheirWay'
      BY <2>2 DEF OnTheirWay
    <3>2. CASE timer
      BY <2>2, <3>2 DEF OnTheirWay
    <3>3. CASE \E k \in SaveSlots : saves[k] # None /\ saves[k].content \in {None, Current(cfg)}
      BY <2>1, <2>2, <2>4, <3>3 DEF OnTheirWay
    <3>4. CASE failed
      BY <2>1, <2>4, <3>4 DEF OnTheirWay
    <3>5. CASE \A k \in SaveSlots : Told(k)
      BY <1>8, <3>5, ToldLands DEF OnTheirWay
    <3> QED BY <3>1, <3>2, <3>3, <3>4, <3>5 DEF OnTheirWay
  <2> QED BY <2>3, <2>4
<1>9. ASSUME NEW n \in SaveSlots, SaveFails(n) PROVE OnTheirWay'
  BY <1>9, FailIs DEF OnTheirWay
<1> QED BY <1>2, <1>3, <1>4, <1>5, <1>6, <1>7, <1>8, <1>9 DEF ConfigNext

(***************************************************************************)
(* No edit is forgotten (markConfigDirty, saveTimer): of a controller that *)
(* is up, what is in memory is on disk, or its debounce runs, or a save is *)
(* under way that takes it along, however edits fall between the steps of  *)
(* saves and whatever the order in which these land; but for a save that   *)
(* failed, which is logged and not tried again before the next edit, and   *)
(* for one that landed after a save with more edits.  (What EditsReachDisk *)
(* needs besides is that timers fire and saves end.)                       *)
(***************************************************************************)
THEOREM NoEditIsForgotten == Spec => []EditsOnTheirWay
<1> DEFINE Inv == SavesInv /\ OnTheirWay
<1>1. Init => Inv
  BY InitSavesInv DEF Init, ConfigInit, OnTheirWay
<1>2. Inv /\ [Next]_vars => Inv'
  BY StepSavesInv, StepOfController, StepOnTheirWay DEF SavesInv, TypeInv
<1>3. Inv => EditsOnTheirWay
  BY DEF OnTheirWay, EditsOnTheirWay
<1> QED BY <1>1, <1>2, <1>3, PTL DEF Spec
=============================================================================
