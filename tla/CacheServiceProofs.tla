-------------------------- MODULE CacheServiceProofs --------------------------
(***************************************************************************)
(* The invariants of CacheService hold of every instance.                  *)
(*                                                                         *)
(* Every step leaves the cache as it is, removes keys from it, empties it, *)
(* moves one key to the front, or pushes one entry and then removes keys   *)
(* (lemma StepShapes).  Each invariant is kept by removing keys, by moving *)
(* to the front and by pushing (one lemma each), hence by every step.      *)
(* The last parts are about the loop that resolves a rule, which has found *)
(* the best of the rules gone through (lemma BestImproves), and about the  *)
(* order of last use.                                                      *)
(***************************************************************************)
EXTENDS CacheRecency, RuleResolution, FiniteSums

CountsMemory(c) == c.memory = SizeOf(c, Held(c))

Sound(c) == WellTyped(c) /\ ListsEntries(c) /\ IndexesTags(c) /\ CountsMemory(c)

(* The inductive invariant: the list, the index, the memory count and the map agree,
   and the limits in force are respected. *)
Inv == TypeOK /\ OrderExact /\ TagIndexExact /\ MemoryExact /\ WithinLimits

-------------------------------------------------------------------------------
(* Sizes *)

Sizes(c) == [k \in Held(c) |-> c.entries[k].response.size]

LEMMA HeldFinite ==
  ASSUME NEW c, WellTyped(c)
  PROVE  IsFiniteSet(Held(c)) /\ Cardinality(Held(c)) \in Nat
  BY KeyAssumption, FS_Subset, FS_CardinalityType DEF WellTyped

LEMMA SizesTyped ==
  ASSUME NEW c, WellTyped(c)
  PROVE  \A k \in Held(c) : Sizes(c)[k] \in Nat
<1>1. \A k \in Held(c) : c.entries[k].response \in Responses
  BY DEF WellTyped, Entries
<1> QED BY <1>1, ResponseAssumption DEF Sizes

(* The sum the model takes is the one the lemmas are about. *)
LEMMA SizeIsSum ==
  ASSUME NEW c, NEW ks \in SUBSET Held(c), IsFiniteSet(ks)
  PROVE  SizeOf(c, ks) = Sum(Sizes(c), ks)
<1> DEFINE SumsSizes(g) ==
             g = [s \in SUBSET ks |->
                    IF s = {} THEN 0
                    ELSE c.entries[Chosen(s)].response.size + g[s \ {Chosen(s)}]]
<1>1. SizeOf(c, ks) = (CHOOSE g : SumsSizes(g))[ks]
  BY DEF SizeOf, MapThenSumSet, MapThenFoldSet, Chosen
<1>2. ASSUME NEW s \in SUBSET ks, s # {}
      PROVE  Sizes(c)[Chosen(s)] = c.entries[Chosen(s)].response.size
  BY <1>2, ChosenIn DEF Sizes
<1>3. \A g : SumsSizes(g) <=> Sums(g, Sizes(c), ks)
  BY <1>2 DEF Sums
<1> DEFINE h == CHOOSE g : SumsSizes(g)
<1> HIDE DEF SumsSizes
<1>4. SumsSizes(h)
  BY <1>3, SumsExist
<1>5. Sums(h, Sizes(c), ks)
  BY <1>3, <1>4
<1> HIDE DEF h
<1> QED BY <1>1, <1>5, SumIs DEF h

-------------------------------------------------------------------------------
(* Removing keys *)

LEMMA WithoutHeld ==
  ASSUME NEW c, NEW ks
  PROVE  /\ Held(Without(c, ks)) = Held(c) \ ks
         /\ \A k \in Held(c) \ ks : Without(c, ks).entries[k] = c.entries[k]
  BY DEF Without, Held

LEMMA WithoutOrder ==
  ASSUME NEW c, NEW ks, ListsEntries(c)
  PROVE  ListsEntries(Without(c, ks))
<1> DEFINE w == Without(c, ks)
<1>1. w.order = {p \in c.order :
                   p[1] \notin ks \intersect Held(c) /\ p[2] \notin ks \intersect Held(c)}
  BY DEF Without
<1>2. Held(w) = Held(c) \ ks
  BY WithoutHeld
<1>3. \A a, b : <<a, b>> \in w.order <=> <<a, b>> \in c.order /\ a \notin ks /\ b \notin ks
  BY <1>1 DEF ListsEntries
<1>4. w.order \subseteq Held(w) \X Held(w)
  BY <1>1, <1>2 DEF ListsEntries
<1> QED BY <1>2, <1>3, <1>4 DEF ListsEntries

(* What remains of each tag's set, and which tags remain *)
LEMMA WithoutTags ==
  ASSUME NEW c, NEW ks, IndexesTags(c)
  PROVE  IndexesTags(Without(c, ks))
<1> DEFINE w == Without(c, ks)
           gone == ks \intersect Held(c)
           keysOf(t) == {k \in c.tags[t] : ~(k \in gone /\ t \in c.entries[k].tags)}
           emptied == {t \in DOMAIN c.tags :
                         (\E k \in gone : t \in c.entries[k].tags) /\ keysOf(t) = {}}
<1>1. w.tags = [t \in DOMAIN c.tags \ emptied |-> keysOf(t)]
  BY DEF Without
<1>2. /\ Held(w) = Held(c) \ ks
      /\ \A k \in Held(w) : w.entries[k] = c.entries[k]
  BY WithoutHeld
<1>3. \A t \in DOMAIN c.tags : keysOf(t) = {k \in Held(w) : t \in w.entries[k].tags}
  BY <1>2 DEF IndexesTags
<1>4. \A t \in DOMAIN w.tags : w.tags[t] = {k \in Held(w) : t \in w.entries[k].tags}
  BY <1>1, <1>3
<1>5. \A t \in DOMAIN c.tags : \E k \in Held(c) : t \in c.entries[k].tags
  BY DEF IndexesTags
<1>6. \A t \in DOMAIN c.tags : t \in emptied <=> keysOf(t) = {}
  <2>1. SUFFICES ASSUME NEW t \in DOMAIN c.tags, keysOf(t) = {}
                 PROVE  \E k \in gone : t \in c.entries[k].tags
    OBVIOUS
  <2>2. PICK k \in Held(c) : t \in c.entries[k].tags
    BY <1>5
  <2>3. k \in c.tags[t]
    BY <2>2 DEF IndexesTags
  <2> QED BY <2>1, <2>2, <2>3
<1>7. DOMAIN w.tags = {t \in DOMAIN c.tags : keysOf(t) # {}}
  BY <1>1, <1>6
<1>8. ASSUME NEW t
      PROVE  t \in DOMAIN w.tags <=> \E k \in Held(w) : t \in w.entries[k].tags
  <2>1. CASE t \in DOMAIN c.tags
    BY <1>3, <1>7, <2>1
  <2>2. CASE t \notin DOMAIN c.tags
    BY <1>2, <1>7, <2>2 DEF IndexesTags
  <2> QED BY <2>1, <2>2
<1>9. DOMAIN w.tags = UNION {w.entries[k].tags : k \in Held(w)}
  BY <1>8
<1> QED BY <1>4, <1>9 DEF IndexesTags

LEMMA WithoutTyped ==
  ASSUME NEW c, NEW ks, WellTyped(c)
  PROVE  WellTyped(Without(c, ks))
<1> DEFINE w == Without(c, ks)
           gone == ks \intersect Held(c)
           keysOf(t) == {k \in c.tags[t] : ~(k \in gone /\ t \in c.entries[k].tags)}
           emptied == {t \in DOMAIN c.tags :
                         (\E k \in gone : t \in c.entries[k].tags) /\ keysOf(t) = {}}
<1>1. w = [entries |-> w.entries, order |-> w.order, tags |-> w.tags, memory |-> w.memory]
  BY DEF Without
<1>2. Held(w) = Held(c) \ ks /\ Held(w) \subseteq Keys
  BY WithoutHeld DEF WellTyped
<1>3. w.entries \in [Held(w) -> Entries]
  <2>1. w.entries = [k \in Held(c) \ gone |-> c.entries[k]]
    BY DEF Without
  <2> QED BY <1>2, <2>1 DEF WellTyped
<1>4. w.order \subseteq Keys \X Keys
  <2>1. w.order \subseteq c.order
    BY DEF Without
  <2> QED BY <2>1 DEF WellTyped
<1>5. w.tags = [t \in DOMAIN c.tags \ emptied |-> keysOf(t)]
  BY DEF Without
<1>6. \A t \in DOMAIN c.tags : keysOf(t) \subseteq Keys
  BY DEF WellTyped
<1>7. DOMAIN w.tags \subseteq Tags /\ w.tags \in [DOMAIN w.tags -> SUBSET Keys]
  BY <1>5, <1>6 DEF WellTyped
<1> QED BY <1>1, <1>2, <1>3, <1>4, <1>7 DEF WellTyped

LEMMA WithoutMemory ==
  ASSUME NEW c, NEW ks, WellTyped(c), CountsMemory(c)
  PROVE  CountsMemory(Without(c, ks))
<1> DEFINE w == Without(c, ks)
           gone == ks \intersect Held(c)
<1>1. /\ Held(w) = Held(c) \ gone
      /\ \A k \in Held(w) : w.entries[k] = c.entries[k]
  BY WithoutHeld
<1>2. w.memory = SizeOf(c, Held(c)) - SizeOf(c, gone)
  BY DEF Without, CountsMemory
<1>3. /\ IsFiniteSet(Held(c)) /\ IsFiniteSet(gone) /\ IsFiniteSet(Held(w))
      /\ gone \in SUBSET Held(c) /\ Held(w) \in SUBSET Held(c)
  BY <1>1, HeldFinite, FS_Subset
<1> HIDE DEF w, gone
<1>4. /\ SizeOf(c, Held(c)) = Sum(Sizes(c), Held(c))
      /\ SizeOf(c, gone) = Sum(Sizes(c), gone)
      /\ SizeOf(w, Held(w)) = Sum(Sizes(w), Held(w))
  BY <1>3, SizeIsSum
<1>5. Sum(Sizes(w), Held(w)) = Sum(Sizes(c), Held(w))
  <2>1. \A k \in Held(w) : Sizes(w)[k] = Sizes(c)[k]
    BY <1>1, <1>3 DEF Sizes
  <2> QED BY <1>3, <2>1, SumSame
<1>6. Sum(Sizes(c), Held(w)) = Sum(Sizes(c), Held(c)) - Sum(Sizes(c), gone)
  <2>1. \A k \in Held(c) : Sizes(c)[k] \in Int
    BY SizesTyped
  <2> QED BY <1>1, <1>3, <2>1, SumWithout
<1> QED BY <1>2, <1>4, <1>5, <1>6 DEF CountsMemory, w

LEMMA WithoutSound ==
  ASSUME NEW c, NEW ks, Sound(c)
  PROVE  Sound(Without(c, ks))
  BY WithoutOrder, WithoutTags, WithoutTyped, WithoutMemory DEF Sound

LEMMA EmptySound == Sound(EmptyCache) /\ Held(EmptyCache) = {} /\ EmptyCache.memory = 0
<1>1. Held(EmptyCache) = {} /\ EmptyCache.memory = 0
  BY DEF EmptyCache, Held
<1>2. SizeOf(EmptyCache, {}) = 0
  BY <1>1, SizeIsSum, SumEmpty, FS_EmptySet
<1>3. CountsMemory(EmptyCache)
  BY <1>1, <1>2 DEF CountsMemory
<1> QED BY <1>1, <1>3 DEF Sound, EmptyCache, WellTyped, ListsEntries, IndexesTags, Held

-------------------------------------------------------------------------------
(* A hit, and pushing a new entry *)

LEMMA FrontOrder ==
  ASSUME NEW c, NEW k, NEW d, ListsEntries(c),
         d.order = MoveToFront(c.order, k, Held(c)),
         Held(d) = Held(c) \union {k}
  PROVE  ListsEntries(d)
<1>1. \A a, b : <<a, b>> \in d.order <=>
                  \/ <<a, b>> \in c.order /\ a # k /\ b # k
                  \/ a = k /\ b \in Held(c) \ {k}
  BY DEF MoveToFront
<1>2. d.order \subseteq Held(d) \X Held(d)
  BY DEF MoveToFront, ListsEntries
<1> QED BY <1>1, <1>2 DEF ListsEntries

LEMMA HitSound ==
  ASSUME NEW c, NEW k \in Held(c), Sound(c)
  PROVE  Sound(Touched(c, k)) /\ Held(Touched(c, k)) = Held(c)
<1> DEFINE d == Touched(c, k)
           e == c.entries[k]
<1>1. /\ d = [entries |-> d.entries, order |-> d.order, tags |-> d.tags, memory |-> d.memory]
      /\ d.entries = [c.entries EXCEPT ![k] = [e EXCEPT !.hits = e.hits + 1]]
      /\ d.order = MoveToFront(c.order, k, Held(c))
      /\ d.tags = c.tags
  BY DEF Touched
<1>2. /\ Held(d) = Held(c)
      /\ e \in Entries
      /\ \A j \in Held(c) : d.entries[j] =
                              IF j = k THEN [e EXCEPT !.hits = e.hits + 1] ELSE c.entries[j]
  BY <1>1 DEF Held, Sound, WellTyped
<1>3. [e EXCEPT !.hits = e.hits + 1] \in Entries
  BY <1>2 DEF Entries
<1>4. \A j \in Held(c) : d.entries[j].tags = c.entries[j].tags
  BY <1>2 DEF Entries
<1>5. ListsEntries(d)
  BY FrontOrder, <1>1, <1>2 DEF Sound
<1>6. IndexesTags(d)
  <2>1. IndexesTags(c)
    BY DEF Sound
  <2>2. \A t : {j \in Held(d) : t \in d.entries[j].tags} = {j \in Held(c) : t \in c.entries[j].tags}
    BY <1>2, <1>4
  <2>3. UNION {d.entries[j].tags : j \in Held(d)} = UNION {c.entries[j].tags : j \in Held(c)}
    BY <1>2, <1>4
  <2> QED BY <1>1, <2>1, <2>2, <2>3 DEF IndexesTags
<1>7. WellTyped(d)
  <2>1. d.entries \in [Held(d) -> Entries]
    BY <1>1, <1>2, <1>3 DEF Sound, WellTyped
  <2>2. d.order \subseteq Keys \X Keys
    BY <1>1, <1>2, <1>5 DEF ListsEntries, Sound, WellTyped
  <2> QED BY <1>1, <1>2, <2>1, <2>2 DEF Sound, WellTyped
<1>8. CountsMemory(d)
  <2>1. \A j \in Held(c) : Sizes(d)[j] = Sizes(c)[j]
    BY <1>2 DEF Sizes, Entries
  <2>2. IsFiniteSet(Held(c))
    BY HeldFinite DEF Sound
  <2>3. Sum(Sizes(d), Held(c)) = Sum(Sizes(c), Held(c))
    BY <2>1, <2>2, SumSame
  <2>4. SizeOf(d, Held(d)) = SizeOf(c, Held(c))
    BY <1>2, <2>2, <2>3, SizeIsSum
  <2>5. d.memory = c.memory
    BY DEF Touched
  <2> QED BY <2>4, <2>5 DEF CountsMemory, Sound
<1> QED BY <1>2, <1>5, <1>6, <1>7, <1>8 DEF Sound

LEMMA PushSound ==
  ASSUME NEW c, NEW k \in Keys, NEW e \in Entries, Sound(c), k \notin Held(c)
  PROVE  /\ Sound(PushFront(c, k, e))
         /\ Held(PushFront(c, k, e)) = Held(c) \union {k}
<1> DEFINE d == PushFront(c, k, e)
<1>1. /\ d.entries = [j \in Held(c) \union {k} |-> IF j = k THEN e ELSE c.entries[j]]
      /\ d.order = MoveToFront(c.order, k, Held(c))
      /\ d.tags = [t \in DOMAIN c.tags \union e.tags |->
                     (IF t \in DOMAIN c.tags THEN c.tags[t] ELSE {})
                       \union (IF t \in e.tags THEN {k} ELSE {})]
      /\ d = [entries |-> d.entries, order |-> d.order, tags |-> d.tags, memory |-> d.memory]
  BY DEF PushFront
<1>2. Held(d) = Held(c) \union {k}
  BY <1>1 DEF Held
<1>3. ListsEntries(d)
  BY FrontOrder, <1>1, <1>2 DEF Sound
<1>4. IndexesTags(d)
  <2>1. IndexesTags(c)
    BY DEF Sound
  <2>2. d.entries[k].tags = e.tags /\ \A j \in Held(c) : d.entries[j].tags = c.entries[j].tags
    BY <1>1
  <2>3. ASSUME NEW t
        PROVE  t \in DOMAIN d.tags <=> \E j \in Held(d) : t \in d.entries[j].tags
    <3>1. t \in DOMAIN c.tags <=> \E j \in Held(c) : t \in c.entries[j].tags
      BY <2>1 DEF IndexesTags
    <3>2. t \in DOMAIN d.tags <=> t \in DOMAIN c.tags \/ t \in e.tags
      BY <1>1
    <3>3. (\E j \in Held(d) : t \in d.entries[j].tags)
            <=> t \in d.entries[k].tags \/ \E j \in Held(c) : t \in d.entries[j].tags
      BY <1>2
    <3> QED BY <2>2, <3>1, <3>2, <3>3
  <2>4. ASSUME NEW t \in DOMAIN d.tags
        PROVE  d.tags[t] = {j \in Held(d) : t \in d.entries[j].tags}
    <3>1. CASE t \in DOMAIN c.tags
      BY <1>1, <1>2, <2>1, <2>2, <3>1 DEF IndexesTags
    <3>2. CASE t \notin DOMAIN c.tags
      <4>1. \A j \in Held(c) : t \notin c.entries[j].tags
        BY <2>1, <3>2 DEF IndexesTags
      <4> QED BY <1>1, <1>2, <2>2, <2>4, <3>2, <4>1
    <3> QED BY <3>1, <3>2
  <2>5. DOMAIN d.tags = UNION {d.entries[j].tags : j \in Held(d)}
    BY <2>3
  <2> QED BY <2>4, <2>5 DEF IndexesTags
<1>5. WellTyped(d)
  <2>1. d.entries \in [Held(d) -> Entries]
    BY <1>1, <1>2 DEF Sound, WellTyped
  <2>2. Held(d) \subseteq Keys
    BY <1>2 DEF Sound, WellTyped
  <2>3. d.order \subseteq Keys \X Keys
    BY <1>3, <2>2 DEF ListsEntries
  <2>4. DOMAIN d.tags \subseteq Tags
    BY <1>1 DEF Sound, WellTyped, Entries
  <2>5. d.tags \in [DOMAIN d.tags -> SUBSET Keys]
    BY <1>1 DEF Sound, WellTyped
  <2> QED BY <1>1, <2>1, <2>2, <2>3, <2>4, <2>5 DEF WellTyped
<1>6. CountsMemory(d)
  <2>1. \A j \in Held(c) : Sizes(d)[j] = Sizes(c)[j]
    BY <1>1, <1>2 DEF Sizes
  <2>2. Sizes(d)[k] = e.response.size
    BY <1>1, <1>2 DEF Sizes
  <2>3. IsFiniteSet(Held(c)) /\ IsFiniteSet(Held(d))
    BY <1>2, HeldFinite, FS_AddElement DEF Sound
  <2>4. \A j \in Held(d) : Sizes(d)[j] \in Int
    BY <1>5, SizesTyped
  <2>5. Sum(Sizes(d), Held(c) \union {k}) = Sizes(d)[k] + Sum(Sizes(d), Held(c))
    BY <1>2, <2>3, <2>4, SumAdd
  <2>6. Sum(Sizes(d), Held(c)) = Sum(Sizes(c), Held(c))
    BY <2>1, <2>3, SumSame
  <2>7. /\ SizeOf(d, Held(d)) = Sum(Sizes(d), Held(d))
        /\ SizeOf(c, Held(c)) = Sum(Sizes(c), Held(c))
    BY <2>3, SizeIsSum
  <2>8. Sum(Sizes(c), Held(c)) \in Int /\ e.response.size \in Int
    <3>1. \A j \in Held(c) : Sizes(c)[j] \in Int
      BY SizesTyped DEF Sound
    <3> QED BY <1>2, <2>2, <2>3, <2>4, <3>1, SumInt
  <2>9. d.memory = SizeOf(c, Held(c)) + e.response.size
    BY DEF PushFront, Sound, CountsMemory
  <2> QED BY <1>2, <2>2, <2>5, <2>6, <2>7, <2>8, <2>9 DEF CountsMemory
<1> QED BY <1>2, <1>3, <1>4, <1>5, <1>6 DEF Sound

-------------------------------------------------------------------------------
(* Eviction *)

LEMMA SettingsTyped ==
  ASSUME NEW s \in {Normalised(t) : t \in SettingsChoices}
  PROVE  /\ s.capacity \in Nat \ {0} /\ s.memoryLimit \in Nat \ {0}
         /\ s.defaultRule \in Rules /\ s.rules \in Seq(Rules)
<1>1. PICK t \in SettingsChoices : s = Normalised(t)
  OBVIOUS
<1>2. t \in [enabled : BOOLEAN, capacity : Int, memoryLimit : Int,
             defaultRule : Rules, rules : Seq(Rules)]
  BY SettingsAssumption
<1> QED BY <1>1, <1>2 DEF Normalised

(* An empty cache is within any limits. *)
LEMMA EmptyFits ==
  ASSUME NEW c, Held(c) = {}, c.memory = 0, NEW s, s.capacity \in Nat, s.memoryLimit \in Nat
  PROVE  ~OverLimit(c, s)
  BY FS_EmptySet DEF OverLimit

(* Eviction removes keys, and leaves a cache within its limits. *)
LEMMA EvictionLimits ==
  ASSUME NEW c, Sound(c), NEW s, s.capacity \in Nat, s.memoryLimit \in Nat,
         NEW d \in AfterEviction(c, s)
  PROVE  /\ \E ks : d = Without(c, ks)
         /\ ~OverLimit(d, s)
<1>1. PICK ks \in SUBSET Held(c) :
             d = Without(c, ks) /\ (OverLimit(Without(c, ks), s) => ks = Held(c))
  BY DEF AfterEviction
<1>2. ASSUME ks = Held(c)
      PROVE  ~OverLimit(d, s)
  <2>1. Held(d) = {} /\ Sound(d)
    BY <1>1, <1>2, WithoutHeld, WithoutSound
  <2>2. d.memory = 0
    BY <2>1, SizeIsSum, SumEmpty, FS_EmptySet DEF Sound, CountsMemory
  <2> QED BY <2>1, <2>2, EmptyFits
<1> QED BY <1>1, <1>2

(* A cache that holds fewer keys, with the same sizes, is within the same limits. *)
LEMMA ShrinkingFits ==
  ASSUME NEW c, Sound(c), NEW ks, NEW s, s.capacity \in Nat, s.memoryLimit \in Nat,
         ~OverLimit(c, s)
  PROVE  ~OverLimit(Without(c, ks), s)
<1> DEFINE w == Without(c, ks)
<1>1. IsFiniteSet(Held(c)) /\ Cardinality(Held(c)) \in Nat /\ WellTyped(c)
  BY HeldFinite DEF Sound
<1>2. Held(w) \subseteq Held(c)
  BY WithoutHeld
<1>3. Cardinality(Held(w)) <= Cardinality(Held(c)) /\ Cardinality(Held(w)) \in Nat
  BY <1>1, <1>2, FS_Subset, FS_CardinalityType
<1>4. w.memory = c.memory - SizeOf(c, ks \intersect Held(c))
  BY DEF Without
<1>5. SizeOf(c, ks \intersect Held(c)) \in Nat /\ c.memory \in Nat
  <2>1. \A k \in Held(c) : Sizes(c)[k] \in Nat
    BY <1>1, SizesTyped
  <2>2. IsFiniteSet(ks \intersect Held(c)) /\ ks \intersect Held(c) \in SUBSET Held(c)
    BY <1>1, FS_Subset
  <2>3. Sum(Sizes(c), ks \intersect Held(c)) \in Nat /\ Sum(Sizes(c), Held(c)) \in Nat
    BY <1>1, <2>1, <2>2, SumNat
  <2> QED BY <1>1, <2>2, <2>3, SizeIsSum DEF Sound, CountsMemory
<1> QED BY <1>3, <1>4, <1>5, <1>1 DEF OverLimit

-------------------------------------------------------------------------------
(* The entries Store makes *)

LEMMA GoverningTyped ==
  ASSUME TypeOK, NEW k \in Keys, NEW rule \in RulesFor(k)
  PROVE  rule \in Rules
<1>1. settings.defaultRule \in Rules /\ settings.rules \in Seq(Rules)
  BY SettingsTyped DEF TypeOK
<1>2. \A i \in DOMAIN settings.rules : settings.rules[i] \in Rules
  BY <1>1
<1> QED BY <1>1, <1>2 DEF RulesFor, Governing

LEMMA NewEntryTyped ==
  ASSUME TypeOK, NEW k \in Keys, NEW resp \in Responses, NEW rule \in Rules
  PROVE  NewEntry(rule, k, resp, now) \in Entries
<1>1. rule.tags \subseteq Tags /\ rule.ttl \in [StatusClasses -> Int]
  BY DEF Rules
<1>2. resp.class \in StatusClasses /\ resp.tags \subseteq Tags
  BY ResponseAssumption
<1>3. now + TtlForStatus(rule, resp) \in Int
  BY <1>1, <1>2 DEF TtlForStatus, TypeOK
<1>4. rule.tags \union UrlTags[k] \union resp.tags \in SUBSET Tags
  BY <1>1, <1>2, KeyAssumption
<1> QED BY <1>3, <1>4 DEF NewEntry, Entries

-------------------------------------------------------------------------------
(* What a step may do to the cache *)

Pushed(k, e) == PushFront(Without(cache, {k}), k, e)

Removes == \E ks : cache' = Without(cache, ks)

Pushes ==
  \E k \in Keys, e \in Entries :
    /\ e.response \in Responses
    /\ e.expiresAt > now
    /\ cache' \in AfterEviction(Pushed(k, e), settings)
    /\ UNCHANGED <<settings, now>>

LEMMA StepShapes ==
  ASSUME Inv, [Next]_vars
  PROVE  \/ UNCHANGED <<cache, settings>> /\ (now' = now \/ now' = now + 1)
         \/ /\ UNCHANGED now
            /\ \/ Removes /\ UNCHANGED settings
               \/ cache' \in AfterEviction(cache, settings')
                    /\ settings' \in {Normalised(s) : s \in SettingsChoices}
               \/ cache' = EmptyCache /\ UNCHANGED settings
               \/ (\E k \in Held(cache) : cache' = Touched(cache, k)) /\ UNCHANGED settings
               \/ Pushes
<1>1. CASE Tick
  BY <1>1 DEF Tick
<1>2. CASE \E s \in SettingsChoices : UpdateSettings(s)
  BY <1>2 DEF UpdateSettings
<1>3. CASE \E k \in Keys : Get(k)
  BY <1>3 DEF Get, GetHit, GetMiss, IsHit, Removes
<1>4. CASE \E k \in Keys, resp \in Responses : StoreEntry(k, resp)
  <2>1. PICK k \in Keys, resp \in Responses : StoreEntry(k, resp)
    BY <1>4
  <2>2. PICK rule \in RulesFor(k) :
               /\ Admitted(settings, rule, resp)
               /\ cache' \in AfterEviction(Pushed(k, NewEntry(rule, k, resp, now)), settings)
    BY <2>1 DEF StoreEntry, AfterStore, Pushed
  <2>3. rule \in Rules
    BY GoverningTyped DEF Inv
  <2>4. NewEntry(rule, k, resp, now) \in Entries
    BY <2>3, NewEntryTyped DEF Inv
  <2>5. now \in Int /\ TtlForStatus(rule, resp) \in Int /\ TtlForStatus(rule, resp) > 0
    BY <2>2, <2>3, ResponseAssumption DEF Inv, TypeOK, TtlForStatus, Rules, Admitted, PassesRule
  <2>6. /\ NewEntry(rule, k, resp, now).response \in Responses
        /\ NewEntry(rule, k, resp, now).expiresAt > now
    BY <2>5 DEF NewEntry
  <2> QED BY <2>1, <2>2, <2>4, <2>6 DEF StoreEntry, Pushes
<1>5. CASE \E k \in Keys, resp \in Responses : StoreReject(k, resp)
  BY <1>5 DEF StoreReject, Removes
<1>6. CASE \E req \in Requests : Invalidate(req)
  BY <1>6 DEF Invalidate, Removes
<1>7. CASE InvalidateAll
  BY <1>7 DEF InvalidateAll
<1>8. CASE \E k \in Keys : InvalidateForMutation(PathOf[k])
  BY <1>8 DEF InvalidateForMutation, Removes
<1>9. CASE UNCHANGED vars
  BY <1>9 DEF vars
<1> QED BY <1>1, <1>2, <1>3, <1>4, <1>5, <1>6, <1>7, <1>8, <1>9 DEF Next, Store

-------------------------------------------------------------------------------
(* The invariant *)

LEMMA InitInv == Init => Inv
<1> SUFFICES ASSUME Init PROVE Inv
  OBVIOUS
<1>1. cache = EmptyCache /\ settings \in {Normalised(s) : s \in SettingsChoices}
  BY DEF Init
<1>2. Sound(cache) /\ Held(cache) = {} /\ cache.memory = 0
  BY <1>1, EmptySound
<1>3. WithinLimits
  BY <1>1, <1>2, SettingsTyped, EmptyFits DEF WithinLimits
<1> QED BY <1>1, <1>2, <1>3 DEF Init, Inv, TypeOK, OrderExact, TagIndexExact, MemoryExact,
                               Sound, CountsMemory

LEMMA SoundNow == Inv => Sound(cache)
  BY DEF Inv, TypeOK, OrderExact, TagIndexExact, MemoryExact, Sound, CountsMemory

LEMMA CacheStep ==
  ASSUME Inv, [Next]_vars
  PROVE  Sound(cache)' /\ WithinLimits'
<1> DEFINE Legal == {Normalised(s) : s \in SettingsChoices}
<1>1. Sound(cache) /\ settings \in Legal
  BY SoundNow DEF Inv, TypeOK
<1>2. settings.capacity \in Nat /\ settings.memoryLimit \in Nat
  BY <1>1, SettingsTyped
<1>3. ~OverLimit(cache, settings)
  BY DEF Inv, WithinLimits
<1>4. CASE UNCHANGED <<cache, settings>>
  BY <1>1, <1>3, <1>4 DEF WithinLimits
<1>5. CASE Removes /\ UNCHANGED settings
  BY <1>1, <1>2, <1>3, <1>5, WithoutSound, ShrinkingFits DEF Removes, WithinLimits
<1>6. CASE cache' \in AfterEviction(cache, settings') /\ settings' \in Legal
  <2>1. settings'.capacity \in Nat /\ settings'.memoryLimit \in Nat
    BY <1>6, SettingsTyped
  <2>2. /\ \E ks : cache' = Without(cache, ks)
        /\ ~OverLimit(cache', settings')
    BY <1>1, <1>6, <2>1, EvictionLimits
  <2> QED BY <1>1, <2>2, WithoutSound DEF WithinLimits
<1>7. CASE cache' = EmptyCache /\ UNCHANGED settings
  <2>1. ~OverLimit(EmptyCache, settings)
    BY <1>2, EmptySound, EmptyFits
  <2> QED BY <1>7, <2>1, EmptySound DEF WithinLimits
<1>8. CASE (\E k \in Held(cache) : cache' = Touched(cache, k)) /\ UNCHANGED settings
  <2>1. Sound(cache') /\ Held(cache') = Held(cache)
    BY <1>1, <1>8, HitSound
  <2>2. cache'.memory = cache.memory
    BY <1>8 DEF Touched
  <2> QED BY <1>3, <1>8, <2>1, <2>2 DEF WithinLimits, OverLimit
<1>9. CASE Pushes
  <2>1. PICK k \in Keys, e \in Entries :
               cache' \in AfterEviction(Pushed(k, e), settings) /\ UNCHANGED settings
    BY <1>9 DEF Pushes
  <2>2. Sound(Without(cache, {k})) /\ k \notin Held(Without(cache, {k}))
    BY <1>1, WithoutSound, WithoutHeld
  <2>3. Sound(Pushed(k, e))
    BY <2>2, PushSound DEF Pushed
  <2>4. /\ \E ks : cache' = Without(Pushed(k, e), ks)
        /\ ~OverLimit(cache', settings)
    BY <1>2, <2>1, <2>3, EvictionLimits
  <2> QED BY <2>1, <2>3, <2>4, WithoutSound DEF WithinLimits
<1> QED BY <1>4, <1>5, <1>6, <1>7, <1>8, <1>9, StepShapes

LEMMA CounterStep ==
  ASSUME TypeOK, [Next]_vars
  PROVE  /\ settings' \in {Normalised(s) : s \in SettingsChoices}
         /\ hits' \in Nat /\ misses' \in Nat /\ now' \in Nat
<1>0. /\ settings \in {Normalised(s) : s \in SettingsChoices}
      /\ hits \in Nat /\ misses \in Nat /\ now \in Nat
  BY DEF TypeOK
<1>1. CASE Tick
  BY <1>0, <1>1 DEF Tick
<1>2. CASE \E s \in SettingsChoices : UpdateSettings(s)
  BY <1>0, <1>2 DEF UpdateSettings
<1>3. CASE \E k \in Keys : Get(k)
  BY <1>0, <1>3 DEF Get, GetHit, GetMiss
<1>4. CASE \E k \in Keys, resp \in Responses : Store(k, resp)
  BY <1>0, <1>4 DEF Store, StoreEntry, StoreReject
<1>5. CASE \/ \E req \in Requests : Invalidate(req)
           \/ InvalidateAll
           \/ \E k \in Keys : InvalidateForMutation(PathOf[k])
  BY <1>0, <1>5 DEF Invalidate, InvalidateAll, InvalidateForMutation
<1>6. CASE UNCHANGED vars
  BY <1>0, <1>6 DEF vars
<1> QED BY <1>1, <1>2, <1>3, <1>4, <1>5, <1>6 DEF Next

LEMMA NextInv ==
  ASSUME Inv, [Next]_vars
  PROVE  Inv'
<1>1. Sound(cache)' /\ WithinLimits'
  BY CacheStep
<1>2. TypeOK'
  BY <1>1, CounterStep DEF Inv, TypeOK, Sound
<1> QED BY <1>1, <1>2 DEF Inv, OrderExact, TagIndexExact, MemoryExact, Sound, CountsMemory

(* The inductive invariant that the theorems rest on *)
THEOREM Invariance == Spec => []Inv
<1>1. Init => Inv
  BY InitInv
<1>2. Inv /\ [Next]_vars => Inv'
  BY NextInv
<1> QED BY <1>1, <1>2, PTL DEF Spec

(* The fields of the service keep their types under every method. *)
THEOREM TypeCorrect == Spec => []TypeOK
  BY Invariance, PTL DEF Inv

(* The recency list and the map always hold the same keys, in one strict order. *)
THEOREM ListMatchesMap == Spec => []OrderExact
  BY Invariance, PTL DEF Inv

(* The tag index always says exactly which entries carry which tag. *)
THEOREM IndexMatchesEntries == Spec => []TagIndexExact
  BY Invariance, PTL DEF Inv

(* The memory count never drifts from the sizes of the entries held, whatever is
   stored, replaced, touched, evicted and invalidated in between. *)
THEOREM MemoryCounted == Spec => []MemoryExact
  BY Invariance, PTL DEF Inv

(* No method leaves more entries than the capacity in force, or more bytes than the
   memory limit in force. *)
THEOREM LimitsRespected == Spec => []WithinLimits
  BY Invariance, PTL DEF Inv

-------------------------------------------------------------------------------
(* What a store keeps *)

(* Eviction never takes the front of the list when that alone is within the limits:
   a tail that contains the front is the whole list, and then a shorter one does. *)
LEMMA FrontSurvives ==
  ASSUME NEW c, Sound(c), NEW k \in Held(c), \A j \in Held(c) \ {k} : <<k, j>> \in c.order,
         NEW s, s.capacity \in Nat \ {0}, s.memoryLimit \in Nat,
         c.entries[k].response.size <= s.memoryLimit,
         NEW d \in AfterEviction(c, s)
  PROVE  k \in Held(d)
<1>1. PICK ks \in SUBSET Held(c) :
             /\ d = Without(c, ks)
             /\ IsTail(c, ks)
             /\ \A j \in ks : IsTail(c, ks \ {j}) => OverLimit(Without(c, ks \ {j}), s)
  BY DEF AfterEviction
<1> SUFFICES ASSUME k \in ks PROVE FALSE
  BY <1>1, WithoutHeld
<1> DEFINE w == Without(c, Held(c) \ {k})
<1>2. ks = Held(c)
  <2>1. \A j \in Held(c) \ {k} : <<k, j>>[1] \in ks => <<k, j>>[2] \in ks
    BY <1>1 DEF IsTail
  <2> QED BY <2>1
<1>3. IsTail(c, Held(c) \ {k})
  <2>1. \A j \in Held(c) : <<j, k>> \notin c.order
    <3> SUFFICES ASSUME NEW j \in Held(c), <<j, k>> \in c.order PROVE FALSE
      OBVIOUS
    <3>1. j # k
      BY DEF Sound, ListsEntries
    <3>2. <<k, k>> \in c.order
      BY <3>1 DEF Sound, ListsEntries
    <3> QED BY <3>2 DEF Sound, ListsEntries
  <2>2. \A p \in c.order : p = <<p[1], p[2]>> /\ p[1] \in Held(c) /\ p[2] \in Held(c)
    BY DEF Sound, ListsEntries
  <2> QED BY <2>1, <2>2 DEF IsTail
<1>4. OverLimit(w, s)
  BY <1>1, <1>2, <1>3
<1>5. Held(w) = {k} /\ w.entries[k] = c.entries[k] /\ Sound(w)
  BY WithoutHeld, WithoutSound
<1>6. Cardinality(Held(w)) = 1
  BY <1>5, FS_Singleton
<1>7. w.memory = c.entries[k].response.size
  <2> HIDE DEF w
  <2>1. IsFiniteSet({k}) /\ IsFiniteSet({}) /\ WellTyped(w)
    BY <1>5, FS_Singleton, FS_EmptySet DEF Sound
  <2>2. w.memory = Sum(Sizes(w), {k})
    BY <1>5, <2>1, SizeIsSum DEF Sound, CountsMemory
  <2>3. Sizes(w)[k] = c.entries[k].response.size /\ Sizes(w)[k] \in Int
    BY <1>5, <2>1, SizesTyped DEF Sizes
  <2>4. Sum(Sizes(w), {} \union {k}) = Sizes(w)[k] + Sum(Sizes(w), {})
    BY <2>1, <2>3, SumAdd
  <2>5. {} \union {k} = {k} /\ Sum(Sizes(w), {}) = 0
    BY SumEmpty
  <2> QED BY <2>2, <2>3, <2>4, <2>5
<1>8. c.entries[k].response.size \in Int
  BY ResponseAssumption DEF Sound, WellTyped, Entries
<1> HIDE DEF w
<1> QED BY <1>4, <1>6, <1>7, <1>8 DEF OverLimit

LEMMA StoreKeepsNewest ==
  ASSUME Inv, NEW k \in Keys, NEW resp \in Responses, NEW rule \in RulesFor(k),
         resp.size <= settings.memoryLimit, NEW after \in AfterStore(k, rule, resp)
  PROVE  /\ k \in Held(after)
         /\ after.entries[k].response = resp
         /\ \A j \in Held(after) \ {k} : <<k, j>> \in after.order
<1> DEFINE e == NewEntry(rule, k, resp, now)
           c == Pushed(k, e)
<1>1. e \in Entries /\ e.response = resp
  BY GoverningTyped, NewEntryTyped DEF Inv, NewEntry
<1>2. Sound(Without(cache, {k})) /\ k \notin Held(Without(cache, {k}))
  BY SoundNow, WithoutSound, WithoutHeld
<1>3. Sound(c) /\ Held(c) = Held(Without(cache, {k})) \union {k}
  BY <1>1, <1>2, PushSound DEF Pushed
<1>4. c.entries[k] = e
  BY DEF Pushed, PushFront
<1>5. \A j \in Held(c) \ {k} : <<k, j>> \in c.order
  BY <1>3 DEF Pushed, PushFront, MoveToFront
<1>6. after \in AfterEviction(c, settings)
  BY DEF AfterStore, Pushed
<1>7. settings.capacity \in Nat \ {0} /\ settings.memoryLimit \in Nat
  BY SettingsTyped DEF Inv, TypeOK
<1> HIDE DEF c, e
<1>8. k \in Held(after)
  BY <1>1, <1>3, <1>4, <1>5, <1>6, <1>7, FrontSurvives
<1>9. PICK ks : after = Without(c, ks)
  BY <1>6 DEF AfterEviction
<1>10. k \notin ks /\ after.entries[k] = c.entries[k]
  BY <1>3, <1>8, <1>9, WithoutHeld
<1>11. \A j \in Held(after) \ {k} : <<k, j>> \in after.order
  <2>1. \A j \in Held(after) \ {k} : j \in Held(c) \ {k} /\ j \notin ks
    BY <1>9, WithoutHeld
  <2> QED BY <1>5, <1>9, <1>10, <2>1 DEF Without
<1> QED BY <1>1, <1>4, <1>8, <1>10, <1>11

(* A response that is taken and fits the memory limit by itself is in the cache when
   Store returns, in front: making room never costs the entry it is made for. *)
THEOREM NewestKept == Spec => []NewestSurvives
<1>1. Inv => NewestSurvives
  BY StoreKeepsNewest DEF NewestSurvives
<1> QED BY <1>1, Invariance, PTL

-------------------------------------------------------------------------------
(* Invalidation *)

LEMMA InvalidateStep ==
  ASSUME Inv, NEW req \in Requests, Invalidate(req), req.compiles
  PROVE  Held(cache') = {k \in Held(cache) :
                           /\ k \notin req.keys \union req.prefix \union req.regex
                           /\ cache.entries[k].tags \intersect req.tags = {}}
<1>1. Held(cache') = Held(cache) \ Named(cache, req)
  BY WithoutHeld DEF Invalidate
<1>2. ASSUME NEW k \in Held(cache)
      PROVE  k \in UNION {cache.tags[t] : t \in req.tags \intersect DOMAIN cache.tags}
               <=> cache.entries[k].tags \intersect req.tags # {}
  <2>1. \A t : t \in cache.entries[k].tags => t \in DOMAIN cache.tags
    BY DEF Inv, TagIndexExact, IndexesTags
  <2>2. \A t \in DOMAIN cache.tags : k \in cache.tags[t] <=> t \in cache.entries[k].tags
    BY DEF Inv, TagIndexExact, IndexesTags
  <2> QED BY <2>1, <2>2
<1> QED BY <1>1, <1>2 DEF Named

(* An invalidation removes what carries the names given, and nothing else,
   because the index it trusts is exact. *)
THEOREM InvalidationExact == Spec => InvalidateIsExact
<1>1. Inv /\ [Next]_vars =>
        [\A req \in Requests :
           Invalidate(req) /\ req.compiles =>
             Held(cache') = {k \in Held(cache) :
                               /\ k \notin req.keys \union req.prefix \union req.regex
                               /\ cache.entries[k].tags \intersect req.tags = {}}]_vars
  BY InvalidateStep
<1> QED BY <1>1, Invariance, PTL DEF Spec, InvalidateIsExact

-------------------------------------------------------------------------------
(* The refinement of ExpiringStore *)

Content(c) ==
  [k \in Held(c) |-> [response  |-> c.entries[k].response,
                      expiresAt |-> c.entries[k].expiresAt]]

(* A cache whose entries are all entries of the cache before forgets. *)
LEMMA Forgetting ==
  ASSUME Held(cache') \subseteq Held(cache),
         \A k \in Held(cache') : Content(cache')[k] = Content(cache)[k]
  PROVE  Promise!Forgets
<1>1. DOMAIN Content(cache') = Held(cache') /\ DOMAIN Content(cache) = Held(cache)
  BY DEF Content
<1>2. Content(cache') = [k \in Held(cache') |-> Content(cache)[k]]
  BY DEF Content
<1> QED BY <1>1, <1>2 DEF Promise!Forgets, Content

LEMMA RemovalForgets ==
  ASSUME NEW ks, cache' = Without(cache, ks)
  PROVE  Promise!Forgets
<1>1. /\ Held(cache') \subseteq Held(cache)
      /\ \A k \in Held(cache') : cache'.entries[k] = cache.entries[k]
  BY WithoutHeld
<1>2. \A k \in Held(cache') : Content(cache')[k] = Content(cache)[k]
  BY <1>1 DEF Content
<1> QED BY <1>1, <1>2, Forgetting

LEMMA PushAdds ==
  ASSUME Inv, Pushes, UNCHANGED <<hits, misses>>
  PROVE  Promise!Forget \/ Promise!Add
<1>1. PICK k \in Keys, e \in Entries :
             /\ e.response \in Responses /\ e.expiresAt > now
             /\ cache' \in AfterEviction(Pushed(k, e), settings)
             /\ UNCHANGED now
  BY DEF Pushes
<1>2. PICK ks : cache' = Without(Pushed(k, e), ks)
  BY <1>1 DEF AfterEviction
<1>3. DOMAIN Content(cache) = Held(cache) /\ DOMAIN Content(cache') = Held(cache')
  BY DEF Content
<1>4. /\ Pushed(k, e).entries =
           [j \in Held(Without(cache, {k})) \union {k} |->
              IF j = k THEN e ELSE Without(cache, {k}).entries[j]]
      /\ Held(Without(cache, {k})) = Held(cache) \ {k}
      /\ \A j \in Held(cache) \ {k} : Without(cache, {k}).entries[j] = cache.entries[j]
  BY WithoutHeld DEF Pushed, PushFront
<1>5. /\ Held(Pushed(k, e)) = Held(cache) \union {k}
      /\ Pushed(k, e).entries[k] = e
      /\ \A j \in Held(cache) \ {k} : Pushed(k, e).entries[j] = cache.entries[j]
  BY <1>4 DEF Held
<1>6. /\ Held(cache') \subseteq Held(cache) \union {k}
      /\ k \in Held(cache') => cache'.entries[k] = e
      /\ \A j \in Held(cache') \ {k} : cache'.entries[j] = cache.entries[j]
  BY <1>2, <1>5, WithoutHeld
<1>7. \A j \in Held(cache') \ {k} : Content(cache')[j] = Content(cache)[j]
  BY <1>6 DEF Content
<1>8. CASE k \in Held(cache')
  <2>1. /\ Content(cache')[k].response \in Responses
        /\ Content(cache')[k].expiresAt > now
    BY <1>1, <1>6, <1>8 DEF Content
  <2>2. Held(cache') \ {k} \subseteq Held(cache)
    BY <1>6
  <2> QED BY <1>1, <1>3, <1>7, <1>8, <2>1, <2>2 DEF Promise!Add, Promise!Remembers, Content
<1>9. CASE k \notin Held(cache')
  BY <1>1, <1>6, <1>7, <1>9, Forgetting DEF Promise!Forget
<1> QED BY <1>8, <1>9

(* Get counts, and no other method does. *)
LEMMA GetsCount ==
  ASSUME [Next]_vars
  PROVE  (\E k \in Keys : Get(k)) \/ UNCHANGED <<hits, misses>>
BY DEF Next, vars, Tick, UpdateSettings, Store, StoreEntry, StoreReject, Invalidate,
       InvalidateAll, InvalidateForMutation

LEMMA HitKeepsContent ==
  ASSUME Inv, NEW k \in Held(cache), cache' = Touched(cache, k)
  PROVE  Promise!Forgets /\ Held(cache') = Held(cache)
<1>1. Sound(cache)
  BY SoundNow
<1>2. Held(cache') = Held(cache)
  BY <1>1, HitSound
<1>3. \A j \in Held(cache) : cache.entries[j] \in Entries
  BY <1>1 DEF Sound, WellTyped
<1>4. ASSUME NEW j \in Held(cache)
      PROVE  /\ cache'.entries[j].response = cache.entries[j].response
             /\ cache'.entries[j].expiresAt = cache.entries[j].expiresAt
  BY <1>3 DEF Touched, Entries, Held
<1>5. \A j \in Held(cache') : Content(cache')[j] = Content(cache)[j]
  BY <1>2, <1>4 DEF Content
<1> QED BY <1>2, <1>5, Forgetting

LEMMA HitIsLookup ==
  ASSUME Inv, NEW k \in Keys, GetHit(k)
  PROVE  Promise!Lookup
<1>1. Promise!Forgets /\ Held(cache') = Held(cache)
  BY HitKeepsContent DEF GetHit, IsHit
<1>2. DOMAIN Content(cache') = Held(cache') /\ DOMAIN Content(cache) = Held(cache)
  BY DEF Content
<1>3. hits' + misses' = hits + misses + 1
  BY DEF GetHit, Inv, TypeOK
<1> QED BY <1>1, <1>2, <1>3 DEF Promise!Lookup, Content, GetHit

LEMMA MissIsLookup ==
  ASSUME Inv, NEW k \in Keys, GetMiss(k)
  PROVE  Promise!Lookup
<1>1. cache' = Without(cache, {k})
  BY DEF GetMiss
<1>2. Promise!Forgets
  BY <1>1, RemovalForgets
<1>3. Held(cache') = Held(cache) \ {k}
  BY <1>1, WithoutHeld
<1>4. k \in Held(cache) => cache.entries[k].expiresAt < now
  BY DEF GetMiss, IsHit, Inv, TypeOK, WellTyped, Entries
<1>5. \A j \in Held(cache) \ Held(cache') : Content(cache)[j].expiresAt < now
  BY <1>3, <1>4 DEF Content
<1>6. DOMAIN Content(cache') = Held(cache') /\ DOMAIN Content(cache) = Held(cache)
  BY DEF Content
<1>7. hits' + misses' = hits + misses + 1
  BY DEF GetMiss, Inv, TypeOK
<1> QED BY <1>2, <1>5, <1>6, <1>7 DEF Promise!Lookup, Content, GetMiss

LEMMA PromiseStep ==
  ASSUME Inv, [Next]_vars
  PROVE  Promise!Next \/ UNCHANGED <<Content(cache), now, hits + misses>>
<1>1. CASE \E k \in Keys : Get(k)
  BY <1>1, HitIsLookup, MissIsLookup DEF Get, Promise!Next
<1>2. CASE UNCHANGED <<hits, misses>>
  <2>1. CASE UNCHANGED <<cache, settings>> /\ (now' = now \/ now' = now + 1)
    BY <1>2, <2>1 DEF Promise!Next, Promise!Advance, Content, Held
  <2>2. CASE UNCHANGED now /\ Removes
    BY <1>2, <2>2, RemovalForgets DEF Removes, Promise!Forget, Promise!Next
  <2>3. CASE UNCHANGED now /\ cache' \in AfterEviction(cache, settings')
    BY <1>2, <2>3, RemovalForgets DEF AfterEviction, Promise!Forget, Promise!Next
  <2>4. CASE UNCHANGED now /\ cache' = EmptyCache
    <3>1. Held(cache') = {}
      BY <2>4 DEF EmptyCache, Held
    <3> QED BY <1>2, <2>4, <3>1, Forgetting DEF Promise!Forget, Promise!Next
  <2>5. CASE UNCHANGED now /\ \E k \in Held(cache) : cache' = Touched(cache, k)
    BY <1>2, <2>5, HitKeepsContent DEF Promise!Forget, Promise!Next
  <2>6. CASE Pushes
    BY <1>2, <2>6, PushAdds DEF Promise!Next
  <2> QED BY <2>1, <2>2, <2>3, <2>4, <2>5, <2>6, StepShapes
<1> QED BY <1>1, <1>2, GetsCount

(* Every step of the service is a step of ExpiringStore or invisible to it: a
   lookup renews nothing, and nothing gets into the cache but by a store. *)
THEOREM ServiceKeepsPromise == Spec => KeepsPromise
<1>1. Init => Promise!Init
  BY DEF Init, Promise!Init, EmptyCache, Held
<1>2. Inv /\ [Next]_vars => [Promise!Next]_<<Content(cache), now, hits + misses>>
  BY PromiseStep
<1> QED BY <1>1, <1>2, Invariance, PTL DEF Spec, KeepsPromise, Promise!Spec, Content

-------------------------------------------------------------------------------
(* Which rule the loop over the rules finds *)
LEMMA GreatestIs ==
  ASSUME NEW t, NEW n \in Nat, t \in SUBSET (0 .. n), t # {}
  PROVE  Max(t) \in t /\ \A y \in t : Max(t) >= y
<1>1. \E x \in t : \A y \in t : x >= y
  <2>1. t \in SUBSET Nat /\ \A y \in t : y <= n
    OBVIOUS
  <2>2. PICK x \in t : \A y \in t : y <= x
    BY <2>1, GreatestNumber
  <2> QED BY <2>1, <2>2
<1> QED BY <1>1 DEF Max

LEMMA ScoreType ==
  ASSUME NEW rule, NEW path \in Seq(STRING), \A p \in rule.prefixes : p \in Seq(STRING)
  PROVE  Score(rule, path) \in Nat
<1> DEFINE S == {Len(p) : p \in PrefixesOf(rule, path)} \union {0}
<1>1. \A p \in PrefixesOf(rule, path) : Len(p) \in 0 .. Len(path)
  BY DEF PrefixesOf, IsPrefix
<1>2. S \in SUBSET (0 .. Len(path)) /\ S # {} /\ Len(path) \in Nat
  BY <1>1
<1>3. Score(rule, path) = Max(S)
  BY DEF Score
<1> HIDE DEF S
<1>4. Max(S) \in S
  BY <1>2, GreatestIs
<1>5. S \in SUBSET Nat
  BY <1>2
<1>6. Max(S) \in Nat
  BY <1>4, <1>5, Zenon
<1> QED BY <1>3, <1>6, Zenon

(* A step of the loop, and what it is to have for the rules whose numbers are in t *)
Improved(best, rule, host, path) ==
  IF Applies(rule, host, path) /\ Score(rule, path) > best.score
  THEN [rule |-> rule, score |-> Score(rule, path)]
  ELSE best

Start(s) == [rule |-> s.defaultRule, score |-> -1]

Wins(i, t, s, host, path) ==
  /\ Applies(s.rules[i], host, path)
  /\ \A j \in t \ {i} : Applies(s.rules[j], host, path) =>
       \/ Score(s.rules[i], path) > Score(s.rules[j], path)
       \/ Score(s.rules[i], path) = Score(s.rules[j], path) /\ i < j

IsBest(b, t, s, host, path) ==
  \/ /\ \A i \in t : ~Applies(s.rules[i], host, path)
     /\ b = Start(s)
  \/ \E i \in t : /\ Wins(i, t, s, host, path)
                  /\ b = [rule |-> s.rules[i], score |-> Score(s.rules[i], path)]

Scored(s, path) ==
  /\ Len(s.rules) \in Nat /\ DOMAIN s.rules = 1 .. Len(s.rules)
  /\ \A i \in DOMAIN s.rules : Score(s.rules[i], path) \in Nat

LEMMA BestUnique ==
  ASSUME NEW s, NEW host, NEW path, Scored(s, path), NEW t \in SUBSET DOMAIN s.rules,
         NEW b, NEW c, IsBest(b, t, s, host, path), IsBest(c, t, s, host, path)
  PROVE  b = c
<1>1. CASE \A i \in t : ~Applies(s.rules[i], host, path)
  BY <1>1 DEF IsBest, Wins
<1>2. CASE ~\A i \in t : ~Applies(s.rules[i], host, path)
  <2>1. PICK i \in t : /\ Wins(i, t, s, host, path)
                       /\ b = [rule |-> s.rules[i], score |-> Score(s.rules[i], path)]
    BY <1>2 DEF IsBest
  <2>2. PICK j \in t : /\ Wins(j, t, s, host, path)
                       /\ c = [rule |-> s.rules[j], score |-> Score(s.rules[j], path)]
    BY <1>2 DEF IsBest
  <2>3. /\ i \in Int /\ j \in Int
        /\ Score(s.rules[i], path) \in Nat /\ Score(s.rules[j], path) \in Nat
    BY DEF Scored
  <2>4. i = j
    BY <2>1, <2>2, <2>3 DEF Wins
  <2> QED BY <2>1, <2>2, <2>4
<1> QED BY <1>1, <1>2

LEMMA BestImproves ==
  ASSUME NEW s, NEW host, NEW path, Scored(s, path), NEW t \in SUBSET DOMAIN s.rules,
         NEW x \in t, \A y \in t : x >= y, NEW b, IsBest(b, t \ {x}, s, host, path)
  PROVE  IsBest(Improved(b, s.rules[x], host, path), t, s, host, path)
<1> DEFINE score(i) == Score(s.rules[i], path)
           applies(i) == Applies(s.rules[i], host, path)
<1>1. /\ \A i \in t : i \in Int /\ score(i) \in Nat
      /\ \A i \in t \ {x} : i < x
  BY DEF Scored
<1>2. \/ (\A i \in t \ {x} : ~applies(i)) /\ b = Start(s)
      \/ \E i \in t \ {x} : /\ Wins(i, t \ {x}, s, host, path)
                            /\ b = [rule |-> s.rules[i], score |-> score(i)]
  BY DEF IsBest
<1>3. b.score \in Int
  BY <1>1, <1>2 DEF Start
<1>4. CASE applies(x) /\ score(x) > b.score
  <2>1. \A j \in t \ {x} : applies(j) => score(x) > score(j)
    <3>1. CASE \A i \in t \ {x} : ~applies(i)
      BY <3>1
    <3>2. ASSUME NEW i \in t \ {x}, Wins(i, t \ {x}, s, host, path), b.score = score(i)
          PROVE  \A j \in t \ {x} : applies(j) => score(x) > score(j)
      <4>1. \A j \in t \ {x} : applies(j) => score(i) >= score(j)
        BY <1>1, <3>2 DEF Wins
      <4> QED BY <1>1, <1>4, <3>2, <4>1
    <3> QED BY <1>2, <3>1, <3>2
  <2>2. Wins(x, t, s, host, path)
    BY <1>4, <2>1 DEF Wins
  <2>3. Improved(b, s.rules[x], host, path) = [rule |-> s.rules[x], score |-> score(x)]
    BY <1>4 DEF Improved
  <2> QED BY <2>2, <2>3 DEF IsBest
<1>5. CASE ~(applies(x) /\ score(x) > b.score)
  <2>1. Improved(b, s.rules[x], host, path) = b
    BY <1>5 DEF Improved
  <2>2. CASE (\A i \in t \ {x} : ~applies(i)) /\ b = Start(s)
    <3>1. ~applies(x)
      BY <1>1, <1>5, <2>2 DEF Start
    <3> QED BY <2>1, <2>2, <3>1 DEF IsBest
  <2>3. ASSUME NEW i \in t \ {x}, Wins(i, t \ {x}, s, host, path),
               b = [rule |-> s.rules[i], score |-> score(i)]
        PROVE  IsBest(b, t, s, host, path)
    <3>1. applies(x) => score(i) > score(x) \/ (score(i) = score(x) /\ i < x)
      BY <1>1, <1>5, <2>3
    <3>2. Wins(i, t, s, host, path)
      BY <2>3, <3>1 DEF Wins
    <3> QED BY <2>3, <3>2 DEF IsBest
  <2> QED BY <1>2, <2>1, <2>2, <2>3
<1> QED BY <1>4, <1>5

(* The loop is a recursive function of the numbers of the rules gone through. *)
Loops(h, s, host, path) ==
  h = [t \in SUBSET DOMAIN s.rules |->
         IF t = {} THEN Start(s)
         ELSE Improved(h[t \ {Max(t)}], s.rules[Max(t)], host, path)]

LEMMA ResolveLoops ==
  ASSUME NEW s, NEW host, NEW path
  PROVE  ResolveRule(s, host, path) =
           (CHOOSE h : Loops(h, s, host, path))[DOMAIN s.rules].rule
  BY DEF ResolveRule, FoldLeft, MapThenFoldSet, Loops, Start, Improved

LEMMA LastIs ==
  ASSUME NEW s, NEW path, Scored(s, path), NEW t \in SUBSET DOMAIN s.rules, t # {}
  PROVE  Max(t) \in t /\ \A y \in t : Max(t) >= y
<1>1. t \in SUBSET (0 .. Len(s.rules)) /\ Len(s.rules) \in Nat
  BY DEF Scored
<1> QED BY <1>1, GreatestIs

LEMMA DomainFinite ==
  ASSUME NEW s, NEW path, Scored(s, path)
  PROVE  IsFiniteSet(DOMAIN s.rules)
<1>1. DOMAIN s.rules = 1 .. Len(s.rules) /\ Len(s.rules) \in Nat
  BY DEF Scored
<1> QED BY <1>1, FS_Interval

(* Whatever satisfies the recursion has the best rule of every set. *)
LEMMA LoopBest ==
  ASSUME NEW s, NEW host, NEW path, Scored(s, path), NEW h,
         \A t \in SUBSET DOMAIN s.rules :
           h[t] = IF t = {} THEN Start(s)
                  ELSE Improved(h[t \ {Max(t)}], s.rules[Max(t)], host, path)
  PROVE  \A t \in SUBSET DOMAIN s.rules : IsBest(h[t], t, s, host, path)
<1> DEFINE D == DOMAIN s.rules
           U == {t \in SUBSET D : ~IsBest(h[t], t, s, host, path)}
<1> SUFFICES ASSUME U # {} PROVE FALSE
  OBVIOUS
<1>1. U \in SUBSET SUBSET D
  OBVIOUS
<1>2. PICK t \in U : \A v \in U : v \subseteq t => v = t
  <2> HIDE DEF U, D
  <2>1. IsFiniteSet(D)
    BY DomainFinite DEF D
  <2> QED BY <1>1, <2>1, SmallestSet
<1>3. t \in SUBSET D /\ ~IsBest(h[t], t, s, host, path)
  BY <1>2
<1>4. t # {}
  BY <1>3 DEF IsBest
<1>5. Max(t) \in t /\ \A y \in t : Max(t) >= y
  BY <1>3, <1>4, LastIs
<1>6. IsBest(h[t \ {Max(t)}], t \ {Max(t)}, s, host, path)
  BY <1>2, <1>3, <1>5
<1>7. h[t] = Improved(h[t \ {Max(t)}], s.rules[Max(t)], host, path)
  BY <1>3, <1>4
<1> QED BY <1>3, <1>5, <1>6, <1>7, BestImproves

(* There is a best rule of every set, so that something satisfies the recursion. *)
LEMMA BestExists ==
  ASSUME NEW s, NEW host, NEW path, Scored(s, path)
  PROVE  \A t \in SUBSET DOMAIN s.rules : \E b : IsBest(b, t, s, host, path)
<1> DEFINE D == DOMAIN s.rules
           U == {t \in SUBSET D : ~\E b : IsBest(b, t, s, host, path)}
<1> SUFFICES ASSUME U # {} PROVE FALSE
  OBVIOUS
<1>1. U \in SUBSET SUBSET D
  OBVIOUS
<1>2. PICK t \in U : \A v \in U : v \subseteq t => v = t
  <2> HIDE DEF U, D
  <2>1. IsFiniteSet(D)
    BY DomainFinite DEF D
  <2> QED BY <1>1, <2>1, SmallestSet
<1>3. t \in SUBSET D /\ ~\E b : IsBest(b, t, s, host, path)
  BY <1>2
<1>4. t # {}
  BY <1>3 DEF IsBest
<1>5. Max(t) \in t /\ \A y \in t : Max(t) >= y
  BY <1>3, <1>4, LastIs
<1>6. PICK b : IsBest(b, t \ {Max(t)}, s, host, path)
  BY <1>2, <1>3, <1>5
<1> QED BY <1>3, <1>5, <1>6, BestImproves

LEMMA LoopExists ==
  ASSUME NEW s, NEW host, NEW path, Scored(s, path)
  PROVE  \E h : Loops(h, s, host, path)
<1> DEFINE h == [t \in SUBSET DOMAIN s.rules |-> CHOOSE b : IsBest(b, t, s, host, path)]
<1>1. \A t \in SUBSET DOMAIN s.rules : IsBest(h[t], t, s, host, path)
  BY BestExists
<1>2. DOMAIN h = SUBSET DOMAIN s.rules /\ h = [t \in SUBSET DOMAIN s.rules |-> h[t]]
  OBVIOUS
<1> HIDE DEF h
<1>3. ASSUME NEW t \in SUBSET DOMAIN s.rules
      PROVE  h[t] = IF t = {} THEN Start(s)
                    ELSE Improved(h[t \ {Max(t)}], s.rules[Max(t)], host, path)
  <2>1. CASE t = {}
    BY <1>1, <2>1 DEF IsBest
  <2>2. CASE t # {}
    <3>1. Max(t) \in t /\ \A y \in t : Max(t) >= y
      BY <2>2, LastIs
    <3>2. IsBest(h[t \ {Max(t)}], t \ {Max(t)}, s, host, path)
      BY <1>1
    <3>3. IsBest(Improved(h[t \ {Max(t)}], s.rules[Max(t)], host, path), t, s, host, path)
      BY <3>1, <3>2, BestImproves
    <3> QED BY <1>1, <2>2, <3>3, BestUnique
  <2> QED BY <2>1, <2>2
<1>4. Loops(h, s, host, path)
  BY <1>2, <1>3 DEF Loops
<1> QED BY <1>4

LEMMA LoopIsGoverning ==
  ASSUME NEW s, NEW host, NEW path, Scored(s, path)
  PROVE  Governing(s, host, path) = {ResolveRule(s, host, path)}
<1> DEFINE h == CHOOSE g : Loops(g, s, host, path)
           D == DOMAIN s.rules
<1>1. Loops(h, s, host, path)
  BY LoopExists
<1> HIDE DEF h
<1>2. \A t \in SUBSET DOMAIN s.rules :
        h[t] = IF t = {} THEN Start(s)
               ELSE Improved(h[t \ {Max(t)}], s.rules[Max(t)], host, path)
  BY <1>1 DEF Loops
<1>3. IsBest(h[D], D, s, host, path)
  <2>1. \A t \in SUBSET DOMAIN s.rules : IsBest(h[t], t, s, host, path)
    BY <1>2, LoopBest
  <2> QED BY <2>1
<1>4. PICK best : IsBest(best, D, s, host, path) /\ ResolveRule(s, host, path) = best.rule
  BY <1>3, ResolveLoops DEF h
<1>5. Governing(s, host, path) = {best.rule}
  <2>1. CASE \A i \in D : ~Applies(s.rules[i], host, path)
    <3>1. best.rule = s.defaultRule
      BY <1>4, <2>1 DEF IsBest, Wins, Start
    <3> QED BY <2>1, <3>1 DEF Governing
  <2>2. CASE ~\A i \in D : ~Applies(s.rules[i], host, path)
    <3>1. PICK i \in D : /\ Wins(i, D, s, host, path)
                         /\ best.rule = s.rules[i]
      BY <1>4, <2>2 DEF IsBest
    <3>2. \A j \in D : Wins(j, D, s, host, path) => j = i
      <4>1. \A j \in D : j \in Int /\ Score(s.rules[j], path) \in Nat
        BY DEF Scored
      <4> QED BY <3>1, <4>1 DEF Wins
    <3> DEFINE applying == {j \in D : Applies(s.rules[j], host, path)}
               winners == {j \in applying : \A l \in applying \ {j} :
                             \/ Score(s.rules[j], path) > Score(s.rules[l], path)
                             \/ Score(s.rules[j], path) = Score(s.rules[l], path) /\ j < l}
    <3>3. \A j \in D : j \in winners <=> Wins(j, D, s, host, path)
      BY DEF Wins
    <3>4. winners = {i}
      <4>1. winners \in SUBSET D
        OBVIOUS
      <4> HIDE DEF winners
      <4> QED BY <3>1, <3>2, <3>3, <4>1
    <3>5. Governing(s, host, path) = {s.rules[j] : j \in winners}
      BY <2>2 DEF Governing
    <3> QED BY <3>1, <3>4, <3>5
  <2> QED BY <2>1, <2>2
<1> QED BY <1>4, <1>5

LEMMA RulesTyped == ResolutionSpec => [](rules \in Seq(RuleChoices))
<1>1. ResolutionInit => rules \in Seq(RuleChoices)
  BY DEF ResolutionInit
<1>2. rules \in Seq(RuleChoices) /\ [AddRule]_rules => (rules \in Seq(RuleChoices))'
  BY DEF AddRule
<1> QED BY <1>1, <1>2, PTL DEF ResolutionSpec

(* The loop of resolveRule finds the rule it is to find, for any list of rules, any
   default and any URL. *)
THEOREM LoopCorrect == ResolutionSpec => []LoopFindsGoverning
<1>1. rules \in Seq(RuleChoices) => LoopFindsGoverning
  <2> SUFFICES ASSUME rules \in Seq(RuleChoices), NEW host \in Hosts, NEW path \in Paths
               PROVE  LET s == [defaultRule |-> Default, rules |-> rules]
                      IN Governing(s, host, path) = {ResolveRule(s, host, path)}
    BY DEF LoopFindsGoverning
  <2> DEFINE s == [defaultRule |-> Default, rules |-> rules]
  <2>1. s.rules = rules
    OBVIOUS
  <2>2. \A i \in DOMAIN rules : Score(rules[i], path) \in Nat
    <3> SUFFICES ASSUME NEW i \in DOMAIN rules PROVE Score(rules[i], path) \in Nat
      OBVIOUS
    <3>1. rules[i] \in RuleChoices
      OBVIOUS
    <3> QED BY <3>1, PathAssumption, ScoreType
  <2>3. Scored(s, path)
    BY <2>1, <2>2 DEF Scored
  <2> HIDE DEF s
  <2> QED BY <2>3, LoopIsGoverning DEF s
<1> QED BY <1>1, RulesTyped, PTL

(* So the rule by which the cache admits a response or lets a request use it is the
   loop's, under all settings the cache may have. *)
THEOREM RuleIsLoops ==
  Spec => [](\A k \in Keys : RulesFor(k) = {ResolveRule(settings, HostOf[k], PathOf[k])})
<1>1. TypeOK => \A k \in Keys : RulesFor(k) = {ResolveRule(settings, HostOf[k], PathOf[k])}
  <2> SUFFICES ASSUME TypeOK, NEW k \in Keys
               PROVE  RulesFor(k) = {ResolveRule(settings, HostOf[k], PathOf[k])}
    OBVIOUS
  <2>1. settings.rules \in Seq(Rules) /\ PathOf[k] \in Seq(STRING)
    BY SettingsTyped, KeyAssumption DEF TypeOK
  <2>2. \A i \in DOMAIN settings.rules : Score(settings.rules[i], PathOf[k]) \in Nat
    <3> SUFFICES ASSUME NEW i \in DOMAIN settings.rules
                 PROVE  Score(settings.rules[i], PathOf[k]) \in Nat
      OBVIOUS
    <3>1. settings.rules[i] \in Rules
      BY <2>1
    <3>2. \A p \in settings.rules[i].prefixes : p \in Seq(STRING)
      BY <3>1 DEF Rules
    <3> QED BY <2>1, <3>2, ScoreType
  <2>3. Scored(settings, PathOf[k])
    BY <2>1, <2>2 DEF Scored
  <2> QED BY <2>3, LoopIsGoverning DEF RulesFor
<1> QED BY <1>1, TypeCorrect, PTL

-------------------------------------------------------------------------------
(* The order of last use *)
Ranked(c, f) ==
  /\ f \in [Held(c) -> Nat]
  /\ c.order = {p \in Held(c) \X Held(c) : f[p[1]] > f[p[2]]}

RecencyInv ==
  /\ Ranked(cache, lastUse)
  /\ uses \in Nat /\ \A k \in Held(cache) : lastUse[k] <= uses

(* Keys that are removed leave the others in their order. *)
LEMMA RankedWithout ==
  ASSUME NEW c, NEW f, Ranked(c, f), NEW ks
  PROVE  Ranked(Without(c, ks), [j \in Held(Without(c, ks)) |-> f[j]])
<1> DEFINE d == Without(c, ks)
           g == [j \in Held(d) |-> f[j]]
<1>1. Held(d) = Held(c) \ ks
  BY WithoutHeld
<1>2. \A p : p \in d.order <=> p \in c.order /\ p[1] \notin ks \intersect Held(c)
                                            /\ p[2] \notin ks \intersect Held(c)
  BY DEF Without
<1> HIDE DEF d
<1>3. g \in [Held(d) -> Nat] /\ \A j \in Held(d) : g[j] = f[j]
  BY <1>1 DEF Ranked
<1> HIDE DEF g
<1>4. \A p : p \in d.order <=> p \in Held(d) \X Held(d) /\ g[p[1]] > g[p[2]]
  <2>1. \A p : p \in c.order <=> p \in Held(c) \X Held(c) /\ f[p[1]] > f[p[2]]
    BY DEF Ranked
  <2>2. \A p : p \in Held(d) \X Held(d) =>
                 g[p[1]] = f[p[1]] /\ g[p[2]] = f[p[2]] /\ p \in Held(c) \X Held(c)
    BY <1>1, <1>3
  <2>3. \A p \in Held(c) \X Held(c) :
          p \in Held(d) \X Held(d) <=> p[1] \notin ks \intersect Held(c)
                                         /\ p[2] \notin ks \intersect Held(c)
    BY <1>1
  <2> QED BY <1>2, <2>1, <2>2, <2>3
<1>5. d.order = {p \in Held(d) \X Held(d) : g[p[1]] > g[p[2]]}
  BY <1>4
<1>6. Ranked(d, g)
  BY <1>3, <1>5 DEF Ranked
<1> QED BY <1>6 DEF d, g

(* A key that comes to the front, with a time later than those of all others, is
   in its place. *)
LEMMA RankedFront ==
  ASSUME NEW c, NEW f, Ranked(c, f), NEW k, NEW n \in Nat, \A j \in Held(c) : f[j] < n,
         NEW d, d.order = MoveToFront(c.order, k, Held(c)), Held(d) = Held(c) \union {k}
  PROVE  Ranked(d, [j \in Held(d) |-> IF j = k THEN n ELSE f[j]])
<1> DEFINE g == [j \in Held(d) |-> IF j = k THEN n ELSE f[j]]
<1>1. /\ g \in [Held(d) -> Nat] /\ g[k] = n
      /\ \A j \in Held(c) : j # k => g[j] = f[j] /\ g[j] < n
  BY DEF Ranked
<1> HIDE DEF g
<1>2. \A a, b : <<a, b>> \in c.order <=> a \in Held(c) /\ b \in Held(c) /\ f[a] > f[b]
  BY DEF Ranked
<1>3. \A p \in c.order : p = <<p[1], p[2]>>
  BY DEF Ranked
<1>4. \A a, b : <<a, b>> \in d.order <=>
        \/ <<a, b>> \in c.order /\ a # k /\ b # k
        \/ a = k /\ b \in Held(c) \ {k}
  BY DEF MoveToFront
<1>5. \A p \in d.order : p = <<p[1], p[2]>>
  BY <1>3 DEF MoveToFront
<1>6. \A a, b : <<a, b>> \in d.order <=> a \in Held(d) /\ b \in Held(d) /\ g[a] > g[b]
  <2> SUFFICES ASSUME NEW a, NEW b
               PROVE  <<a, b>> \in d.order <=> a \in Held(d) /\ b \in Held(d) /\ g[a] > g[b]
    OBVIOUS
  <2>1. CASE a # k /\ b # k
    BY <1>1, <1>2, <1>4, <2>1
  <2>2. CASE a = k
    BY <1>1, <1>4, <2>2
  <2>3. CASE a # k /\ b = k
    <3>1. \A x \in Held(c) : x # k => ~(g[x] > n)
      BY <1>1
    <3> QED BY <1>1, <1>4, <2>3, <3>1
  <2> QED BY <2>1, <2>2, <2>3
<1>7. d.order = {p \in Held(d) \X Held(d) : g[p[1]] > g[p[2]]}
  BY <1>5, <1>6
<1> QED BY <1>1, <1>7 DEF Ranked, g

LEMMA RecencyStart == RecencyInit => RecencyInv
<1> SUFFICES ASSUME RecencyInit PROVE RecencyInv
  OBVIOUS
<1>1. Held(cache) = {} /\ cache.order = {} /\ uses = 0 /\ lastUse = << >>
  BY EmptySound DEF RecencyInit, Init, EmptyCache
<1> QED BY <1>1 DEF RecencyInv, Ranked

LEMMA KeptOrder ==
  ASSUME RecencyInv, NoUse,
         \/ cache' = cache
         \/ cache' = EmptyCache
         \/ \E ks : cache' = Without(cache, ks)
  PROVE  RecencyInv'
<1>1. uses' = uses /\ lastUse' = [j \in Held(cache') |-> lastUse[j]]
  BY DEF NoUse
<1>2. CASE cache' = cache
  BY <1>1, <1>2 DEF RecencyInv, Ranked, Held
<1>3. CASE cache' = EmptyCache
  <2>1. Held(cache') = {} /\ cache'.order = {}
    BY <1>3, EmptySound DEF EmptyCache
  <2> QED BY <1>1, <2>1 DEF RecencyInv, Ranked, Held
<1>4. ASSUME NEW ks, cache' = Without(cache, ks) PROVE RecencyInv'
  <2>1. Ranked(cache', lastUse')
    BY <1>1, <1>4, RankedWithout DEF RecencyInv
  <2>2. Held(cache') \subseteq Held(cache)
    BY <1>4, WithoutHeld
  <2> QED BY <1>1, <2>1, <2>2 DEF RecencyInv, Ranked, Held
<1> QED BY <1>2, <1>3, <1>4

(* The key used comes to the front, and what is evicted after that leaves the others
   in their order. *)
LEMMA UsedOrder ==
  ASSUME NEW c, NEW f, Ranked(c, f), NEW k, Use(k), uses \in Nat,
         \A j \in Held(c) : f[j] <= uses /\ f[j] = lastUse[j],
         NEW d, d.order = MoveToFront(c.order, k, Held(c)), Held(d) = Held(c) \union {k},
         NEW ks, cache' = Without(d, ks) \/ cache' = d
  PROVE  RecencyInv'
<1> DEFINE g == [j \in Held(d) |-> IF j = k THEN uses + 1 ELSE f[j]]
<1>1. Ranked(d, g)
  <2> DEFINE n == uses + 1
  <2>1. n \in Nat /\ \A j \in Held(c) : f[j] < n
    BY DEF Ranked
  <2> HIDE DEF n
  <2>2. Ranked(d, [j \in Held(d) |-> IF j = k THEN n ELSE f[j]])
    BY <2>1, RankedFront
  <2> QED BY <2>2 DEF n
<1>2. \A j \in Held(d) : g[j] <= uses + 1
  <2>1. \A j \in Held(c) : f[j] <= uses + 1
    BY DEF Ranked
  <2> QED BY <2>1
<1>3. \A j \in Held(d) : g[j] = IF j = k THEN uses + 1 ELSE lastUse[j]
  OBVIOUS
<1>4. uses' = uses + 1 /\ uses + 1 \in Nat
      /\ lastUse' = [j \in Held(cache') |-> IF j = k THEN uses + 1 ELSE lastUse[j]]
  BY DEF Use
<1> HIDE DEF g
<1>5. Held(cache') \subseteq Held(d) /\ Ranked(cache', [j \in Held(cache') |-> g[j]])
  <2>1. CASE cache' = Without(d, ks)
    BY <1>1, <2>1, WithoutHeld, RankedWithout
  <2>2. CASE cache' = d
    <3>1. g = [j \in Held(d) |-> g[j]]
      BY <1>1 DEF Ranked
    <3> QED BY <1>1, <2>2, <3>1
  <2> QED BY <2>1, <2>2
<1>6. lastUse' = [j \in Held(cache') |-> g[j]]
  BY <1>3, <1>4, <1>5
<1>7. Ranked(cache', lastUse')
  BY <1>5, <1>6
<1>8. \A j \in Held(cache') : lastUse'[j] <= uses'
  BY <1>2, <1>4, <1>5, <1>6
<1> QED BY <1>4, <1>7, <1>8 DEF RecencyInv, Ranked, Held

LEMMA RecencyStep ==
  ASSUME RecencyInv, [RecencyNext]_recencyVars
  PROVE  RecencyInv'
<1>1. CASE UNCHANGED recencyVars
  BY <1>1 DEF recencyVars, vars, RecencyInv, Ranked, Held
<1>2. CASE Tick /\ NoUse
  BY <1>2, KeptOrder DEF Tick
<1>3. ASSUME NEW s, UpdateSettings(s), NoUse PROVE RecencyInv'
  BY <1>3, KeptOrder DEF UpdateSettings, AfterEviction
<1>4. ASSUME NEW k, GetHit(k), Use(k) PROVE RecencyInv'
  <2> DEFINE d == Touched(cache, k)
  <2>1. k \in Held(cache) /\ cache' = d
    BY <1>4 DEF GetHit, IsHit
  <2>2. d.order = MoveToFront(cache.order, k, Held(cache)) /\ Held(d) = Held(cache) \union {k}
    BY <2>1 DEF Touched, Held
  <2> HIDE DEF d
  <2> QED BY <1>4, <2>1, <2>2, UsedOrder DEF RecencyInv
<1>5. ASSUME NEW k, GetMiss(k), NoUse PROVE RecencyInv'
  BY <1>5, KeptOrder DEF GetMiss
<1>6. ASSUME NEW k, NEW resp, StoreEntry(k, resp), Use(k) PROVE RecencyInv'
  <2> DEFINE c == Without(cache, {k})
             f == [j \in Held(c) |-> lastUse[j]]
  <2>1. PICK e, ks : cache' = Without(PushFront(c, k, e), ks)
    BY <1>6 DEF StoreEntry, AfterStore, AfterEviction
  <2>2. Held(c) = Held(cache) \ {k} /\ Ranked(c, f)
    BY WithoutHeld, RankedWithout DEF RecencyInv
  <2> DEFINE d == PushFront(c, k, e)
  <2>3. d.order = MoveToFront(c.order, k, Held(c)) /\ Held(d) = Held(c) \union {k}
    BY DEF PushFront, Held
  <2>4. \A j \in Held(c) : f[j] <= uses /\ f[j] = lastUse[j]
    BY <2>2 DEF RecencyInv
  <2>5. cache' = Without(d, ks) /\ uses \in Nat
    BY <2>1 DEF RecencyInv
  <2> HIDE DEF d, c, f
  <2> QED BY <1>6, <2>2, <2>3, <2>4, <2>5, UsedOrder
<1>7. ASSUME NEW k, NEW resp, StoreReject(k, resp), NoUse PROVE RecencyInv'
  BY <1>7, KeptOrder DEF StoreReject
<1>8. ASSUME NEW req, Invalidate(req), NoUse PROVE RecencyInv'
  BY <1>8, KeptOrder DEF Invalidate
<1>9. CASE InvalidateAll /\ NoUse
  BY <1>9, KeptOrder DEF InvalidateAll
<1>10. ASSUME NEW path, InvalidateForMutation(path), NoUse PROVE RecencyInv'
  BY <1>10, KeptOrder DEF InvalidateForMutation
<1> QED
  BY <1>1, <1>2, <1>3, <1>4, <1>5, <1>6, <1>7, <1>8, <1>9, <1>10 DEF RecencyNext

(* The recency list always has the keys in the order of their last use, whatever is
   stored, hit, evicted and invalidated in between. *)
THEOREM RecencyCorrect == RecencySpec => []RecencyIsLastUse
<1>1. RecencyInv => RecencyIsLastUse
  BY DEF RecencyInv, Ranked, RecencyIsLastUse
<1> QED BY <1>1, RecencyStart, RecencyStep, PTL DEF RecencySpec
===============================================================================
