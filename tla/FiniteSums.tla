------------------------------ MODULE FiniteSums ------------------------------
(***************************************************************************)
(* Sums over finite sets, as MapThenSumSet of the community modules has    *)
(* them, for any function and any finite set.  The sum is a recursive      *)
(* function, so that nothing is known of it before it is shown to exist    *)
(* (lemma SumsExist); the facts the proofs cite are SumEmpty, SumAdd,      *)
(* SumWithout, SumLess and SumSame.  The last parts count the n greatest   *)
(* elements of a set and those above an element.  Induction over finite    *)
(* sets and numbers is by the smallest counterexample.                     *)
(***************************************************************************)
EXTENDS Integers, FiniteSetsExt, FiniteSetTheorems, WellFoundedInduction, TLAPS

(* A nonempty set of numbers has a least one. *)
LEMMA LeastNumber ==
  ASSUME NEW T \in SUBSET Nat, T # {}
  PROVE  \E n \in T : \A m \in T : n <= m
<1> DEFINE R == {p \in Nat \X Nat : p[1] < p[2]}
<1>1. IsWellFoundedOn(R, Nat)
  BY NatLessThanWellFounded DEF OpToRel
<1>2. PICK n \in T : \A m \in T : <<m, n>> \notin R
  <2> HIDE DEF R
  <2> QED BY <1>1, WFMin
<1>3. \A m \in T : ~(m < n)
  BY <1>2
<1> QED BY <1>3

(* A nonempty set of numbers with a bound has a greatest one. *)
LEMMA GreatestNumber ==
  ASSUME NEW T \in SUBSET Nat, T # {}, NEW b \in Nat, \A n \in T : n <= b
  PROVE  \E n \in T : \A m \in T : m <= n
<1> DEFINE U == {b - n : n \in T}
<1>1. U \in SUBSET Nat /\ U # {}
  <2>1. \A n \in T : b - n \in Nat
    OBVIOUS
  <2> QED BY <2>1
<1>2. PICK u \in U : \A v \in U : u <= v
  <2> HIDE DEF U
  <2> QED BY <1>1, LeastNumber
<1>3. PICK n \in T : u = b - n
  BY <1>2
<1>4. \A m \in T : b - m \in U
  OBVIOUS
<1> QED BY <1>2, <1>3, <1>4

(* A nonempty set of subsets of a finite set has a smallest one. *)
LEMMA SmallestSet ==
  ASSUME NEW S, IsFiniteSet(S), NEW U \in SUBSET SUBSET S, U # {}
  PROVE  \E T \in U : \A V \in U : V \subseteq T => V = T
<1>1. IsWellFoundedOn(StrictSubsetOrdering(S), SUBSET S)
  BY FS_StrictSubsetOrderingWellFounded, FS_FiniteSubsetsOfFinite
<1>2. PICK T \in U : \A V \in U : <<V, T>> \notin StrictSubsetOrdering(S)
  BY <1>1, WFMin
<1> QED BY <1>2 DEF StrictSubsetOrdering

-------------------------------------------------------------------------------
Chosen(s) == CHOOSE x \in s : TRUE

(* g has the sum of f over each subset of S. *)
Sums(g, f, S) ==
  g = [s \in SUBSET S |-> IF s = {} THEN 0 ELSE f[Chosen(s)] + g[s \ {Chosen(s)}]]

Sum(f, S) == (CHOOSE g : Sums(g, f, S))[S]

LEMMA ChosenIn == \A s : s # {} => Chosen(s) \in s
  BY DEF Chosen

UpTo(S, n) == {s \in SUBSET S : Cardinality(s) <= n}

SumsUpTo(g, f, S, n) ==
  g = [s \in UpTo(S, n) |-> IF s = {} THEN 0 ELSE f[Chosen(s)] + g[s \ {Chosen(s)}]]

LEMMA SumsOneMore ==
  ASSUME NEW S, IsFiniteSet(S), NEW f, NEW n \in Nat, NEW g, SumsUpTo(g, f, S, n)
  PROVE  \E h : SumsUpTo(h, f, S, n + 1)
<1> DEFINE h == [s \in UpTo(S, n + 1) |-> IF s = {} THEN 0 ELSE f[Chosen(s)] + g[s \ {Chosen(s)}]]
<1>1. ASSUME NEW s \in UpTo(S, n + 1), s # {}
      PROVE  s \ {Chosen(s)} \in UpTo(S, n) /\ s \ {Chosen(s)} \in UpTo(S, n + 1)
  <2>1. IsFiniteSet(s) /\ Cardinality(s) \in Nat /\ s \subseteq S /\ Cardinality(s) <= n + 1
    BY FS_Subset, FS_CardinalityType DEF UpTo
  <2>2. Cardinality(s \ {Chosen(s)}) = Cardinality(s) - 1
    BY <1>1, <2>1, ChosenIn, FS_RemoveElement
  <2> QED BY <2>1, <2>2 DEF UpTo
<1>2. ASSUME NEW s \in UpTo(S, n)
      PROVE  s \in UpTo(S, n + 1) /\ h[s] = g[s]
  <2>1. IsFiniteSet(s) /\ Cardinality(s) \in Nat
    BY FS_Subset, FS_CardinalityType DEF UpTo
  <2>2. s \in UpTo(S, n + 1)
    BY <2>1 DEF UpTo
  <2>3. g[s] = IF s = {} THEN 0 ELSE f[Chosen(s)] + g[s \ {Chosen(s)}]
    BY DEF SumsUpTo
  <2> QED BY <2>2, <2>3
<1>3. \A s \in UpTo(S, n + 1) :
        h[s] = IF s = {} THEN 0 ELSE f[Chosen(s)] + h[s \ {Chosen(s)}]
  <2> SUFFICES ASSUME NEW s \in UpTo(S, n + 1), s # {}
               PROVE  h[s] = f[Chosen(s)] + h[s \ {Chosen(s)}]
    OBVIOUS
  <2>1. h[s] = f[Chosen(s)] + g[s \ {Chosen(s)}]
    OBVIOUS
  <2>2. h[s \ {Chosen(s)}] = g[s \ {Chosen(s)}]
    BY <1>1, <1>2
  <2> QED BY <2>1, <2>2
<1>4. h = [s \in UpTo(S, n + 1) |-> IF s = {} THEN 0 ELSE f[Chosen(s)] + h[s \ {Chosen(s)}]]
  BY <1>3
<1> QED BY <1>4 DEF SumsUpTo

(* The sums exist. *)
LEMMA SumsExist ==
  ASSUME NEW S, IsFiniteSet(S), NEW f
  PROVE  \E g : Sums(g, f, S)
<1> DEFINE Missing == {n \in Nat : ~\E g : SumsUpTo(g, f, S, n)}
<1>1. \E g : SumsUpTo(g, f, S, 0)
  <2> DEFINE g == [s \in UpTo(S, 0) |-> 0]
  <2>1. \A s \in UpTo(S, 0) : s = {}
    BY FS_EmptySet, FS_Subset, FS_CardinalityType DEF UpTo
  <2>2. g = [s \in UpTo(S, 0) |-> IF s = {} THEN 0 ELSE f[Chosen(s)] + g[s \ {Chosen(s)}]]
    BY <2>1
  <2> QED BY <2>2 DEF SumsUpTo
<1>2. Missing = {}
  <2> SUFFICES ASSUME Missing # {} PROVE FALSE
    OBVIOUS
  <2>1. PICK n \in Missing : \A m \in Missing : n <= m
    BY LeastNumber
  <2>2. n \in Nat /\ n # 0 /\ ~\E g : SumsUpTo(g, f, S, n)
    BY <1>1, <2>1
  <2>3. n - 1 \in Nat /\ n - 1 \notin Missing /\ (n - 1) + 1 = n
    BY <2>1, <2>2
  <2>4. \E h : SumsUpTo(h, f, S, (n - 1) + 1)
    BY <2>3, SumsOneMore
  <2> QED BY <2>2, <2>3, <2>4
<1>3. PICK g : SumsUpTo(g, f, S, Cardinality(S))
  BY <1>2, FS_CardinalityType
<1>4. UpTo(S, Cardinality(S)) = SUBSET S
  BY FS_Subset DEF UpTo
<1> QED BY <1>3, <1>4 DEF Sums, SumsUpTo

LEMMA SumsEmpty ==
  ASSUME NEW f, NEW S, NEW g, Sums(g, f, S)
  PROVE  g[{}] = 0
  BY DEF Sums

LEMMA SumsNext ==
  ASSUME NEW f, NEW S, NEW g, Sums(g, f, S), NEW s \in SUBSET S, s # {}
  PROVE  Chosen(s) \in s /\ g[s] = f[Chosen(s)] + g[s \ {Chosen(s)}]
  BY ChosenIn DEF Sums

(* They are the same for functions that agree, whichever set they are taken over. *)
LEMMA SumsAgree ==
  ASSUME NEW S, IsFiniteSet(S), NEW T \in SUBSET S, NEW f, NEW e, \A x \in T : f[x] = e[x],
         NEW g, Sums(g, f, S), NEW h, Sums(h, e, T)
  PROVE  \A s \in SUBSET T : g[s] = h[s]
<1> DEFINE U == {s \in SUBSET T : g[s] # h[s]}
<1> SUFFICES ASSUME U # {} PROVE FALSE
  OBVIOUS
<1>1. PICK s \in U : \A v \in U : v \subseteq s => v = s
  <2>1. IsFiniteSet(T) /\ U \in SUBSET SUBSET T
    BY FS_Subset
  <2> HIDE DEF U
  <2> QED BY <2>1, SmallestSet
<1>2. s \in SUBSET T /\ s \in SUBSET S /\ g[s] # h[s]
  BY <1>1
<1>3. s # {}
  BY <1>2, SumsEmpty
<1>4. Chosen(s) \in s
  BY <1>3, ChosenIn
<1>5. g[s \ {Chosen(s)}] = h[s \ {Chosen(s)}]
  BY <1>1, <1>2, <1>4
<1>6. f[Chosen(s)] = e[Chosen(s)]
  BY <1>2, <1>4
<1>7. /\ g[s] = f[Chosen(s)] + g[s \ {Chosen(s)}]
      /\ h[s] = e[Chosen(s)] + h[s \ {Chosen(s)}]
  BY <1>2, <1>3, SumsNext
<1> QED BY <1>2, <1>5, <1>6, <1>7

LEMMA SumsInt ==
  ASSUME NEW S, IsFiniteSet(S), NEW f, \A x \in S : f[x] \in Int, NEW g, Sums(g, f, S)
  PROVE  \A s \in SUBSET S : g[s] \in Int
<1> DEFINE U == {s \in SUBSET S : g[s] \notin Int}
<1> SUFFICES ASSUME U # {} PROVE FALSE
  OBVIOUS
<1>1. PICK s \in U : \A v \in U : v \subseteq s => v = s
  <2>1. U \in SUBSET SUBSET S
    OBVIOUS
  <2> HIDE DEF U
  <2> QED BY <2>1, SmallestSet
<1>2. s \in SUBSET S /\ g[s] \notin Int
  BY <1>1
<1>3. s # {}
  BY <1>2, SumsEmpty
<1>4. Chosen(s) \in s
  BY <1>3, ChosenIn
<1>5. g[s \ {Chosen(s)}] \in Int /\ f[Chosen(s)] \in Int
  BY <1>1, <1>2, <1>4
<1>6. g[s] = f[Chosen(s)] + g[s \ {Chosen(s)}]
  <2> HIDE DEF U
  <2> QED BY <1>2, <1>3, SumsNext
<1> QED BY <1>2, <1>5, <1>6

(* The order in which the elements are taken does not matter. *)
LEMMA SumsAnyOrder ==
  ASSUME NEW S, IsFiniteSet(S), NEW f, \A x \in S : f[x] \in Int, NEW g, Sums(g, f, S)
  PROVE  \A s \in SUBSET S : \A x \in s : g[s] = f[x] + g[s \ {x}]
<1> DEFINE U == {s \in SUBSET S : \E x \in s : g[s] # f[x] + g[s \ {x}]}
<1> SUFFICES ASSUME U # {} PROVE FALSE
  OBVIOUS
<1>1. PICK s \in U : \A v \in U : v \subseteq s => v = s
  <2>1. U \in SUBSET SUBSET S
    OBVIOUS
  <2> HIDE DEF U
  <2> QED BY <2>1, SmallestSet
<1>2. PICK x \in s : g[s] # f[x] + g[s \ {x}]
  BY <1>1
<1>3. s \in SUBSET S
  BY <1>1
<1>4. PICK y \in s : g[s] = f[y] + g[s \ {y}]
  <2>1. s # {}
    BY <1>2
  <2>2. Chosen(s) \in s /\ g[s] = f[Chosen(s)] + g[s \ {Chosen(s)}]
    <3> HIDE DEF U
    <3> QED BY <1>3, <2>1, SumsNext
  <2> QED BY <2>2
<1>5. x # y
  BY <1>2, <1>4
<1>6. s \ {y} \notin U /\ s \ {x} \notin U
  BY <1>1, <1>2, <1>4
<1>7. g[s \ {y}] = f[x] + g[(s \ {y}) \ {x}]
  BY <1>2, <1>3, <1>5, <1>6
<1>8. g[s \ {x}] = f[y] + g[(s \ {x}) \ {y}]
  BY <1>3, <1>4, <1>5, <1>6
<1>9. (s \ {x}) \ {y} = (s \ {y}) \ {x} /\ (s \ {x}) \ {y} \in SUBSET S
  BY <1>3
<1>10. f[x] \in Int /\ f[y] \in Int /\ g[(s \ {x}) \ {y}] \in Int
  BY <1>2, <1>3, <1>4, <1>9, SumsInt
<1>11. g[s] = f[y] + (f[x] + g[(s \ {x}) \ {y}]) /\ g[s \ {x}] = f[y] + g[(s \ {x}) \ {y}]
  BY <1>4, <1>7, <1>8, <1>9
<1>12. \A p, q, r \in Int : q + (p + r) = p + (q + r)
  OBVIOUS
<1>13. g[s] = f[x] + g[s \ {x}]
  BY <1>10, <1>11, <1>12
<1> QED BY <1>2, <1>13

-------------------------------------------------------------------------------
LEMMA SumIs ==
  ASSUME NEW S, IsFiniteSet(S), NEW f, NEW g, Sums(g, f, S)
  PROVE  Sum(f, S) = g[S]
<1> DEFINE h == CHOOSE h : Sums(h, f, S)
<1>1. Sums(h, f, S)
  OBVIOUS
<1> HIDE DEF h
<1>2. h[S] = g[S]
  BY <1>1, SumsAgree
<1> QED BY <1>2 DEF Sum, h

LEMMA SumOfSubset ==
  ASSUME NEW S, IsFiniteSet(S), NEW f, NEW g, Sums(g, f, S), NEW T \in SUBSET S
  PROVE  Sum(f, T) = g[T]
<1>1. IsFiniteSet(T)
  BY FS_Subset
<1>2. PICK h : Sums(h, f, T)
  BY <1>1, SumsExist
<1>3. g[T] = h[T]
  BY <1>2, SumsAgree
<1> QED BY <1>1, <1>2, <1>3, SumIs

LEMMA SumEmpty == \A f : Sum(f, {}) = 0
<1> TAKE f
<1>1. IsFiniteSet({})
  BY FS_EmptySet
<1>2. PICK g : Sums(g, f, {})
  BY <1>1, SumsExist
<1> QED BY <1>1, <1>2, SumIs, SumsEmpty

LEMMA SumInt ==
  ASSUME NEW S, IsFiniteSet(S), NEW f, \A x \in S : f[x] \in Int
  PROVE  Sum(f, S) \in Int
<1>1. PICK g : Sums(g, f, S)
  BY SumsExist
<1> QED BY <1>1, SumIs, SumsInt

LEMMA SumSame ==
  ASSUME NEW S, IsFiniteSet(S), NEW f, NEW e, \A x \in S : f[x] = e[x]
  PROVE  Sum(f, S) = Sum(e, S)
<1>1. PICK g : Sums(g, f, S)
  BY SumsExist
<1>2. PICK h : Sums(h, e, S)
  BY SumsExist
<1>3. g[S] = h[S]
  BY <1>1, <1>2, SumsAgree
<1> QED BY <1>1, <1>2, <1>3, SumIs

(* Taking one element away *)
LEMMA SumRemove ==
  ASSUME NEW S, IsFiniteSet(S), NEW f, \A x \in S : f[x] \in Int, NEW x \in S
  PROVE  Sum(f, S) = f[x] + Sum(f, S \ {x})
<1>1. PICK g : Sums(g, f, S)
  BY SumsExist
<1>2. Sum(f, S) = g[S] /\ Sum(f, S \ {x}) = g[S \ {x}]
  BY <1>1, SumOfSubset
<1>3. g[S] = f[x] + g[S \ {x}]
  BY <1>1, SumsAnyOrder
<1> QED BY <1>2, <1>3

LEMMA SumAdd ==
  ASSUME NEW S, IsFiniteSet(S), NEW x, x \notin S, NEW f, f[x] \in Int, \A y \in S : f[y] \in Int
  PROVE  Sum(f, S \union {x}) = f[x] + Sum(f, S)
<1>1. IsFiniteSet(S \union {x}) /\ (S \union {x}) \ {x} = S
  BY FS_AddElement
<1> QED BY <1>1, SumRemove

(* Taking a subset away *)
LEMMA SumWithout ==
  ASSUME NEW S, IsFiniteSet(S), NEW f, \A x \in S : f[x] \in Int, NEW T \in SUBSET S
  PROVE  Sum(f, S \ T) = Sum(f, S) - Sum(f, T)
<1> DEFINE U == {t \in SUBSET S : Sum(f, S \ t) # Sum(f, S) - Sum(f, t)}
<1> SUFFICES ASSUME U # {} PROVE FALSE
  OBVIOUS
<1>1. PICK t \in U : \A v \in U : v \subseteq t => v = t
  <2>1. U \in SUBSET SUBSET S
    OBVIOUS
  <2> HIDE DEF U
  <2> QED BY <2>1, SmallestSet
<1>2. t \in SUBSET S /\ Sum(f, S \ t) # Sum(f, S) - Sum(f, t)
  BY <1>1
<1>3. Sum(f, S) \in Int /\ Sum(f, t) \in Int
  BY <1>2, SumInt, FS_Subset
<1>4. t # {}
  <2>1. t = {} => Sum(f, t) = 0 /\ S \ t = S
    BY SumEmpty
  <2> QED BY <1>2, <1>3, <2>1
<1>5. PICK x : x \in t
  BY <1>4
<1>6. t \ {x} \in SUBSET S /\ t \ {x} \notin U
  BY <1>1, <1>2, <1>5
<1>7. Sum(f, S \ (t \ {x})) = Sum(f, S) - Sum(f, t \ {x})
  BY <1>6
<1>8. Sum(f, t) = f[x] + Sum(f, t \ {x})
  BY <1>2, <1>5, SumRemove, FS_Subset
<1>9. Sum(f, S \ (t \ {x})) = f[x] + Sum(f, S \ t)
  <2>1. S \ (t \ {x}) \in SUBSET S /\ x \in S \ (t \ {x})
    BY <1>2, <1>5
  <2>2. (S \ (t \ {x})) \ {x} = S \ t
    BY <1>5
  <2> QED BY <2>1, <2>2, SumRemove, FS_Subset
<1>10. f[x] \in Int /\ Sum(f, t \ {x}) \in Int /\ Sum(f, S \ t) \in Int
  <2>1. f[x] \in Int
    BY <1>2, <1>5
  <2>2. Sum(f, t \ {x}) \in Int
    BY <1>6, SumInt, FS_Subset
  <2>3. Sum(f, S \ t) \in Int
    BY SumInt, FS_Subset
  <2> QED BY <2>1, <2>2, <2>3
<1> HIDE DEF U
<1> QED BY <1>2, <1>3, <1>7, <1>8, <1>9, <1>10

LEMMA SumNat ==
  ASSUME NEW S, IsFiniteSet(S), NEW f, \A x \in S : f[x] \in Nat
  PROVE  Sum(f, S) \in Nat
<1> DEFINE U == {t \in SUBSET S : Sum(f, t) \notin Nat}
<1> SUFFICES ASSUME U # {} PROVE FALSE
  OBVIOUS
<1>1. PICK t \in U : \A v \in U : v \subseteq t => v = t
  <2>1. U \in SUBSET SUBSET S
    OBVIOUS
  <2> HIDE DEF U
  <2> QED BY <2>1, SmallestSet
<1>2. t \in SUBSET S /\ Sum(f, t) \notin Nat
  BY <1>1
<1>3. PICK x : x \in t
  BY <1>2, SumEmpty
<1>4. Sum(f, t \ {x}) \in Nat
  BY <1>1, <1>2, <1>3
<1>5. Sum(f, t) = f[x] + Sum(f, t \ {x})
  BY <1>2, <1>3, SumRemove, FS_Subset
<1> QED BY <1>2, <1>3, <1>4, <1>5

(* Of two functions that differ by one on a part of the set *)
LEMMA SumLess ==
  ASSUME NEW S, IsFiniteSet(S), NEW T \in SUBSET S, NEW f, NEW e, \A x \in S : e[x] \in Int,
         \A x \in S : f[x] = IF x \in T THEN e[x] - 1 ELSE e[x]
  PROVE  Sum(f, S) = Sum(e, S) - Cardinality(T)
<1> DEFINE U == {t \in SUBSET S : Sum(f, t) # Sum(e, t) - Cardinality(t \intersect T)}
<1>0. \A x \in S : f[x] \in Int
  OBVIOUS
<1>1. U = {}
  <2> SUFFICES ASSUME U # {} PROVE FALSE
    OBVIOUS
  <2>1. PICK t \in U : \A v \in U : v \subseteq t => v = t
    <3>1. U \in SUBSET SUBSET S
      OBVIOUS
    <3> HIDE DEF U
    <3> QED BY <3>1, SmallestSet
  <2>2. t \in SUBSET S /\ Sum(f, t) # Sum(e, t) - Cardinality(t \intersect T)
    BY <2>1
  <2>3. t # {}
    <3>1. t = {} => Sum(f, t) = 0 /\ Sum(e, t) = 0 /\ Cardinality(t \intersect T) = 0
      BY SumEmpty, FS_EmptySet
    <3> QED BY <2>2, <3>1
  <2>4. PICK x : x \in t
    BY <2>3
  <2> DEFINE r == t \ {x}
  <2>5. r \in SUBSET S /\ Sum(f, r) = Sum(e, r) - Cardinality(r \intersect T)
    BY <2>1, <2>2, <2>4
  <2>6. Sum(f, t) = f[x] + Sum(f, r) /\ Sum(e, t) = e[x] + Sum(e, r)
    BY <1>0, <2>2, <2>4, SumRemove, FS_Subset
  <2>7. /\ Cardinality(t \intersect T) =
             IF x \in T THEN Cardinality(r \intersect T) + 1 ELSE Cardinality(r \intersect T)
        /\ Cardinality(r \intersect T) \in Nat
    <3>1. IsFiniteSet(r \intersect T) /\ Cardinality(r \intersect T) \in Nat
      BY <2>5, FS_Subset, FS_CardinalityType
    <3>2. CASE x \in T
      <4>1. t \intersect T = (r \intersect T) \union {x} /\ x \notin r \intersect T
        BY <2>4, <3>2
      <4> QED BY <3>1, <3>2, <4>1, FS_AddElement
    <3>3. CASE x \notin T
      <4>1. t \intersect T = r \intersect T
        BY <3>3
      <4> QED BY <3>1, <3>3, <4>1
    <3> QED BY <3>2, <3>3
  <2>8. Sum(e, r) \in Int /\ e[x] \in Int
    BY <2>2, <2>4, <2>5, SumInt, FS_Subset
  <2> HIDE DEF U, r
  <2> QED BY <2>2, <2>4, <2>5, <2>6, <2>7, <2>8
<1>2. S \in SUBSET S /\ S \notin U /\ S \intersect T = T
  BY <1>1
<1> QED BY <1>2

-------------------------------------------------------------------------------
(* A nonempty finite set of integers has a least element. *)
LEMMA LeastElement ==
  ASSUME NEW S, IsFiniteSet(S), \A s \in S : s \in Int, S # {}
  PROVE  \E x \in S : \A y \in S : x <= y
<1> DEFINE U == {t \in SUBSET S : t # {} /\ ~\E x \in t : \A y \in t : x <= y}
<1> SUFFICES ASSUME U # {} PROVE FALSE
  OBVIOUS
<1>1. PICK t \in U : \A v \in U : v \subseteq t => v = t
  <2>1. U \in SUBSET SUBSET S
    OBVIOUS
  <2> HIDE DEF U
  <2> QED BY <2>1, SmallestSet
<1>2. t \in SUBSET S /\ t # {} /\ ~\E x \in t : \A y \in t : x <= y
  BY <1>1
<1>3. PICK x : x \in t
  BY <1>2
<1>4. t \ {x} \in SUBSET S /\ t \ {x} \notin U
  BY <1>1, <1>2, <1>3
<1>5. t \ {x} # {}
  BY <1>2, <1>3
<1>6. PICK z \in t \ {x} : \A y \in t \ {x} : z <= y
  BY <1>4, <1>5
<1>7. x \in Int /\ z \in Int
  BY <1>2, <1>3
<1>8. CASE x <= z
  BY <1>2, <1>3, <1>6, <1>7, <1>8
<1>9. CASE z <= x
  BY <1>2, <1>3, <1>6, <1>7, <1>9
<1> QED BY <1>7, <1>8, <1>9

Above(S, x) == {y \in S : y > x}

(* The n greatest of a finite set, or all of it when it has no more *)
Greatest(S, n) == {x \in S : Cardinality(Above(S, x)) < n}

LEMMA AboveFinite ==
  ASSUME NEW S, IsFiniteSet(S), NEW x
  PROVE  IsFiniteSet(Above(S, x)) /\ Cardinality(Above(S, x)) \in 0 .. Cardinality(S)
  BY FS_Subset, FS_CardinalityType DEF Above

(* A new least element leaves what is above the others alone and has all of them above. *)
LEMMA AboveAdded ==
  ASSUME NEW S \in SUBSET Int, NEW x \in Int, \A i \in S : i > x
  PROVE  /\ x \notin S /\ Above(S \union {x}, x) = S
         /\ \A i \in S : Above(S \union {x}, i) = Above(S, i)
<1>1. x \notin S
  OBVIOUS
<1>2. \A y \in S \union {x} : y > x <=> y \in S
  BY <1>1
<1>3. ASSUME NEW i \in S PROVE ~(x > i)
  <2>1. i > x /\ i \in Int
    OBVIOUS
  <2> QED BY <2>1
<1> QED BY <1>1, <1>2, <1>3 DEF Above

(* How many are above an element tells which it is. *)
LEMMA AboveTells ==
  ASSUME NEW S \in SUBSET Nat, IsFiniteSet(S), NEW i \in S, NEW j \in S,
         Cardinality(Above(S, i)) = Cardinality(Above(S, j))
  PROVE  i = j
<1>1. ASSUME NEW a \in S, NEW b \in S, a < b
      PROVE  Cardinality(Above(S, a)) # Cardinality(Above(S, b))
  <2>0. a \in Nat /\ b \in Nat /\ (\A y \in S : y > b => y > a) /\ b > a /\ ~(b > b)
    <3>1. a \in Nat /\ b \in Nat /\ S \in SUBSET Nat
      OBVIOUS
    <3> QED BY <1>1, <3>1
  <2>1. Above(S, b) \in SUBSET Above(S, a) /\ b \in Above(S, a) /\ b \notin Above(S, b)
    BY <2>0 DEF Above
  <2>2. IsFiniteSet(Above(S, a))
    BY AboveFinite
  <2> QED BY <2>1, <2>2, FS_Subset
<1>2. i \in Nat /\ j \in Nat
  OBVIOUS
<1> QED BY <1>1, <1>2

LEMMA GreatestCount ==
  ASSUME NEW S, IsFiniteSet(S), \A s \in S : s \in Int, NEW n \in Nat
  PROVE  /\ IsFiniteSet(Greatest(S, n))
         /\ Cardinality(Greatest(S, n)) = IF Cardinality(S) < n THEN Cardinality(S) ELSE n
<1> DEFINE Right(t) ==
             Cardinality(Greatest(t, n)) = IF Cardinality(t) < n THEN Cardinality(t) ELSE n
           U == {t \in SUBSET S : ~Right(t)}
<1>0. \A t \in SUBSET S : IsFiniteSet(Greatest(t, n)) /\ IsFiniteSet(t)
  BY FS_Subset DEF Greatest
<1>1. U = {}
  <2> SUFFICES ASSUME U # {} PROVE FALSE
    OBVIOUS
  <2>1. PICK t \in U : \A v \in U : v \subseteq t => v = t
    <3>1. U \in SUBSET SUBSET S
      OBVIOUS
    <3> HIDE DEF U
    <3> QED BY <3>1, SmallestSet
  <2>2. t \in SUBSET S /\ ~Right(t)
    BY <2>1
  <2>3. IsFiniteSet(t) /\ Cardinality(t) \in Nat /\ \A s \in t : s \in Int
    BY <1>0, <2>2, FS_CardinalityType
  <2>4. t # {}
    <3>1. t = {} => Greatest(t, n) = {} /\ Cardinality({}) = 0
      BY FS_EmptySet DEF Greatest
    <3> QED BY <2>2, <3>1
  <2>5. PICK x \in t : \A y \in t : x <= y
    BY <2>3, <2>4, LeastElement
  <2> DEFINE r == t \ {x}
  <2>6. r \in SUBSET S /\ Right(r)
    <3>1. r \in SUBSET S /\ r \notin U
      BY <2>1, <2>2, <2>5
    <3> QED BY <3>1
  <2>7. \A y \in r : Above(r, y) = Above(t, y)
    BY <2>3, <2>5 DEF Above
  <2>8. Above(t, x) = r
    <3>1. \A y \in t : y > x <=> y # x
      BY <2>3, <2>5
    <3> QED BY <3>1 DEF Above
  <2>9. IsFiniteSet(r) /\ Cardinality(r) = Cardinality(t) - 1 /\ Cardinality(r) \in Nat
    BY <2>3, <2>5, FS_RemoveElement, FS_CardinalityType
  <2>10. CASE Cardinality(r) < n
    <3>1. Greatest(t, n) = Greatest(r, n) \union {x}
      BY <2>5, <2>7, <2>8, <2>10 DEF Greatest
    <3>2. x \notin Greatest(r, n)
      BY DEF Greatest
    <3>3. Cardinality(Greatest(t, n)) = Cardinality(Greatest(r, n)) + 1
      BY <1>0, <2>6, <3>1, <3>2, FS_AddElement
    <3> HIDE DEF r
    <3> QED BY <2>2, <2>3, <2>6, <2>9, <2>10, <3>3
  <2>11. CASE ~(Cardinality(r) < n)
    <3>1. Greatest(t, n) = Greatest(r, n)
      BY <2>5, <2>7, <2>8, <2>11 DEF Greatest
    <3> HIDE DEF r
    <3> QED BY <2>2, <2>3, <2>6, <2>9, <2>11, <3>1
  <2> QED BY <2>10, <2>11
<1>2. S \notin U /\ S \in SUBSET S
  BY <1>1
<1> QED BY <1>0, <1>2

-------------------------------------------------------------------------------
(* A set of numbers moved by d has as many elements. *)
Shifted(S, d) == {x + d : x \in S}

LEMMA ShiftedCount ==
  ASSUME NEW S \in SUBSET Int, IsFiniteSet(S), NEW d \in Int
  PROVE  Cardinality(Shifted(S, d)) = Cardinality(S)
<1> DEFINE T == Shifted(S, d)
           f == [x \in S |-> x + d]
<1>1. f \in [S -> T] /\ \A t \in T : \E x \in S : f[x] = t
  BY DEF Shifted
<1>2. ASSUME NEW a \in S, NEW b \in S, f[a] = f[b] PROVE a = b
  <2>1. a \in Int /\ b \in Int /\ a + d = b + d
    BY <1>2
  <2> QED BY <2>1
<1> HIDE DEF f, T
<1>3. f \in Bijection(S, T)
  BY <1>1, <1>2 DEF Bijection, Injection, IsInjective, Surjection
<1>4. ExistsBijection(S, T)
  BY <1>3 DEF ExistsBijection
<1>5. Cardinality(T) = Cardinality(S)
  BY <1>4, FS_Bijection
<1> QED BY <1>5 DEF T
===============================================================================
