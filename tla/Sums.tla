-------------------------------- MODULE Sums --------------------------------
(***************************************************************************)
(* What SumFunctionOnSet(f, S), the sum of f[x] over a finite set S, is:   *)
(* the recursion that defines it picks the elements in some order, and the *)
(* lemmas say that the order does not matter.  Induction over S goes       *)
(* through a smallest counterexample.                                      *)
(***************************************************************************)
EXTENDS Integers, Functions, FiniteSetTheorems, TLAPS

Pick(s) == CHOOSE x \in s : TRUE

\* The equation that defines the recursive function behind a sum over S.
Unfolds(f, S, g) ==
  g = [s \in SUBSET S |-> IF s = {} THEN 0 ELSE f[Pick(s)] + g[s \ {Pick(s)}]]

-----------------------------------------------------------------------------
(* Induction over the subsets of a finite set *)

\* A nonempty set of subsets of a finite set has a smallest one.
LEMMA SmallestSubset ==
  ASSUME NEW S, IsFiniteSet(S), NEW T \in SUBSET SUBSET S, T # {}
  PROVE  \E t \in T : \A u \in T : ~(u \subseteq t /\ u # t)
<1>1. IsWellFoundedOn(StrictSubsetOrdering(S), FiniteSubsetsOf(S))
  BY FS_StrictSubsetOrderingWellFounded
<1>2. T \subseteq FiniteSubsetsOf(S)
  BY FS_FiniteSubsetsOfFinite
<1>3. PICK t \in T : \A u \in T : ~(<<u, t>> \in StrictSubsetOrdering(S))
  BY <1>1, <1>2, WFMin
<1>4. ASSUME NEW u \in T, u \subseteq t, u # t
      PROVE  <<u, t>> \in StrictSubsetOrdering(S)
  BY <1>4, SMT DEF StrictSubsetOrdering
<1>5. \A u \in T : ~(u \subseteq t /\ u # t)
  BY <1>3, <1>4
<1> QED
  BY <1>5

\* What holds of a subset when it holds of its proper subsets holds of the set.
LEMMA SubsetInduction ==
  ASSUME NEW S, IsFiniteSet(S), NEW Good \in SUBSET SUBSET S,
         \A u \in SUBSET S : (\A w \in SUBSET u : w # u => w \in Good) => u \in Good
  PROVE  Good = SUBSET S
<1> DEFINE Bad == (SUBSET S) \ Good
<1>1. SUFFICES ASSUME Bad # {} PROVE FALSE
  BY Zenon
<1>2. PICK t \in Bad : \A u \in Bad : ~(u \subseteq t /\ u # t)
  <2>1. Bad \in SUBSET SUBSET S
    OBVIOUS
  <2> HIDE DEF Bad
  <2> QED
    BY <1>1, <2>1, SmallestSubset
<1>3. \A w \in SUBSET t : w # t => w \in Good
  BY <1>2
<1> QED
  BY <1>2, <1>3

-----------------------------------------------------------------------------
(* The recursion *)

\* The element a sum begins with is one of the set's.
LEMMA Picked ==
  ASSUME NEW s, s # {}
  PROVE  Pick(s) \in s
BY DEF Pick

\* There is at most one function that unfolds.
LEMMA UnfoldsOnce ==
  ASSUME NEW f, NEW S, IsFiniteSet(S), NEW g, NEW h, Unfolds(f, S, g), Unfolds(f, S, h)
  PROVE  g = h
<1> DEFINE Good == {s \in SUBSET S : g[s] = h[s]}
<1>1. ASSUME NEW u \in SUBSET S, \A w \in SUBSET u : w # u => w \in Good
      PROVE  u \in Good
  <2>1. CASE u = {}
    BY <2>1 DEF Unfolds
  <2>2. CASE u # {}
    <3>1. Pick(u) \in u
      BY <2>2, Picked
    <3>2. g[u \ {Pick(u)}] = h[u \ {Pick(u)}]
      BY <1>1, <3>1
    <3>3. g[u] = f[Pick(u)] + g[u \ {Pick(u)}]
      BY <2>2 DEF Unfolds
    <3>4. h[u] = f[Pick(u)] + h[u \ {Pick(u)}]
      BY <2>2 DEF Unfolds
    <3> QED
      BY <3>2, <3>3, <3>4
  <2> QED
    BY <2>1, <2>2
<1>2. Good = SUBSET S
  <2>1. Good \in SUBSET SUBSET S
    OBVIOUS
  <2> HIDE DEF Good
  <2> QED
    BY <1>1, <2>1, SubsetInduction
<1>3. \A s \in SUBSET S : g[s] = h[s]
  BY <1>2
<1> QED
  BY <1>3 DEF Unfolds

\* The community modules' definition, with its recursive function named.
LEMMA SumDef ==
  ASSUME NEW f, NEW S
  PROVE  SumFunctionOnSet(f, S) = (CHOOSE g : Unfolds(f, S, g))[S]
BY DEF SumFunctionOnSet, FoldFunctionOnSet, MapThenFoldSet, Unfolds, Pick

\* A sum is its first element and the sum of the rest.
LEMMA SumUnfolds ==
  ASSUME NEW f, NEW S, IsFiniteSet(S)
  PROVE  SumFunctionOnSet(f, S) =
           IF S = {} THEN 0 ELSE f[Pick(S)] + SumFunctionOnSet(f, S \ {Pick(S)})
<1> DEFINE Step(s) == IF s = {} THEN 0
                      ELSE f[Pick(s)] + SumFunctionOnSet(f, s \ {Pick(s)})
           Good == {s \in SUBSET S : SumFunctionOnSet(f, s) = Step(s)}
<1>1. ASSUME NEW u \in SUBSET S, \A w \in SUBSET u : w # u => w \in Good
      PROVE  u \in Good
  <2> DEFINE h == [s \in SUBSET u |-> Step(s)]
  <2>1. IsFiniteSet(u)
    BY FS_Subset
  <2>2. ASSUME NEW s \in SUBSET u, s # {}
        PROVE  h[s] = f[Pick(s)] + h[s \ {Pick(s)}]
    <3>1. Pick(s) \in s
      BY <2>2, Picked
    <3>2. s \ {Pick(s)} \in SUBSET u /\ s \ {Pick(s)} # u
      BY <3>1
    <3>3. SumFunctionOnSet(f, s \ {Pick(s)}) = Step(s \ {Pick(s)})
      BY <1>1, <3>2
    <3>4. h[s] = f[Pick(s)] + SumFunctionOnSet(f, s \ {Pick(s)})
      BY <2>2
    <3>5. h[s \ {Pick(s)}] = Step(s \ {Pick(s)})
      BY <3>2
    <3> QED
      BY <3>3, <3>4, <3>5
  <2>3. Unfolds(f, u, h)
    <3>1. h = [s \in SUBSET u |-> IF s = {} THEN 0 ELSE f[Pick(s)] + h[s \ {Pick(s)}]]
      <4>1. \A s \in SUBSET u : h[s] = IF s = {} THEN 0 ELSE f[Pick(s)] + h[s \ {Pick(s)}]
        BY <2>2
      <4>2. h = [s \in SUBSET u |-> h[s]]
        OBVIOUS
      <4> HIDE DEF h
      <4> QED
        BY <4>1, <4>2
    <3> HIDE DEF h
    <3> QED
      BY <3>1 DEF Unfolds
  <2>4. (CHOOSE g : Unfolds(f, u, g)) = h
    <3> HIDE DEF h
    <3>1. Unfolds(f, u, CHOOSE g : Unfolds(f, u, g))
      BY <2>3
    <3> QED
      BY <2>1, <2>3, <3>1, UnfoldsOnce
  <2>5. SumFunctionOnSet(f, u) = h[u]
    BY <2>4, SumDef
  <2> QED
    BY <2>5
<1>2. Good = SUBSET S
  <2>1. Good \in SUBSET SUBSET S
    OBVIOUS
  <2> HIDE DEF Good
  <2> QED
    BY <1>1, <2>1, SubsetInduction
<1> QED
  BY <1>2

-----------------------------------------------------------------------------
(* What sums of naturals do *)

\* A sum over nothing is zero.
LEMMA SumEmpty ==
  ASSUME NEW f
  PROVE  SumFunctionOnSet(f, {}) = 0
BY FS_EmptySet, SumUnfolds

\* A sum of naturals is a natural.
LEMMA SumNat ==
  ASSUME NEW f, NEW S, IsFiniteSet(S), \A x \in S : f[x] \in Nat
  PROVE  SumFunctionOnSet(f, S) \in Nat
<1> DEFINE Good == {s \in SUBSET S : SumFunctionOnSet(f, s) \in Nat}
<1>1. ASSUME NEW u \in SUBSET S, \A w \in SUBSET u : w # u => w \in Good
      PROVE  u \in Good
  <2>1. IsFiniteSet(u)
    BY FS_Subset
  <2>2. CASE u = {}
    BY <2>2, SumEmpty
  <2>3. CASE u # {}
    <3>1. Pick(u) \in u
      BY <2>3, Picked
    <3>2. SumFunctionOnSet(f, u \ {Pick(u)}) \in Nat /\ f[Pick(u)] \in Nat
      BY <1>1, <3>1
    <3>3. SumFunctionOnSet(f, u) = f[Pick(u)] + SumFunctionOnSet(f, u \ {Pick(u)})
      BY <2>1, <2>3, SumUnfolds
    <3> QED
      BY <3>2, <3>3
  <2> QED
    BY <2>2, <2>3
<1>2. Good \in SUBSET SUBSET S
  OBVIOUS
<1>3. Good = SUBSET S
  <2> HIDE DEF Good
  <2> QED
    BY <1>1, <1>2, SubsetInduction
<1> QED
  BY <1>3

\* Any element may be taken out first.
LEMMA SumRemove ==
  ASSUME NEW f, NEW S, IsFiniteSet(S), \A x \in S : f[x] \in Nat, NEW y \in S
  PROVE  SumFunctionOnSet(f, S) = f[y] + SumFunctionOnSet(f, S \ {y})
<1> DEFINE Good == {s \in SUBSET S : \A x \in s :
              SumFunctionOnSet(f, s) = f[x] + SumFunctionOnSet(f, s \ {x})}
<1>1. ASSUME NEW u \in SUBSET S, \A w \in SUBSET u : w # u => w \in Good
      PROVE  u \in Good
  <2> SUFFICES ASSUME NEW x \in u
               PROVE  SumFunctionOnSet(f, u) = f[x] + SumFunctionOnSet(f, u \ {x})
    OBVIOUS
  <2> DEFINE p == Pick(u)
  <2>1. /\ p \in u /\ IsFiniteSet(u)
        /\ SumFunctionOnSet(f, u) = f[p] + SumFunctionOnSet(f, u \ {p})
    BY FS_Subset, Picked, SumUnfolds
  <2> HIDE DEF p
  <2>2. CASE x = p
    BY <2>1, <2>2
  <2>3. CASE x # p
    <3>1. u \ {p} \in Good /\ u \ {x} \in Good /\ x \in u \ {p} /\ p \in u \ {x}
      BY <1>1, <2>1, <2>3
    <3>2. SumFunctionOnSet(f, u \ {p}) = f[x] + SumFunctionOnSet(f, (u \ {p}) \ {x})
      BY <3>1
    <3>3. SumFunctionOnSet(f, u \ {x}) = f[p] + SumFunctionOnSet(f, (u \ {x}) \ {p})
      BY <3>1
    <3>4. (u \ {p}) \ {x} = (u \ {x}) \ {p}
      OBVIOUS
    <3>5. f[x] \in Nat /\ f[p] \in Nat /\ SumFunctionOnSet(f, (u \ {x}) \ {p}) \in Nat
      <4>1. IsFiniteSet((u \ {x}) \ {p})
        BY <2>1, FS_Subset
      <4>2. \A z \in (u \ {x}) \ {p} : f[z] \in Nat
        OBVIOUS
      <4> QED
        BY <2>1, <4>1, <4>2, SumNat
    <3> QED
      BY <2>1, <3>2, <3>3, <3>4, <3>5
  <2> QED
    BY <2>2, <2>3
<1>2. Good \in SUBSET SUBSET S
  OBVIOUS
<1>3. Good = SUBSET S
  <2> HIDE DEF Good
  <2> QED
    BY <1>1, <1>2, SubsetInduction
<1> QED
  BY <1>3

\* Functions that are smaller everywhere have smaller sums.
LEMMA SumMonotone ==
  ASSUME NEW f, NEW g, NEW S, IsFiniteSet(S),
         \A x \in S : f[x] \in Nat /\ g[x] \in Nat /\ f[x] <= g[x]
  PROVE  SumFunctionOnSet(f, S) <= SumFunctionOnSet(g, S)
<1> DEFINE Good == {s \in SUBSET S : SumFunctionOnSet(f, s) <= SumFunctionOnSet(g, s)}
<1>1. ASSUME NEW u \in SUBSET S, \A w \in SUBSET u : w # u => w \in Good
      PROVE  u \in Good
  <2>1. IsFiniteSet(u)
    BY FS_Subset
  <2>2. CASE u = {}
    BY <2>2, SumEmpty
  <2>3. CASE u # {}
    <3> DEFINE p == Pick(u)
    <3>1. p \in u
      BY <2>3, Picked
    <3>2. /\ SumFunctionOnSet(f, u) = f[p] + SumFunctionOnSet(f, u \ {p})
          /\ SumFunctionOnSet(g, u) = g[p] + SumFunctionOnSet(g, u \ {p})
      BY <2>1, <2>3, SumUnfolds
    <3> HIDE DEF p
    <3>3. SumFunctionOnSet(f, u \ {p}) <= SumFunctionOnSet(g, u \ {p})
      BY <1>1, <3>1
    <3>4. IsFiniteSet(u \ {p})
      BY <2>1, FS_Subset
    <3>5. SumFunctionOnSet(f, u \ {p}) \in Nat
      BY <3>4, SumNat
    <3>6. SumFunctionOnSet(g, u \ {p}) \in Nat
      BY <3>4, SumNat
    <3>7. f[p] \in Nat /\ g[p] \in Nat /\ f[p] <= g[p]
      BY <3>1
    <3> QED
      BY <3>2, <3>3, <3>5, <3>6, <3>7
  <2> QED
    BY <2>2, <2>3
<1>2. Good \in SUBSET SUBSET S
  OBVIOUS
<1>3. Good = SUBSET S
  <2> HIDE DEF Good
  <2> QED
    BY <1>1, <1>2, SubsetInduction
<1> QED
  BY <1>3

\* Functions that agree have the same sum.
LEMMA SumEqual ==
  ASSUME NEW f, NEW g, NEW S, IsFiniteSet(S), \A x \in S : f[x] \in Nat /\ f[x] = g[x]
  PROVE  SumFunctionOnSet(f, S) = SumFunctionOnSet(g, S)
<1>1. SumFunctionOnSet(f, S) <= SumFunctionOnSet(g, S)
  BY SumMonotone
<1>2. SumFunctionOnSet(g, S) <= SumFunctionOnSet(f, S)
  BY SumMonotone
<1>3. SumFunctionOnSet(f, S) \in Nat
  BY SumNat
<1>4. SumFunctionOnSet(g, S) \in Nat
  BY SumNat
<1> QED
  BY <1>1, <1>2, <1>3, <1>4

\* Functions that differ at one element have sums that differ by as much.
LEMMA SumUpdate ==
  ASSUME NEW f, NEW g, NEW S, IsFiniteSet(S), NEW y \in S,
         \A x \in S : f[x] \in Nat /\ g[x] \in Nat,
         \A x \in S : x # y => f[x] = g[x]
  PROVE  SumFunctionOnSet(g, S) = SumFunctionOnSet(f, S) - f[y] + g[y]
<1>1. IsFiniteSet(S \ {y})
  BY FS_Subset
<1>2. SumFunctionOnSet(f, S \ {y}) = SumFunctionOnSet(g, S \ {y})
  BY <1>1, SumEqual
<1>3. SumFunctionOnSet(f, S \ {y}) \in Nat
  BY <1>1, SumNat
<1>4. SumFunctionOnSet(f, S) = f[y] + SumFunctionOnSet(f, S \ {y})
  BY SumRemove
<1>5. SumFunctionOnSet(g, S) = g[y] + SumFunctionOnSet(g, S \ {y})
  BY SumRemove
<1> QED
  BY <1>2, <1>3, <1>4, <1>5

\* A sum of zeros is zero.
LEMMA SumZero ==
  ASSUME NEW f, NEW S, IsFiniteSet(S), \A x \in S : f[x] = 0
  PROVE  SumFunctionOnSet(f, S) = 0
<1> DEFINE Good == {s \in SUBSET S : SumFunctionOnSet(f, s) = 0}
<1>1. ASSUME NEW u \in SUBSET S, \A w \in SUBSET u : w # u => w \in Good
      PROVE  u \in Good
  <2>1. CASE u = {}
    BY <2>1, SumEmpty
  <2>2. CASE u # {}
    <3>1. IsFiniteSet(u) /\ Pick(u) \in u
      BY <2>2, FS_Subset, Picked
    <3>2. SumFunctionOnSet(f, u) = f[Pick(u)] + SumFunctionOnSet(f, u \ {Pick(u)})
      BY <2>2, <3>1, SumUnfolds
    <3>3. SumFunctionOnSet(f, u \ {Pick(u)}) = 0
      BY <1>1, <3>1
    <3> QED
      BY <3>1, <3>2, <3>3
  <2> QED
    BY <2>1, <2>2
<1>2. Good \in SUBSET SUBSET S
  OBVIOUS
<1>3. Good = SUBSET S
  <2> HIDE DEF Good
  <2> QED
    BY <1>1, <1>2, SubsetInduction
<1> QED
  BY <1>3

\* Disjoint subsets of a finite set have together at most its elements.
LEMMA SumOfDisjoint ==
  ASSUME NEW S, IsFiniteSet(S), NEW C, IsFiniteSet(C), NEW part \in [S -> SUBSET C],
         \A x, y \in S : x # y => part[x] \cap part[y] = {}
  PROVE  SumFunctionOnSet([x \in S |-> Cardinality(part[x])], S) <= Cardinality(C)
<1> DEFINE size == [x \in S |-> Cardinality(part[x])]
           Whole(s) == UNION {part[x] : x \in s}
           Good == {s \in SUBSET S : SumFunctionOnSet(size, s) = Cardinality(Whole(s))}
<1>0. \A x \in S : size[x] \in Nat /\ IsFiniteSet(part[x])
  BY FS_Subset, FS_CardinalityType
<1>1. ASSUME NEW u \in SUBSET S, \A w \in SUBSET u : w # u => w \in Good
      PROVE  u \in Good
  <2>1. CASE u = {}
    <3>1. Whole(u) = {}
      BY <2>1
    <3> HIDE DEF Whole, size
    <3> QED
      BY <2>1, <3>1, SumEmpty, FS_EmptySet
  <2>2. CASE u # {}
    <3> DEFINE p == Pick(u)
               v == u \ {p}
    <3>1. IsFiniteSet(u) /\ p \in u
      BY <2>2, FS_Subset, Picked
    <3>2. SumFunctionOnSet(size, u) = size[p] + SumFunctionOnSet(size, v)
      <4> HIDE DEF size
      <4> QED
        BY <2>2, <3>1, SumUnfolds
    <3> HIDE DEF p
    <3>3. SumFunctionOnSet(size, v) = Cardinality(Whole(v))
      BY <1>1, <3>1
    <3>4. Whole(u) = part[p] \cup Whole(v) /\ part[p] \cap Whole(v) = {}
      BY <3>1
    <3>5. IsFiniteSet(Whole(v)) /\ IsFiniteSet(part[p])
      <4>1. Whole(v) \subseteq C
        OBVIOUS
      <4> QED
        BY <1>0, <3>1, <4>1, FS_Subset
    <3>6. Cardinality(Whole(u)) = Cardinality(part[p]) + Cardinality(Whole(v))
      <4>1. Cardinality(part[p]) \in Nat /\ Cardinality(Whole(v)) \in Nat
        BY <3>5, FS_CardinalityType
      <4>2. Cardinality(part[p] \cup Whole(v)) =
              Cardinality(part[p]) + Cardinality(Whole(v)) - Cardinality(part[p] \cap Whole(v))
        <5> HIDE DEF Whole, v
        <5> QED
          BY <3>5, FS_Union
      <4>3. Cardinality(part[p] \cap Whole(v)) = 0
        <5> HIDE DEF Whole, v
        <5> QED
          BY <3>4, FS_EmptySet
      <4>4. Cardinality(Whole(u)) = Cardinality(part[p] \cup Whole(v))
        <5> HIDE DEF Whole, v
        <5> QED
          BY <3>4, Zenon
      <4> HIDE DEF Whole, v
      <4> QED
        BY <4>1, <4>2, <4>3, <4>4
    <3>7. size[p] = Cardinality(part[p])
      BY <3>1
    <3> QED
      BY <3>2, <3>3, <3>6, <3>7
  <2> QED
    BY <2>1, <2>2
<1>2. Good \in SUBSET SUBSET S
  OBVIOUS
<1>3. Good = SUBSET S
  <2> HIDE DEF Good
  <2> QED
    BY <1>1, <1>2, SubsetInduction
<1>4. SumFunctionOnSet(size, S) = Cardinality(Whole(S))
  BY <1>3
<1>5. Cardinality(Whole(S)) <= Cardinality(C)
  <2>1. Whole(S) \subseteq C
    OBVIOUS
  <2> QED
    BY <2>1, FS_Subset
<1> QED
  BY <1>4, <1>5
=============================================================================
