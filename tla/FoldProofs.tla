---------------------------- MODULE FoldProofs ----------------------------
(***************************************************************************)
(* What the folds of the community modules compute.  Their recursion takes *)
(* one element after the other out of a set: for a sum over a set          *)
(* (PolicyBudget) in an order nobody knows, for a sequence (Repetition,    *)
(* Conversations) from its end.                                            *)
(*                                                                         *)
(* The lemmas are proved by induction over the subsets of the set: of      *)
(* those for which a lemma would fail there is a least one (LeastSubset).  *)
(***************************************************************************)
EXTENDS FiniteSetTheorems, SequenceTheorems, SequencesExt, TLAPS

\* A set of subsets of a finite set has a least member.
LEMMA LeastSubset ==
  ASSUME NEW S, IsFiniteSet(S), NEW T, T \subseteq SUBSET S, T # {}
  PROVE  \E s \in T : \A t \in T : t \subseteq s => t = s
  <1>1. IsWellFoundedOn(StrictSubsetOrdering(S), SUBSET S)
    BY FS_StrictSubsetOrderingWellFounded, FS_FiniteSubsetsOfFinite
  <1>2. PICK s \in T : \A t \in T : ~ (<<t, s>> \in StrictSubsetOrdering(S))
    BY <1>1, WFMin
  <1>3. \A t \in T : t \subseteq s /\ t # s => <<t, s>> \in StrictSubsetOrdering(S)
    BY DEF StrictSubsetOrdering
  <1>4. ASSUME NEW t \in T, t \subseteq s PROVE t = s
    BY <1>2, <1>3, <1>4
  <1>5. QED
    BY <1>4

\* What is true of 0, and of n + 1 if of n, is true of all natural numbers.
LEMMA NumberInduction ==
  ASSUME NEW T, 0 \in T, \A n \in Nat : n \in T => n + 1 \in T
  PROVE  Nat \subseteq T
  <1> SUFFICES ASSUME NEW n \in Nat, n \notin T PROVE FALSE
    OBVIOUS
  <1> DEFINE Bad == {0..m : m \in (0..n) \ T}
  <1>2. IsFiniteSet(0..n)
    BY FS_Interval
  <1>0. Bad \subseteq SUBSET (0..n) /\ 0..n \in Bad
    <2>1. n \in (0..n) \ T
      OBVIOUS
    <2>2. \A m \in 0..n : 0..m \subseteq 0..n
      OBVIOUS
    <2>3. QED
      BY <2>1, <2>2
  <1>1. Bad # {}
    BY <1>0
  <1>3. PICK s \in Bad : \A t \in Bad : t \subseteq s => t = s
    <2>1. PICK S : S = 0..n
      OBVIOUS
    <2>2. IsFiniteSet(S) /\ Bad \subseteq SUBSET S
      BY <1>0, <1>2, <2>1
    <2> HIDE DEF Bad
    <2>3. QED
      BY <1>1, <2>2, LeastSubset
  <1>4. PICK m \in (0..n) \ T : s = 0..m
    OBVIOUS
  <1>5. m # 0 /\ m \in Nat
    OBVIOUS
  <1>6. m - 1 \notin T
    BY <1>5
  <1>7. 0..(m - 1) \in Bad
    BY <1>5, <1>6
  <1>8. 0..(m - 1) \subseteq s /\ 0..(m - 1) # s
    BY <1>4, <1>5
  <1>9. QED
    BY <1>3, <1>7, <1>8

\* The same, from 0 to n.
LEMMA StepInduction ==
  ASSUME NEW n \in Nat, NEW T, 0 \in T, \A m \in 1..n : m - 1 \in T => m \in T
  PROVE  0..n \subseteq T
  <1> DEFINE U == {m \in Nat : m <= n => m \in T}
  <1>1. 0 \in U
    OBVIOUS
  <1>2. ASSUME NEW m \in Nat, m \in U PROVE m + 1 \in U
    <2>1. PICK k \in Nat : k = m + 1 /\ k - 1 = m
      OBVIOUS
    <2>2. k <= n => m <= n /\ k \in 1..n
      BY <2>1
    <2>3. k <= n => k \in T
      BY <1>2, <2>1, <2>2
    <2>4. QED
      BY <2>1, <2>3
  <1>3. Nat \subseteq U
    <2> HIDE DEF U
    <2>1. QED
      BY <1>1, <1>2, NumberInduction
  <1>4. \A m \in 0..n : m \in Nat /\ m <= n
    OBVIOUS
  <1>5. QED
    BY <1>3, <1>4

-----------------------------------------------------------------------------
\* Sums over a set.

SumOn(f, S) == FoldFunctionOnSet(LAMBDA x, y : x + y, 0, f, S)

\* The element that the fold takes out first.
First(s) == CHOOSE x \in s : TRUE

\* The equation that the fold solves, for all subsets of S.
Rest(g, s) == g[s \ {First(s)}]
Folds(g, f, S) ==
    g = [s \in SUBSET S |-> IF s = {} THEN 0 ELSE f[First(s)] + Rest(g, s)]

Fold(f, S) == CHOOSE g : Folds(g, f, S)

\* The sum is the value of the solution for the whole set.
LEMMA SumUnfolds == ASSUME NEW f, NEW S PROVE SumOn(f, S) = Fold(f, S)[S]
  BY DEF SumOn, FoldFunctionOnSet, MapThenFoldSet, Fold, Folds, Rest, First

\* First is in the set.
LEMMA FirstIsIn == ASSUME NEW S, S # {} PROVE First(S) \in S
  BY DEF First

\* What a solution is for a subset.
LEMMA FoldsAt ==
  ASSUME NEW g, NEW f, NEW S, Folds(g, f, S), NEW s \in SUBSET S
  PROVE  g[s] = IF s = {} THEN 0 ELSE f[First(s)] + Rest(g, s)
  BY DEF Folds

\* Two solutions agree where both are defined.
LEMMA FoldsAgree ==
  ASSUME NEW f, NEW S, IsFiniteSet(S), NEW g, NEW h, NEW R, NEW T,
         S \subseteq R, S \subseteq T, Folds(g, f, R), Folds(h, f, T)
  PROVE  g[S] = h[S]
  <1> DEFINE Bad == {s \in SUBSET S : g[s] # h[s]}
  <1>1. SUFFICES ASSUME Bad # {} PROVE FALSE
    OBVIOUS
  <1>2. PICK s \in Bad : \A t \in Bad : t \subseteq s => t = s
    <2>1. Bad \subseteq SUBSET S
      OBVIOUS
    <2> HIDE DEF Bad
    <2>2. QED
      BY <1>1, <2>1, LeastSubset
  <1>3. /\ g[s] = IF s = {} THEN 0 ELSE f[First(s)] + Rest(g, s)
        /\ h[s] = IF s = {} THEN 0 ELSE f[First(s)] + Rest(h, s)
    BY FoldsAt
  <1>4. s # {}
    BY <1>3
  <1>5. s \ {First(s)} \subseteq s /\ s \ {First(s)} # s
    BY <1>4, FirstIsIn
  <1>6. g[s \ {First(s)}] = h[s \ {First(s)}]
    BY <1>2, <1>5
  <1>7. QED
    BY <1>3, <1>4, <1>6 DEF Rest

\* There is a solution.
LEMMA FoldExists == ASSUME NEW f, NEW S, IsFiniteSet(S) PROVE Folds(Fold(f, S), f, S)
  <1> DEFINE Bad == {s \in SUBSET S : ~ Folds(Fold(f, s), f, s)}
  <1>1. SUFFICES ASSUME Bad # {} PROVE FALSE
    OBVIOUS
  <1>2. PICK s \in Bad : \A t \in Bad : t \subseteq s => t = s
    <2>1. Bad \subseteq SUBSET S
      OBVIOUS
    <2> HIDE DEF Bad
    <2>2. QED
      BY <1>1, <2>1, LeastSubset
  <1>3. \A t \in SUBSET s : t # s => Folds(Fold(f, t), f, t)
    BY <1>2
  <1> DEFINE less(t) == t \ {First(t)}
             g == [t \in SUBSET s |-> IF t = {} THEN 0
                                      ELSE f[First(t)] + Fold(f, less(t))[less(t)]]
  <1>4. \A t \in SUBSET s : t # {} => /\ less(t) \in SUBSET s /\ less(t) # s
                                      /\ IsFiniteSet(less(t))
    <2> TAKE t \in SUBSET s
    <2>1. ASSUME t # {} PROVE First(t) \in t
      BY <2>1, FirstIsIn
    <2>2. IsFiniteSet(less(t))
      BY FS_Subset
    <2>3. QED
      BY <2>1, <2>2
  <1>5. ASSUME NEW t \in SUBSET s, t # s PROVE g[t] = Fold(f, t)[t]
    <2>1. CASE t = {}
      BY <1>3, <1>5, <2>1, FoldsAt
    <2>2. CASE t # {}
      <3>1. Folds(Fold(f, t), f, t) /\ Folds(Fold(f, less(t)), f, less(t))
        BY <1>3, <1>4, <1>5, <2>2
      <3>2. Fold(f, t)[t] = f[First(t)] + Fold(f, t)[less(t)]
        BY <2>2, <3>1, FoldsAt DEF Rest
      <3>3. Fold(f, t)[less(t)] = Fold(f, less(t))[less(t)]
        BY <1>4, <2>2, <3>1, FoldsAgree
      <3>4. QED
        BY <2>2, <3>2, <3>3
    <2>3. QED
      BY <2>1, <2>2
  <1>6. Folds(g, f, s)
    <2>1. ASSUME NEW t \in SUBSET s, t # {} PROVE Rest(g, t) = Fold(f, less(t))[less(t)]
      BY <1>4, <1>5, <2>1 DEF Rest
    <2>2. QED
      BY <2>1 DEF Folds
  <1>7. Folds(Fold(f, s), f, s)
    <2> HIDE DEF g
    <2>1. QED
      BY <1>6 DEF Fold
  <1>8. QED
    BY <1>2, <1>7

-----------------------------------------------------------------------------
\* The sum over no element.
LEMMA SumEmpty == ASSUME NEW f PROVE SumOn(f, {}) = 0
  <1>1. Folds(Fold(f, {}), f, {})
    BY FoldExists, FS_EmptySet
  <1>2. QED
    BY <1>1, FoldsAt, SumUnfolds

\* The sum takes out one element, and goes on with the rest.
LEMMA SumFirst ==
  ASSUME NEW f, NEW S, IsFiniteSet(S), S # {}
  PROVE  SumOn(f, S) = f[First(S)] + SumOn(f, S \ {First(S)})
  <1> DEFINE less == S \ {First(S)}
  <1>1. IsFiniteSet(less) /\ less \subseteq S
    BY FS_Subset
  <1>2. Folds(Fold(f, S), f, S) /\ Folds(Fold(f, less), f, less)
    BY <1>1, FoldExists
  <1>3. Fold(f, S)[S] = f[First(S)] + Fold(f, S)[less]
    BY <1>2, FoldsAt DEF Rest
  <1>4. Fold(f, S)[less] = Fold(f, less)[less]
    BY <1>1, <1>2, FoldsAgree
  <1>5. QED
    BY <1>3, <1>4, SumUnfolds

\* A sum of integers is an integer.
LEMMA SumInteger ==
  ASSUME NEW f, NEW S, IsFiniteSet(S), \A x \in S : f[x] \in Int
  PROVE  SumOn(f, S) \in Int
  <1> DEFINE Bad == {s \in SUBSET S : SumOn(f, s) \notin Int}
  <1>1. SUFFICES ASSUME Bad # {} PROVE FALSE
    OBVIOUS
  <1>2. PICK s \in Bad : \A t \in Bad : t \subseteq s => t = s
    <2>1. Bad \subseteq SUBSET S
      OBVIOUS
    <2> HIDE DEF Bad
    <2>2. QED
      BY <1>1, <2>1, LeastSubset
  <1>3. s # {} /\ IsFiniteSet(s)
    <2>1. SumOn(f, {}) \in Int
      BY SumEmpty
    <2>2. SumOn(f, s) \notin Int
      OBVIOUS
    <2>3. QED
      BY <2>1, <2>2, FS_Subset
  <1>4. First(s) \in s
    BY <1>3, FirstIsIn
  <1>5. SumOn(f, s \ {First(s)}) \in Int
    BY <1>2, <1>4
  <1>6. QED
    BY <1>3, <1>4, <1>5, SumFirst

\* A sum of natural numbers is a natural number.
LEMMA SumNatural ==
  ASSUME NEW f, NEW S, IsFiniteSet(S), \A x \in S : f[x] \in Nat
  PROVE  SumOn(f, S) \in Nat
  <1> DEFINE Bad == {s \in SUBSET S : SumOn(f, s) \notin Nat}
  <1>1. SUFFICES ASSUME Bad # {} PROVE FALSE
    OBVIOUS
  <1>2. PICK s \in Bad : \A t \in Bad : t \subseteq s => t = s
    <2>1. Bad \subseteq SUBSET S
      OBVIOUS
    <2> HIDE DEF Bad
    <2>2. QED
      BY <1>1, <2>1, LeastSubset
  <1>3. s # {} /\ IsFiniteSet(s)
    <2>1. SumOn(f, {}) \in Nat
      BY SumEmpty
    <2>2. SumOn(f, s) \notin Nat
      OBVIOUS
    <2>3. QED
      BY <2>1, <2>2, FS_Subset
  <1>4. First(s) \in s
    BY <1>3, FirstIsIn
  <1>5. SumOn(f, s \ {First(s)}) \in Nat
    BY <1>2, <1>4
  <1>6. QED
    BY <1>3, <1>4, <1>5, SumFirst

\* Any element may be taken out first.
LEMMA SumRemove ==
  ASSUME NEW f, NEW S, IsFiniteSet(S), \A x \in S : f[x] \in Int, NEW x \in S
  PROVE  SumOn(f, S) = f[x] + SumOn(f, S \ {x})
  <1> DEFINE Differs(s, y) == SumOn(f, s) # f[y] + SumOn(f, s \ {y})
             Bad == {s \in SUBSET S : \E y \in s : Differs(s, y)}
  <1>1. SUFFICES ASSUME Bad # {} PROVE FALSE
    OBVIOUS
  <1>2. PICK s \in Bad : \A t \in Bad : t \subseteq s => t = s
    <2>1. Bad \subseteq SUBSET S
      OBVIOUS
    <2> HIDE DEF Bad
    <2>2. QED
      BY <1>1, <2>1, LeastSubset
  <1>3. PICK y \in s : Differs(s, y)
    OBVIOUS
  <1> DEFINE z == First(s)
             rest == (s \ {y}) \ {z}
  <1>4. IsFiniteSet(s) /\ IsFiniteSet(rest)
    BY FS_Subset
  <1>5. z \in s
    BY FirstIsIn
  <1>6. SumOn(f, s) = f[z] + SumOn(f, s \ {z})
    BY <1>4, SumFirst
  <1>7. z # y
    BY <1>3, <1>6
  <1>8. SumOn(f, s \ {z}) = f[y] + SumOn(f, rest)
    <2>1. s \ {z} \in SUBSET S /\ s \ {z} # s /\ s \ {z} \subseteq s /\ y \in s \ {z}
      BY <1>5, <1>7
    <2>2. ~ Differs(s \ {z}, y)
      BY <1>2, <2>1
    <2>3. (s \ {z}) \ {y} = rest
      OBVIOUS
    <2>4. QED
      BY <2>2, <2>3
  <1>9. SumOn(f, s \ {y}) = f[z] + SumOn(f, rest)
    <2>1. s \ {y} \in SUBSET S /\ s \ {y} # s /\ s \ {y} \subseteq s /\ z \in s \ {y}
      BY <1>5, <1>7
    <2>2. QED
      BY <1>2, <2>1
  <1>10. f[y] \in Int /\ f[z] \in Int /\ SumOn(f, rest) \in Int
    <2>1. \A u \in rest : f[u] \in Int
      OBVIOUS
    <2>2. SumOn(f, rest) \in Int
      <3> HIDE DEF rest
      <3>1. QED
        BY <1>4, <2>1, SumInteger
    <2>3. QED
      BY <1>5, <2>2
  <1> HIDE DEF z, rest
  <1>11. QED
    BY <1>3, <1>6, <1>8, <1>9, <1>10

\* Functions that agree on the set have the same sum.
LEMMA SumSame ==
  ASSUME NEW f, NEW g, NEW S, IsFiniteSet(S), \A x \in S : f[x] = g[x]
  PROVE  SumOn(f, S) = SumOn(g, S)
  <1> DEFINE Bad == {s \in SUBSET S : SumOn(f, s) # SumOn(g, s)}
  <1>1. SUFFICES ASSUME Bad # {} PROVE FALSE
    OBVIOUS
  <1>2. PICK s \in Bad : \A t \in Bad : t \subseteq s => t = s
    <2>1. Bad \subseteq SUBSET S
      OBVIOUS
    <2> HIDE DEF Bad
    <2>2. QED
      BY <1>1, <2>1, LeastSubset
  <1>3. s # {} /\ IsFiniteSet(s)
    BY SumEmpty, FS_Subset
  <1>4. First(s) \in s
    BY <1>3, FirstIsIn
  <1>5. SumOn(f, s \ {First(s)}) = SumOn(g, s \ {First(s)})
    BY <1>2, <1>4
  <1>6. QED
    BY <1>3, <1>4, <1>5, SumFirst

\* The sum when the set gets one more element.
LEMMA SumAdd ==
  ASSUME NEW f, NEW S, IsFiniteSet(S), NEW x, x \notin S,
         \A y \in S \cup {x} : f[y] \in Int
  PROVE  SumOn(f, S \cup {x}) = f[x] + SumOn(f, S)
  <1>1. IsFiniteSet(S \cup {x})
    BY FS_AddElement
  <1>2. (S \cup {x}) \ {x} = S
    OBVIOUS
  <1>3. QED
    BY <1>1, <1>2, SumRemove

\* The sum when one value changes.
LEMMA SumChange ==
  ASSUME NEW f, NEW g, NEW S, IsFiniteSet(S), NEW x \in S,
         \A y \in S : f[y] \in Int /\ g[y] \in Int,
         \A y \in S \ {x} : g[y] = f[y]
  PROVE  SumOn(g, S) = (SumOn(f, S) - f[x]) + g[x]
  <1>1. IsFiniteSet(S \ {x})
    BY FS_Subset
  <1>2. SumOn(f, S \ {x}) = SumOn(g, S \ {x})
    BY <1>1, SumSame
  <1>3. SumOn(f, S \ {x}) \in Int
    BY <1>1, SumInteger
  <1>4. /\ SumOn(f, S) = f[x] + SumOn(f, S \ {x})
        /\ SumOn(g, S) = g[x] + SumOn(g, S \ {x})
    BY SumRemove
  <1>5. QED
    BY <1>2, <1>3, <1>4

\* A sum of natural numbers is at least each of them.
LEMMA SumAtLeast ==
  ASSUME NEW f, NEW S, IsFiniteSet(S), \A y \in S : f[y] \in Nat, NEW x \in S
  PROVE  f[x] <= SumOn(f, S)
  <1>1. SumOn(f, S \ {x}) \in Nat
    <2>1. IsFiniteSet(S \ {x})
      BY FS_Subset
    <2>2. QED
      BY <2>1, SumNatural
  <1>2. SumOn(f, S) = f[x] + SumOn(f, S \ {x})
    BY SumRemove
  <1>3. QED
    BY <1>1, <1>2

-----------------------------------------------------------------------------
\* FoldLeft, over a sequence.

\* A set of numbers has a largest one.
LEMMA LargestNumber ==
  ASSUME NEW n \in Nat, NEW s \in SUBSET (1..n), s # {}
  PROVE  Max(s) \in s /\ \A i \in s : Max(s) >= i
  <1> DEFINE Largest(t) == \E x \in t : \A y \in t : x >= y
             T == {m \in Nat : \A t \in SUBSET (1..m) : t # {} => Largest(t)}
  <1>1. 0 \in T
    <2>1. 1..0 = {}
      OBVIOUS
    <2>2. QED
      BY <2>1
  <1>2. ASSUME NEW m \in Nat, m \in T PROVE m + 1 \in T
    <2> SUFFICES ASSUME NEW t \in SUBSET (1..(m + 1)), t # {} PROVE Largest(t)
      OBVIOUS
    <2>1. CASE m + 1 \in t
      BY <2>1
    <2>2. CASE m + 1 \notin t
      <3>1. t \in SUBSET (1..m)
        BY <2>2
      <3>2. QED
        BY <1>2, <3>1
    <2>3. QED
      BY <2>1, <2>2
  <1>3. n \in T
    <2> HIDE DEF T
    <2>1. QED
      BY <1>1, <1>2, NumberInduction
  <1>4. Largest(s)
    BY <1>3
  <1>5. QED
    BY <1>4 DEF Max

\* A fold takes a step from the value it has for all but the last number of a
\* set; it need do so only where that value is in A.
Folded(g, step, base, f, n) ==
    g = [s \in SUBSET (1..n) |-> IF s = {} THEN base ELSE step[g[s \ {Max(s)}]][f[Max(s)]]]

FoldsIn(A, g, step, base, f, n) ==
    /\ g[{}] = base
    /\ \A s \in SUBSET (1..n) : (s # {} /\ g[s \ {Max(s)}] \in A) =>
                                 g[s] = step[g[s \ {Max(s)}]][f[Max(s)]]

\* Its values after each step, the last being the result.
StepByStep(A, r, step, base, f, n, result) ==
    /\ r \in [0..n -> A] /\ r[0] = base /\ r[n] = result
    /\ \A m \in 1..n : r[m] = step[r[m - 1]][f[m]]

\* Steps over the first n values can be taken one after the other, from the
\* last, as the fold takes them.
LEMMA StepsExist ==
  ASSUME NEW A, NEW B, NEW step \in [A -> [B -> A]], NEW base \in A,
         NEW n \in Nat, NEW f \in [1..n -> B]
  PROVE  \E g \in [SUBSET (1..n) -> A] : Folded(g, step, base, f, n)
  <1> DEFINE Value(g, s) == IF s = {} THEN base ELSE step[g[s \ {Max(s)}]][f[Max(s)]]
             Steps(m) == \E g \in [SUBSET (1..m) -> A] :
                            \A s \in SUBSET (1..m) : g[s] = Value(g, s)
             T == {m \in Nat : m <= n => Steps(m)}
  <1>1. 0 \in T
    <2>1. 1..0 = {}
      OBVIOUS
    <2> DEFINE g == [s \in SUBSET (1..0) |-> base]
    <2>2. g \in [SUBSET (1..0) -> A] /\ \A s \in SUBSET (1..0) : s = {} /\ g[s] = base
      BY <2>1
    <2> HIDE DEF g
    <2>3. Steps(0)
      BY <2>2
    <2>4. QED
      BY <2>3
  <1>2. ASSUME NEW m \in Nat, m \in T PROVE m + 1 \in T
    <2> SUFFICES ASSUME m + 1 <= n PROVE Steps(m + 1)
      <3>1. m + 1 \in Nat
        OBVIOUS
      <3>2. QED
        BY <3>1
    <2>0. Steps(m)
      <3>1. m <= n
        OBVIOUS
      <3>2. QED
        BY <1>2, <3>1
    <2>1. PICK g \in [SUBSET (1..m) -> A] : \A s \in SUBSET (1..m) : g[s] = Value(g, s)
      BY <2>0
    <2> DEFINE last == m + 1
               h == [s \in SUBSET (1..last) |->
                        IF last \in s THEN step[g[s \ {last}]][f[last]] ELSE g[s]]
    <2>2. f[last] \in B
      <3>1. m + 1 \in 1..n
        OBVIOUS
      <3>2. QED
        BY <3>1
    <2>3. \A s \in SUBSET (1..last) : /\ last \in s => s \ {last} \in SUBSET (1..m)
                                      /\ last \notin s => s \in SUBSET (1..m)
      <3>1. \A i \in 1..last : i # last => i \in 1..m
        OBVIOUS
      <3>2. QED
        BY <3>1
    <2>4. h \in [SUBSET (1..last) -> A]
      BY <2>2, <2>3
    <2>5. ASSUME NEW s \in SUBSET (1..last) PROVE h[s] = Value(h, s)
      <3>1. CASE s = {}
        <4>1. last \notin s /\ s \in SUBSET (1..m)
          BY <3>1
        <4>2. h[s] = g[s]
          BY <4>1
        <4>3. QED
          BY <2>1, <3>1, <4>1, <4>2
      <3>2. CASE last \in s
        <4>1. Max(s) = last
          <5>1. PICK k \in Nat : k = last
            OBVIOUS
          <5>2. s \in SUBSET (1..k) /\ s # {}
            BY <3>2, <5>1
          <5>3. Max(s) \in s /\ \A i \in s : Max(s) >= i
            BY <5>2, LargestNumber
          <5>4. Max(s) \in 1..k /\ Max(s) >= k
            BY <3>2, <5>1, <5>3
          <5>5. \A i \in 1..k : i >= k => i = k
            OBVIOUS
          <5>6. QED
            BY <5>1, <5>4, <5>5
        <4>2. s \ {last} \in SUBSET (1..last) /\ last \notin s \ {last}
          OBVIOUS
        <4>3. h[s \ {last}] = g[s \ {last}]
          BY <4>2
        <4>4. QED
          BY <3>2, <4>1, <4>3
      <3>3. CASE s # {} /\ last \notin s
        <4>1. s \in SUBSET (1..m) /\ h[s] = g[s]
          BY <2>3, <3>3
        <4>2. s \ {Max(s)} \in SUBSET (1..last) /\ last \notin s \ {Max(s)}
          BY <3>3
        <4>3. h[s \ {Max(s)}] = g[s \ {Max(s)}]
          BY <4>2
        <4>4. g[s] = Value(g, s)
          BY <2>1, <4>1
        <4>5. QED
          BY <3>3, <4>1, <4>3, <4>4
      <3>4. QED
        BY <3>1, <3>2, <3>3
    <2> HIDE DEF h
    <2>6. QED
      BY <2>4, <2>5
  <1>3. n \in T
    <2> HIDE DEF T
    <2>1. T \subseteq Nat
      BY DEF T
    <2>2. QED
      BY <1>1, <1>2, <2>1, NumberInduction
  <1>4. PICK g \in [SUBSET (1..n) -> A] : \A s \in SUBSET (1..n) : g[s] = Value(g, s)
    <2>1. n <= n
      OBVIOUS
    <2>2. QED
      BY <1>3, <2>1
  <1>5. g = [s \in SUBSET (1..n) |-> Value(g, s)]
    BY <1>4
  <1>6. QED
    BY <1>5 DEF Folded

\* The fold of a sequence goes from its first value to its last, one step at
\* a time.
LEMMA FoldTakesSteps ==
  ASSUME NEW A, NEW B, NEW step \in [A -> [B -> A]], NEW base \in A,
         NEW n \in Nat, NEW f \in [1..n -> B], NEW g, FoldsIn(A, g, step, base, f, n)
  PROVE  \E r : StepByStep(A, r, step, base, f, n, g[1..n])
  <1> DEFINE T == {m \in Nat : m <= n => g[1..m] \in A}
  <1>1. 1..0 = {} /\ g[1..0] = base
    BY DEF FoldsIn
  <1>2. ASSUME NEW m \in Nat, m + 1 <= n, g[1..m] \in A
        PROVE  g[1..(m + 1)] = step[g[1..m]][f[m + 1]] /\ g[1..(m + 1)] \in A
    <2>1. PICK k \in 1..n : k = m + 1
      BY <1>2
    <2>2. PICK s \in SUBSET (1..k) : s = 1..k
      OBVIOUS
    <2>3. k \in Nat /\ k \in s /\ s # {} /\ s \in SUBSET (1..n)
      <3>1. k \in Nat /\ k \in 1..k /\ \A i \in 1..k : i \in 1..n
        BY <2>1
      <3>2. QED
        BY <2>2, <3>1
    <2>4. Max(s) \in s /\ \A i \in s : Max(s) >= i
      BY <2>3, LargestNumber
    <2>5. \A i \in 1..k : i >= k => i = k
      OBVIOUS
    <2>6. Max(s) = k
      BY <2>2, <2>3, <2>4, <2>5
    <2>7. (1..k) \ {k} = 1..m
      BY SMTT(30), <2>1
    <2>8. g[s] = step[g[1..m]][f[k]]
      BY <1>2, <2>2, <2>3, <2>6, <2>7 DEF FoldsIn
    <2>9. QED
      BY <1>2, <2>1, <2>2, <2>8
  <1>3. 0 \in T
    BY <1>1
  <1>4. ASSUME NEW m \in Nat, m \in T PROVE m + 1 \in T
    <2>1. CASE m + 1 <= n
      <3>1. m <= n
        BY <2>1
      <3>2. g[1..(m + 1)] \in A
        BY <1>2, <1>4, <2>1, <3>1
      <3>3. QED
        BY <3>2
    <2>2. CASE ~ (m + 1 <= n)
      <3>1. m + 1 \in Nat
        OBVIOUS
      <3>2. QED
        BY <2>2, <3>1
    <2>3. QED
      BY <2>1, <2>2
  <1>5. Nat \subseteq T
    <2> HIDE DEF T
    <2>1. QED
      BY <1>3, <1>4, NumberInduction
  <1>6. \A m \in 0..n : g[1..m] \in A
    <2>1. \A m \in 0..n : m \in Nat /\ m <= n
      OBVIOUS
    <2>2. QED
      BY <1>5, <2>1
  <1> DEFINE r == [m \in 0..n |-> g[1..m]]
  <1>7. r \in [0..n -> A] /\ r[0] = base /\ r[n] = g[1..n]
    <2>1. 0 \in 0..n /\ n \in 0..n
      OBVIOUS
    <2>2. QED
      BY <1>1, <1>6, <2>1
  <1>8. ASSUME NEW m \in 1..n PROVE r[m] = step[r[m - 1]][f[m]]
    <2>1. PICK k \in 0..n : k = m - 1 /\ k + 1 = m /\ k \in Nat /\ k + 1 <= n /\ m \in 0..n
      OBVIOUS
    <2>2. g[1..(k + 1)] = step[g[1..k]][f[k + 1]]
      BY <1>2, <1>6, <2>1
    <2>3. r[m] = g[1..m] /\ r[k] = g[1..k] /\ r[m - 1] = r[k]
      BY <2>1
    <2>4. g[1..m] = g[1..(k + 1)] /\ f[m] = f[k + 1]
      BY <2>1
    <2>5. QED
      BY <2>2, <2>3, <2>4
  <1> HIDE DEF r
  <1>9. QED
    BY <1>7, <1>8 DEF StepByStep

\* So steps can be taken one after the other.
LEMMA StepsCanBeTaken ==
  ASSUME NEW A, NEW B, NEW step \in [A -> [B -> A]], NEW base \in A,
         NEW n \in Nat, NEW f \in [1..n -> B]
  PROVE  \E r, result : StepByStep(A, r, step, base, f, n, result)
  <1>1. PICK g \in [SUBSET (1..n) -> A] : Folded(g, step, base, f, n)
    BY StepsExist
  <1>2. FoldsIn(A, g, step, base, f, n)
    <2>1. {} \in SUBSET (1..n)
      OBVIOUS
    <2>2. \A s \in SUBSET (1..n) : g[s] = IF s = {} THEN base
                                           ELSE step[g[s \ {Max(s)}]][f[Max(s)]]
      BY <1>1 DEF Folded
    <2>3. QED
      BY <2>1, <2>2 DEF FoldsIn
  <1>3. PICK r : StepByStep(A, r, step, base, f, n, g[1..n])
    BY <1>2, FoldTakesSteps
  <1>4. QED
    BY <1>3

-----------------------------------------------------------------------------
\* FlattenSeq, over a sequence of sequences.

\* A function on 1..n is a sequence,
LEMMA FunctionIsSequence ==
  ASSUME NEW S, NEW n \in Nat, NEW f \in [1..n -> S]
  PROVE  f \in Seq(S) /\ Len(f) = n
  OBVIOUS

\* and so is a sequence with one more element.
LEMMA Appended ==
  ASSUME NEW S, NEW s \in Seq(S), NEW x \in S, NEW t, t = Append(s, x)
  PROVE  /\ t \in Seq(S) /\ t # <<>> /\ Len(t) = Len(s) + 1 /\ t[Len(s) + 1] = x
         /\ \A i \in 1..Len(s) : t[i] = s[i]
  BY AppendProperties

\* The sequences joined up to each place.
Flattens(S, h, s) ==
    /\ h \in [1..Len(s) -> Seq(S)]
    /\ \A i \in 1..Len(s) : h[i] = IF i = 1 THEN s[i] ELSE h[i - 1] \o s[i]

LEMMA FlattenExists ==
  ASSUME NEW S, NEW s \in Seq(Seq(S))
  PROVE  \E h : Flattens(S, h, s) /\ (s # <<>> => FlattenSeq(s) = h[Len(s)])
  <1> DEFINE n == Len(s)
             A == Seq(S)
             step == [a \in A |-> [b \in A |-> a \o b]]
             Value(h) == [i \in 1..n |-> IF i = 1 THEN s[i] ELSE h[i - 1] \o s[i]]
             g == CHOOSE h : h = Value(h)
  <1>1. n \in Nat /\ s \in [1..n -> A] /\ <<>> \in A /\ step \in [A -> [A -> A]]
        /\ \A a, b \in A : a \o b \in A /\ <<>> \o a = a
    OBVIOUS
  <1>2. PICK r, result : StepByStep(A, r, step, <<>>, s, n, result)
    <2> HIDE DEF n, A, step
    <2>1. QED
      BY <1>1, StepsCanBeTaken
  <1>3. \A i \in 1..n : i - 1 \in 0..n /\ i \in 0..n /\ i \in Nat
    BY <1>1
  <1>4. \A i \in 1..n : s[i] \in A /\ r[i] \in A /\ r[i - 1] \in A /\ r[i] = r[i - 1] \o s[i]
    BY <1>1, <1>2, <1>3 DEF StepByStep
  <1> DEFINE h == [i \in 1..n |-> r[i]]
  <1>5. h = Value(h)
    <2>1. ASSUME NEW i \in 1..n PROVE h[i] = IF i = 1 THEN s[i] ELSE h[i - 1] \o s[i]
      <3>1. CASE i = 1
        <4>1. r[i - 1] = <<>>
          BY <1>2, <3>1 DEF StepByStep
        <4>2. QED
          BY <1>1, <1>4, <3>1, <4>1
      <3>2. CASE i # 1
        <4>1. i - 1 \in 1..n
          BY <1>1, <3>2
        <4>2. QED
          BY <1>4, <3>2, <4>1
      <3>3. QED
        BY <3>1, <3>2
    <2>2. QED
      BY <2>1
  <1>6. g = Value(g)
    <2> HIDE DEF Value, h
    <2>1. QED
      BY <1>5
  <1> HIDE DEF g
  <1>7. \A i \in 1..n : g[i] = IF i = 1 THEN s[i] ELSE g[i - 1] \o s[i]
    BY <1>6
  <1>8. \A i \in 1..n : g[i] \in A
    <2> DEFINE T == {i \in 0..n : i # 0 => g[i] \in A}
    <2>1. 0 \in T
      BY <1>1
    <2>2. ASSUME NEW i \in 1..n, i - 1 \in T PROVE i \in T
      <3>1. i # 1 => g[i - 1] \in A
        BY <1>1, <2>2
      <3>2. g[i] \in A
        <4>1. CASE i = 1
          BY <1>4, <1>7, <4>1
        <4>2. CASE i # 1
          <5>1. g[i] = g[i - 1] \o s[i]
            BY <1>7, <4>2
          <5>2. s[i] \in A
            BY <1>4
          <5>3. QED
            BY <1>1, <3>1, <4>2, <5>1, <5>2
        <4>3. QED
          BY <4>1, <4>2
      <3>3. QED
        BY <1>3, <3>2
    <2>3. 0..n \subseteq T
      <3> HIDE DEF T, n
      <3>1. QED
        BY <1>1, <2>1, <2>2, StepInduction
    <2>4. \A i \in 1..n : i \in 0..n /\ i # 0
      BY <1>1
    <2>5. QED
      BY <2>3, <2>4
  <1>9. Flattens(S, g, s)
    <2>1. g \in [1..n -> A]
      BY <1>6, <1>8
    <2>2. QED
      BY <1>7, <2>1 DEF Flattens
  <1>10. s # <<>> => FlattenSeq(s) = g[Len(s)]
    <2>1. s # <<>> => Len(s) # 0
      OBVIOUS
    <2>2. QED
      BY <2>1 DEF FlattenSeq, g
  <1>11. QED
    BY <1>9, <1>10

\* What two sequences begin with alike is joined alike.
LEMMA FlattenAgrees ==
  ASSUME NEW S, NEW s \in Seq(Seq(S)), NEW t \in Seq(Seq(S)), NEW g, NEW h,
         Flattens(S, g, s), Flattens(S, h, t), NEW m \in 1..Len(s), m <= Len(t),
         \A i \in 1..m : s[i] = t[i]
  PROVE  g[m] = h[m]
  <1> DEFINE T == {i \in 0..m : i # 0 => g[i] = h[i]}
  <1>1. m \in Nat /\ 0 \in T
    OBVIOUS
  <1>2. ASSUME NEW i \in 1..m, i - 1 \in T PROVE i \in T
    <2>1. i \in 1..Len(s) /\ i \in 1..Len(t) /\ i \in 0..m
      OBVIOUS
    <2>2. i # 1 => g[i - 1] = h[i - 1]
      BY <1>2
    <2>3. g[i] = h[i]
      BY ZenonT(40), <2>1, <2>2 DEF Flattens
    <2>4. QED
      BY <2>1, <2>3
  <1>3. 0..m \subseteq T
    <2> HIDE DEF T
    <2>1. QED
      BY <1>1, <1>2, StepInduction
  <1>4. m \in 0..m /\ m # 0
    OBVIOUS
  <1>5. QED
    BY <1>3, <1>4

\* One more sequence at the end.
LEMMA FlattenAppend ==
  ASSUME NEW S, NEW s \in Seq(Seq(S)), NEW x \in Seq(S)
  PROVE  FlattenSeq(Append(s, x)) = FlattenSeq(s) \o x
  <1>1. PICK t : t = Append(s, x)
    OBVIOUS
  <1>2. PICK n \in Nat, m \in Nat : n = Len(s) /\ m = n + 1 /\ n = m - 1
    OBVIOUS
  <1>3. /\ t \in Seq(Seq(S)) /\ t # <<>> /\ Len(t) = m /\ t[m] = x
        /\ \A i \in 1..n : s[i] = t[i]
    BY <1>1, <1>2, AppendProperties
  <1>4. PICK h : Flattens(S, h, t) /\ FlattenSeq(t) = h[m]
    BY <1>3, FlattenExists
  <1>5. m \in 1..Len(t)
    BY <1>2, <1>3
  <1>6. h[m] = IF m = 1 THEN t[m] ELSE h[n] \o t[m]
    BY <1>2, <1>4, <1>5 DEF Flattens
  <1>7. CASE n = 0
    <2>1. h[m] = x
      BY <1>2, <1>3, <1>6, <1>7
    <2>2. s = <<>>
      BY <1>2, <1>7
    <2>3. FlattenSeq(s) = <<>>
      BY <1>2, <1>7, <2>2 DEF FlattenSeq
    <2>4. QED
      BY <1>1, <1>4, <2>1, <2>3, ConcatEmptySeq
  <1>8. CASE n # 0
    <2>1. s # <<>>
      BY <1>2, <1>8
    <2>2. PICK g : Flattens(S, g, s) /\ FlattenSeq(s) = g[n]
      BY <1>2, <2>1, FlattenExists
    <2>3. n \in 1..Len(s) /\ n <= Len(t)
      BY <1>2, <1>3, <1>8
    <2>4. g[n] = h[n]
      <3>1. t \in Seq(Seq(S)) /\ Flattens(S, h, t) /\ \A i \in 1..n : s[i] = t[i]
        BY <1>3, <1>4
      <3>2. QED
        BY <2>2, <2>3, <3>1, FlattenAgrees
    <2>5. h[m] = h[n] \o x
      <3>1. m # 1
        BY <1>2, <1>8
      <3>2. t[m] = x
        BY <1>3
      <3>3. QED
        BY <1>6, <3>1, <3>2
    <2>6. QED
      BY <1>1, <1>4, <2>2, <2>4, <2>5
  <1>9. QED
    BY <1>7, <1>8

\* Three sequences are joined alike from either side;
Joins(a, b, c) == a = b \o c

LEMMA Regroup ==
  ASSUME NEW S, NEW a \in Seq(S), NEW b \in Seq(S), NEW c \in Seq(S), NEW u, NEW v, NEW w,
         Joins(u, a, b), Joins(v, b, c), Joins(w, u, c)
  PROVE  Joins(w, a, v)
  BY ConcatAssociative DEF Joins

\* so the last one may grow as well.
LEMMA FlattenGrow ==
  ASSUME NEW S, NEW s \in Seq(Seq(S)), s # <<>>, NEW y \in Seq(S), NEW t \in Seq(Seq(S)),
         Len(t) = Len(s), \A i \in 1..(Len(s) - 1) : t[i] = s[i],
         t[Len(s)] = s[Len(s)] \o y
  PROVE  FlattenSeq(t) = FlattenSeq(s) \o y
  <1>1. PICK g : Flattens(S, g, s) /\ FlattenSeq(s) = g[Len(s)]
    BY FlattenExists
  <1>2. t # <<>>
    OBVIOUS
  <1>3. PICK h : Flattens(S, h, t) /\ FlattenSeq(t) = h[Len(s)]
    BY <1>2, FlattenExists
  <1>4. PICK n \in Nat \ {0} : n = Len(s)
    OBVIOUS
  <1>5. CASE n = 1
    <2>1. g[1] = s[1] /\ h[1] = t[1]
      BY <1>1, <1>3, <1>4, <1>5 DEF Flattens
    <2>2. QED
      BY <1>1, <1>3, <1>4, <1>5, <2>1
  <1>6. CASE n # 1
    <2>1. PICK k \in 1..n : k = n - 1
      BY <1>6
    <2>2. g[k] = h[k]
      <3>1. k \in 1..Len(s) /\ k <= Len(t) /\ \A i \in 1..k : s[i] = t[i]
        BY <1>4, <2>1
      <3>2. QED
        BY SMTT(30), <1>1, <1>3, <3>1, FlattenAgrees
    <2>3. n \in 1..Len(s) /\ n \in 1..Len(t) /\ n - 1 = k /\ k \in 1..Len(s)
      BY <1>4, <2>1
    <2>4. g[n] = g[k] \o s[n] /\ h[n] = h[k] \o t[n] /\ g[k] \in Seq(S)
      BY <1>1, <1>3, <1>6, <2>3 DEF Flattens
    <2>5. s[n] \in Seq(S) /\ t[n] = s[n] \o y
      BY <1>4, <2>3
    <2>6. g[n] \o y = g[k] \o t[n]
      <3>1. PICK w : Joins(w, g[n], y)
        BY DEF Joins
      <3>2. Joins(g[n], g[k], s[n]) /\ Joins(t[n], s[n], y)
        BY <2>4, <2>5 DEF Joins
      <3>3. Joins(w, g[k], t[n])
        BY <2>4, <2>5, <3>1, <3>2, Regroup
      <3>4. QED
        BY <3>1, <3>3 DEF Joins
    <2>7. QED
      BY <1>1, <1>3, <1>4, <2>2, <2>4, <2>6
  <1>7. QED
    BY <1>5, <1>6
=============================================================================
