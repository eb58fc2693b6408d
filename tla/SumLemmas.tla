----------------------------- MODULE SumLemmas -----------------------------
(***************************************************************************)
(* Facts about the sums of the community module Functions, which the       *)
(* counters and loads of the reporter are: SumFunctionOnSet(f, S) for a    *)
(* finite set S.  The folds recur on an element that CHOOSE picks; here    *)
(* they are shown to exist, and not to depend on which element it picks.   *)
(*                                                                         *)
(* Each induction is on the subsets of a finite set: if some were bad, one *)
(* of them would be, and none of its proper subsets (SmallestBad).         *)
(***************************************************************************)
EXTENDS Integers, Functions, FiniteSets, FiniteSetTheorems, WellFoundedInduction, TLAPS

\* A family of subsets of a finite set has a least one, in inclusion.
LEMMA SmallestBad ==
  ASSUME NEW S, IsFiniteSet(S), NEW Bad, Bad \subseteq SUBSET S, Bad # {}
  PROVE  \E s \in Bad : IsFiniteSet(s) /\ \A t \in SUBSET s : t # s => t \notin Bad
<1>1. IsWellFoundedOn(StrictSubsetOrdering(S), SUBSET S)
  BY FS_StrictSubsetOrderingWellFounded, FS_FiniteSubsetsOfFinite
<1>2. PICK s \in Bad : \A t \in Bad : ~ (<<t, s>> \in StrictSubsetOrdering(S))
  BY <1>1, WFMin
<1>3. \A t \in Bad : t \subseteq s => t = s
  BY <1>2 DEF StrictSubsetOrdering
<1>4. IsFiniteSet(s)
  BY FS_Subset
<1>5. QED
  BY <1>3, <1>4

-----------------------------------------------------------------------------
(***************************************************************************)
(* The function the fold is the value of.                                  *)
(***************************************************************************)
Pick(s) == CHOOSE x \in s : TRUE

\* g has the sums of f over the sets of sets.
IsSums(g, f, sets) ==
  g = [s \in sets |-> IF s = {} THEN 0 ELSE f[Pick(s)] + g[s \ {Pick(s)}]]

LEMMA SumIsChosen ==
  ASSUME NEW f, NEW S
  PROVE  SumFunctionOnSet(f, S) = (CHOOSE g : IsSums(g, f, SUBSET S))[S]
BY DEF SumFunctionOnSet, FoldFunctionOnSet, MapThenFoldSet, IsSums, Pick

Upto(S, n) == {s \in SUBSET S : Cardinality(s) <= n}

\* The sums of all subsets of a finite set exist: they do of those of up to n
\* elements, for every n.
LEMMA SumsExist ==
  ASSUME NEW f, NEW S, IsFiniteSet(S)
  PROVE  \E g : IsSums(g, f, SUBSET S)
<1> DEFINE Bad == {n \in Nat : ~ \E g : IsSums(g, f, Upto(S, n))}
<1>1. Bad = {}
  <2> SUFFICES ASSUME Bad # {} PROVE FALSE
    OBVIOUS
  <2>1. PICK n \in Bad : \A m \in Bad : ~ (m < n)
    <3>1. PICK n \in Bad : \A m \in Bad : ~ (<<m, n>> \in OpToRel(<, Nat))
      BY NatLessThanWellFounded, WFMin
    <3>2. QED
      BY <3>1 DEF OpToRel
  <2>2. CASE n = 0
    <3> DEFINE g == [s \in Upto(S, 0) |-> 0]
    <3>1. \A s \in Upto(S, 0) : s = {}
      BY FS_EmptySet, FS_Subset, FS_CardinalityType DEF Upto
    <3>2. IsSums(g, f, Upto(S, 0))
      BY <3>1 DEF IsSums
    <3>3. QED
      BY <2>2, <3>2
  <2>3. CASE n # 0
    <3>1. n - 1 \in Nat /\ n - 1 \notin Bad
      BY <2>1, <2>3
    <3>2. PICK g : IsSums(g, f, Upto(S, n - 1))
      BY <3>1
    <3> DEFINE h == [s \in Upto(S, n) |-> IF s = {} THEN 0 ELSE f[Pick(s)] + g[s \ {Pick(s)}]]
    <3>3. ASSUME NEW s \in Upto(S, n), s # {}
          PROVE  s \ {Pick(s)} \in Upto(S, n - 1)
      <4>1. Pick(s) \in s /\ IsFiniteSet(s) /\ Cardinality(s) <= n
        BY <3>3, FS_Subset DEF Upto, Pick
      <4>2. Cardinality(s \ {Pick(s)}) = Cardinality(s) - 1 /\ Cardinality(s) \in Nat
        BY <4>1, FS_RemoveElement, FS_CardinalityType
      <4>3. QED
        BY <4>1, <4>2 DEF Upto
    <3>4. ASSUME NEW s \in Upto(S, n - 1) PROVE s \in Upto(S, n) /\ h[s] = g[s]
      <4>1. Cardinality(s) \in Nat
        BY FS_Subset, FS_CardinalityType DEF Upto
      <4>2. s \in Upto(S, n)
        BY <4>1 DEF Upto
      <4>3. g[s] = IF s = {} THEN 0 ELSE f[Pick(s)] + g[s \ {Pick(s)}]
        BY <3>2 DEF IsSums
      <4>4. QED
        BY <4>2, <4>3
    <3>5. \A s \in Upto(S, n) : s # {} => h[s \ {Pick(s)}] = g[s \ {Pick(s)}]
      BY <3>3, <3>4
    <3>6. h = [s \in Upto(S, n) |-> IF s = {} THEN 0 ELSE f[Pick(s)] + h[s \ {Pick(s)}]]
      BY <3>5
    <3>7. QED
      BY <3>6 DEF IsSums
  <2>4. QED
    BY <2>2, <2>3
<1>2. Upto(S, Cardinality(S)) = SUBSET S /\ Cardinality(S) \in Nat
  BY FS_Subset, FS_CardinalityType DEF Upto
<1>3. \A n \in Nat : \E g : IsSums(g, f, Upto(S, n))
  BY <1>1
<1> HIDE DEF Bad
<1>4. QED
  BY <1>2, <1>3

-----------------------------------------------------------------------------
(***************************************************************************)
(* The sums of integers.                                                   *)
(***************************************************************************)
IntsOn(f, S) == \A x \in S : f[x] \in Int
NatsOn(f, S) == \A x \in S : f[x] \in Nat

LEMMA SumsStep ==
  ASSUME NEW f, NEW S, NEW g, IsSums(g, f, SUBSET S)
  PROVE  /\ g[{}] = 0
         /\ \A s \in SUBSET S : s # {} => /\ Pick(s) \in s
                                          /\ g[s] = f[Pick(s)] + g[s \ {Pick(s)}]
<1>1. \A s \in SUBSET S : g[s] = IF s = {} THEN 0 ELSE f[Pick(s)] + g[s \ {Pick(s)}]
  BY DEF IsSums
<1>2. QED
  BY <1>1 DEF Pick

LEMMA SumsType ==
  ASSUME NEW f, NEW S, IsFiniteSet(S), IntsOn(f, S),
         NEW g, IsSums(g, f, SUBSET S)
  PROVE  \A s \in SUBSET S : g[s] \in Int
<1> DEFINE Bad == {s \in SUBSET S : g[s] \notin Int}
<1> SUFFICES ASSUME Bad # {} PROVE FALSE
  OBVIOUS
<1>1. PICK s \in Bad : \A t \in SUBSET s : t # s => t \notin Bad
  <2>1. Bad \subseteq SUBSET S
    OBVIOUS
  <2> HIDE DEF Bad
  <2>2. QED
    BY <2>1, SmallestBad
<1>2. s # {} /\ Pick(s) \in s /\ g[s] = f[Pick(s)] + g[s \ {Pick(s)}]
  <2>1. s \in SUBSET S /\ g[s] \notin Int
    OBVIOUS
  <2>2. g[{}] \in Int
    <3>1. g[{}] = 0
      BY SumsStep
    <3>2. QED
      BY <3>1
  <2>3. s # {}
    BY <2>1, <2>2
  <2> HIDE DEF Bad
  <2>4. QED
    BY <2>1, <2>3, SumsStep
<1>3. g[s \ {Pick(s)}] \in Int /\ f[Pick(s)] \in Int
  BY <1>1, <1>2 DEF IntsOn
<1>4. QED
  BY <1>2, <1>3

\* Any element may be taken out first, not only the one that is picked.
LEMMA SumsRemove ==
  ASSUME NEW f, NEW S, IsFiniteSet(S), IntsOn(f, S),
         NEW g, IsSums(g, f, SUBSET S)
  PROVE  \A s \in SUBSET S : \A x \in s : g[s] = f[x] + g[s \ {x}]
<1> DEFINE Bad == {s \in SUBSET S : \E x \in s : g[s] # f[x] + g[s \ {x}]}
<1> SUFFICES ASSUME Bad # {} PROVE FALSE
  OBVIOUS
<1>1. PICK s \in Bad : \A t \in SUBSET s : t # s => t \notin Bad
  <2>1. Bad \subseteq SUBSET S
    OBVIOUS
  <2> HIDE DEF Bad
  <2>2. QED
    BY <2>1, SmallestBad
<1>2. PICK x \in s : g[s] # f[x] + g[s \ {x}]
  OBVIOUS
<1> DEFINE y == Pick(s)
<1>3. y \in s /\ g[s] = f[y] + g[s \ {y}]
  BY SumsStep
<1> HIDE DEF y
<1>4. x # y
  BY <1>2, <1>3
<1>5. s \ {y} \in SUBSET S /\ s \ {y} \notin Bad /\ x \in s \ {y}
  BY <1>1, <1>3, <1>4
<1>6. s \ {x} \in SUBSET S /\ s \ {x} \notin Bad /\ y \in s \ {x}
  BY <1>1, <1>3, <1>4
<1>7. g[s \ {y}] = f[x] + g[(s \ {y}) \ {x}] /\ g[s \ {x}] = f[y] + g[(s \ {x}) \ {y}]
  BY <1>5, <1>6
<1>8. (s \ {y}) \ {x} = (s \ {x}) \ {y}
  OBVIOUS
<1>9. f[x] \in Int /\ f[y] \in Int /\ g[(s \ {x}) \ {y}] \in Int
  BY <1>3, SumsType DEF IntsOn
<1>10. g[s] = f[y] + (f[x] + g[(s \ {x}) \ {y}]) /\ g[s] # f[x] + (f[y] + g[(s \ {x}) \ {y}])
  BY <1>2, <1>3, <1>7, <1>8
<1>11. QED
  BY <1>9, <1>10

\* They are the sums of the smaller sets that the fold gives.
LEMMA SumsAgree ==
  ASSUME NEW f, NEW S, IsFiniteSet(S), NEW T \in SUBSET S,
         NEW g, IsSums(g, f, SUBSET S), NEW h, IsSums(h, f, SUBSET T)
  PROVE  h[T] = g[T]
<1> DEFINE Bad == {s \in SUBSET T : h[s] # g[s]}
<1> SUFFICES ASSUME Bad # {} PROVE FALSE
  OBVIOUS
<1>0. IsFiniteSet(T)
  BY FS_Subset
<1>1. PICK s \in Bad : \A t \in SUBSET s : t # s => t \notin Bad
  <2>1. Bad \subseteq SUBSET T
    OBVIOUS
  <2> HIDE DEF Bad
  <2>2. QED
    BY <2>1, <1>0, SmallestBad
<1>2. s # {} /\ Pick(s) \in s
  BY SumsStep
<1>3. h[s] = f[Pick(s)] + h[s \ {Pick(s)}] /\ g[s] = f[Pick(s)] + g[s \ {Pick(s)}]
  <2>1. s \in SUBSET T /\ s \in SUBSET S
    OBVIOUS
  <2> HIDE DEF Bad
  <2>2. QED
    BY <1>2, <2>1, SumsStep
<1>4. h[s \ {Pick(s)}] = g[s \ {Pick(s)}]
  BY <1>1, <1>2
<1>5. QED
  BY <1>3, <1>4

-----------------------------------------------------------------------------
(***************************************************************************)
(* What the models need: the empty sum, its type, one term taken out, two  *)
(* functions that agree, one term changed, and sums of natural numbers.    *)
(***************************************************************************)
LEMMA SumIsSums ==
  ASSUME NEW f, NEW S, IsFiniteSet(S)
  PROVE  \E g : IsSums(g, f, SUBSET S) /\ SumFunctionOnSet(f, S) = g[S]
<1> DEFINE g == CHOOSE h : IsSums(h, f, SUBSET S)
<1>1. IsSums(g, f, SUBSET S)
  BY SumsExist
<1>2. SumFunctionOnSet(f, S) = g[S]
  BY SumIsChosen
<1> HIDE DEF g
<1>3. QED
  BY <1>1, <1>2

\* A loop without simulators has sent nothing.
THEOREM SumEmpty == \A f : SumFunctionOnSet(f, {}) = 0
<1> TAKE f
<1>1. IsFiniteSet({})
  BY FS_EmptySet
<1>2. PICK g : IsSums(g, f, SUBSET {}) /\ SumFunctionOnSet(f, {}) = g[{}]
  BY <1>1, SumIsSums
<1>3. QED
  BY <1>2, SumsStep

\* Counters and loads add up to an integer.
THEOREM SumType ==
  ASSUME NEW f, NEW S, IsFiniteSet(S), IntsOn(f, S)
  PROVE  SumFunctionOnSet(f, S) \in Int
<1>1. PICK g : IsSums(g, f, SUBSET S) /\ SumFunctionOnSet(f, S) = g[S]
  BY SumIsSums
<1>2. QED
  BY <1>1, SumsType

\* A sum is one term, of whichever element, and the sum of the others: the total of
\* a batch does not depend on the order in which simulators are counted.
THEOREM SumRemove ==
  ASSUME NEW f, NEW S, IsFiniteSet(S), IntsOn(f, S), NEW x \in S
  PROVE  SumFunctionOnSet(f, S) = f[x] + SumFunctionOnSet(f, S \ {x})
<1>1. PICK g : IsSums(g, f, SUBSET S) /\ SumFunctionOnSet(f, S) = g[S]
  BY SumIsSums
<1>2. IsFiniteSet(S \ {x})
  BY FS_RemoveElement
<1>3. PICK h : /\ IsSums(h, f, SUBSET (S \ {x}))
               /\ SumFunctionOnSet(f, S \ {x}) = h[S \ {x}]
  BY <1>2, SumIsSums
<1>4. h[S \ {x}] = g[S \ {x}]
  <2> DEFINE T == S \ {x}
  <2>1. T \in SUBSET S /\ IsSums(h, f, SUBSET T) /\ IsSums(g, f, SUBSET S)
    BY <1>1, <1>3
  <2> HIDE DEF T
  <2>2. h[T] = g[T]
    BY <2>1, SumsAgree
  <2>3. QED
    BY <2>2 DEF T
<1>5. g[S] = f[x] + g[S \ {x}]
  BY <1>1, SumsRemove
<1>6. QED
  BY <1>1, <1>3, <1>4, <1>5

\* Sums compare as their terms do.
THEOREM SumMonotone ==
  ASSUME NEW f, NEW h, NEW S, IsFiniteSet(S), IntsOn(f, S), IntsOn(h, S),
         \A x \in S : f[x] <= h[x]
  PROVE  SumFunctionOnSet(f, S) <= SumFunctionOnSet(h, S)
<1> DEFINE Bad == {s \in SUBSET S : ~ SumFunctionOnSet(f, s) <= SumFunctionOnSet(h, s)}
<1>1. Bad = {}
  <2> SUFFICES ASSUME Bad # {} PROVE FALSE
    OBVIOUS
  <2>1. PICK s \in Bad : IsFiniteSet(s) /\ \A t \in SUBSET s : t # s => t \notin Bad
    <3>1. Bad \subseteq SUBSET S
      OBVIOUS
    <3> HIDE DEF Bad
    <3>2. QED
      BY <3>1, SmallestBad
  <2>2. s # {}
    BY SumEmpty
  <2>3. PICK x \in s : TRUE
    BY <2>2
  <2>4. IntsOn(f, s) /\ IntsOn(h, s) /\ IntsOn(f, s \ {x}) /\ IntsOn(h, s \ {x})
        /\ IsFiniteSet(s \ {x})
    BY <2>1, FS_RemoveElement DEF IntsOn
  <2>5. /\ SumFunctionOnSet(f, s) = f[x] + SumFunctionOnSet(f, s \ {x})
        /\ SumFunctionOnSet(h, s) = h[x] + SumFunctionOnSet(h, s \ {x})
    BY <2>1, <2>3, <2>4, SumRemove
  <2>6. SumFunctionOnSet(f, s \ {x}) <= SumFunctionOnSet(h, s \ {x})
    BY <2>1, <2>3
  <2>7. SumFunctionOnSet(f, s \ {x}) \in Int /\ SumFunctionOnSet(h, s \ {x}) \in Int
    BY <2>4, SumType
  <2>8. f[x] \in Int /\ h[x] \in Int /\ f[x] <= h[x]
    BY DEF IntsOn
  <2>9. ~ SumFunctionOnSet(f, s) <= SumFunctionOnSet(h, s)
    OBVIOUS
  <2> HIDE DEF Bad
  <2>10. QED
    BY <2>5, <2>6, <2>7, <2>8, <2>9
<1>2. S \notin Bad
  BY <1>1
<1>3. QED
  BY <1>2

\* What a step leaves alone for every member, such as the loads of the active loops,
\* it leaves alone in sum.
THEOREM SumSame ==
  ASSUME NEW f, NEW h, NEW S, IsFiniteSet(S), IntsOn(f, S), \A x \in S : h[x] = f[x]
  PROVE  SumFunctionOnSet(h, S) = SumFunctionOnSet(f, S)
<1>1. IntsOn(h, S) /\ \A x \in S : f[x] <= h[x] /\ h[x] <= f[x]
  BY DEF IntsOn
<1>2. SumFunctionOnSet(h, S) <= SumFunctionOnSet(f, S)
      /\ SumFunctionOnSet(f, S) <= SumFunctionOnSet(h, S)
  BY <1>1, SumMonotone
<1>3. SumFunctionOnSet(h, S) \in Int /\ SumFunctionOnSet(f, S) \in Int
  BY <1>1, SumType
<1>4. QED
  BY <1>2, <1>3

\* A step of one member, such as a simulator whose message was confirmed, changes the
\* sum by what it changes there.
THEOREM SumUpdate ==
  ASSUME NEW f, NEW h, NEW S, IsFiniteSet(S), IntsOn(f, S), NEW x \in S, h[x] \in Int,
         \A y \in S \ {x} : h[y] = f[y]
  PROVE  SumFunctionOnSet(h, S) = SumFunctionOnSet(f, S) - f[x] + h[x]
<1>1. IntsOn(h, S) /\ IntsOn(f, S \ {x}) /\ IsFiniteSet(S \ {x})
  BY FS_RemoveElement DEF IntsOn
<1>2. SumFunctionOnSet(h, S \ {x}) = SumFunctionOnSet(f, S \ {x})
  BY <1>1, SumSame
<1>3. /\ SumFunctionOnSet(f, S) = f[x] + SumFunctionOnSet(f, S \ {x})
      /\ SumFunctionOnSet(h, S) = h[x] + SumFunctionOnSet(h, S \ {x})
  BY <1>1, SumRemove
<1>4. SumFunctionOnSet(f, S \ {x}) \in Int /\ f[x] \in Int
  BY <1>1, SumType DEF IntsOn
<1>5. QED
  BY <1>2, <1>3, <1>4

\* A sum of counters is a counter, and none of them exceeds it.
THEOREM SumOfNats ==
  ASSUME NEW f, NEW S, IsFiniteSet(S), NatsOn(f, S)
  PROVE  /\ SumFunctionOnSet(f, S) \in Nat
         /\ \A x \in S : f[x] <= SumFunctionOnSet(f, S)
<1> DEFINE Bad == {s \in SUBSET S : SumFunctionOnSet(f, s) \notin Nat}
<1>1. Bad = {}
  <2> SUFFICES ASSUME Bad # {} PROVE FALSE
    OBVIOUS
  <2>1. PICK s \in Bad : IsFiniteSet(s) /\ \A t \in SUBSET s : t # s => t \notin Bad
    <3>1. Bad \subseteq SUBSET S
      OBVIOUS
    <3> HIDE DEF Bad
    <3>2. QED
      BY <3>1, SmallestBad
  <2>2. s # {}
    BY SumEmpty
  <2>3. PICK x \in s : TRUE
    BY <2>2
  <2>4. IntsOn(f, s) /\ f[x] \in Nat
    BY DEF IntsOn, NatsOn
  <2>5. SumFunctionOnSet(f, s) = f[x] + SumFunctionOnSet(f, s \ {x})
    BY <2>1, <2>3, <2>4, SumRemove
  <2>6. SumFunctionOnSet(f, s \ {x}) \in Nat
    BY <2>1, <2>3
  <2>7. SumFunctionOnSet(f, s) \notin Nat
    OBVIOUS
  <2> HIDE DEF Bad
  <2>8. QED
    BY <2>4, <2>5, <2>6, <2>7
<1>2. \A s \in SUBSET S : SumFunctionOnSet(f, s) \in Nat
  BY <1>1
<1> HIDE DEF Bad
<1>3. ASSUME NEW x \in S PROVE f[x] <= SumFunctionOnSet(f, S)
  <2>1. IntsOn(f, S) /\ f[x] \in Nat
    BY DEF IntsOn, NatsOn
  <2>2. SumFunctionOnSet(f, S) = f[x] + SumFunctionOnSet(f, S \ {x})
    BY <2>1, SumRemove
  <2>3. SumFunctionOnSet(f, S \ {x}) \in Nat
    BY <1>2
  <2>4. QED
    BY <2>1, <2>2, <2>3
<1>4. QED
  BY <1>2, <1>3

\* A batch in which no simulator has sent has counted nothing.
THEOREM SumOfZeros ==
  ASSUME NEW f, NEW S, IsFiniteSet(S), \A x \in S : f[x] = 0
  PROVE  SumFunctionOnSet(f, S) = 0
<1>1. IntsOn(f, S)
  BY DEF IntsOn
<1> DEFINE Bad == {s \in SUBSET S : SumFunctionOnSet(f, s) # 0}
<1>2. Bad = {}
  <2> SUFFICES ASSUME Bad # {} PROVE FALSE
    OBVIOUS
  <2>1. PICK s \in Bad : IsFiniteSet(s) /\ \A t \in SUBSET s : t # s => t \notin Bad
    <3>1. Bad \subseteq SUBSET S
      OBVIOUS
    <3> HIDE DEF Bad
    <3>2. QED
      BY <3>1, SmallestBad
  <2>2. s # {}
    BY SumEmpty
  <2>3. PICK x \in s : TRUE
    BY <2>2
  <2>4. IntsOn(f, s) /\ f[x] = 0
    BY <1>1 DEF IntsOn
  <2>5. SumFunctionOnSet(f, s) = f[x] + SumFunctionOnSet(f, s \ {x})
    BY <2>1, <2>3, <2>4, SumRemove
  <2>6. SumFunctionOnSet(f, s \ {x}) = 0
    BY <2>1, <2>3
  <2>7. QED
    BY <2>4, <2>5, <2>6
<1>3. QED
  BY <1>2

\* What is at most n for each simulator is at most n times their number for all.
THEOREM SumBounded ==
  ASSUME NEW f, NEW S, IsFiniteSet(S), IntsOn(f, S), NEW n \in Nat, \A x \in S : f[x] <= n
  PROVE  SumFunctionOnSet(f, S) <= Cardinality(S) * n
<1> DEFINE Bad == {s \in SUBSET S : ~ SumFunctionOnSet(f, s) <= Cardinality(s) * n}
<1>1. Bad = {}
  <2> SUFFICES ASSUME Bad # {} PROVE FALSE
    OBVIOUS
  <2>1. PICK s \in Bad : IsFiniteSet(s) /\ \A t \in SUBSET s : t # s => t \notin Bad
    <3>1. Bad \subseteq SUBSET S
      OBVIOUS
    <3> HIDE DEF Bad
    <3>2. QED
      BY <3>1, SmallestBad
  <2>2. s # {}
    BY SumEmpty, FS_EmptySet
  <2>3. PICK x \in s : TRUE
    BY <2>2
  <2> DEFINE t == s \ {x}
  <2>4. IntsOn(f, s) /\ IntsOn(f, t) /\ f[x] \in Int /\ f[x] <= n
    BY DEF IntsOn
  <2>5. IsFiniteSet(t) /\ Cardinality(t) = Cardinality(s) - 1 /\ Cardinality(s) \in Nat
        /\ Cardinality(t) \in Nat
    BY <2>1, <2>3, FS_RemoveElement, FS_CardinalityType
  <2>6. SumFunctionOnSet(f, s) = f[x] + SumFunctionOnSet(f, t)
    BY <2>1, <2>3, <2>4, SumRemove
  <2>7. SumFunctionOnSet(f, t) <= Cardinality(t) * n
    BY <2>1, <2>3
  <2>8. SumFunctionOnSet(f, t) \in Int
    BY <2>4, <2>5, SumType
  <2>9. Cardinality(s) * n = Cardinality(t) * n + n
    BY <2>5
  <2>10. Cardinality(t) * n \in Int
    BY <2>5
  <2>11. ~ SumFunctionOnSet(f, s) <= Cardinality(s) * n
    OBVIOUS
  <2> HIDE DEF t, Bad
  <2>12. QED
    BY <2>4, <2>6, <2>7, <2>8, <2>9, <2>10, <2>11
<1>2. QED
  BY <1>1
=============================================================================
