-------------------------------- MODULE SumProofs --------------------------------
(***************************************************************************)
(* What the sums of a function's values over a finite set are, for the     *)
(* components that count: pages, cells, ticks and gaps.                    *)
(*                                                                         *)
(* SumFunctionOnSet takes its elements one by one in an order of its own.  *)
(* That there is such a recursive function, and that the order does not    *)
(* matter, is shown by induction on how many there are: the sets of        *)
(* numbers for which a fact holds stand for the facts.                     *)
(***************************************************************************)
EXTENDS FiniteSetsExt, FiniteSetTheorems, TLAPS

\* Induction, as a fact about a set of numbers.
LEMMA NumbersByInduction ==
  ASSUME NEW I, 0 \in I, \A n \in Nat : n \in I => n + 1 \in I
  PROVE  Nat \subseteq I
<1> DEFINE T == Nat \ I
<1>1. SUFFICES ASSUME T # {} PROVE FALSE
  OBVIOUS
<1>2. PICK n \in T : \A m \in T : <<m, n>> \notin OpToRel(<, Nat)
  BY <1>1, NatLessThanWellFounded, WFMin
<1>3. n \in Nat /\ n # 0
  OBVIOUS
<1>4. n - 1 \in Nat /\ n - 1 < n /\ n = (n - 1) + 1
  BY <1>3
<1>5. n - 1 \notin T
  BY <1>2, <1>4 DEF OpToRel
<1> QED
  BY <1>4, <1>5

\* The element taken first, and the recursion the sum is of.
First(s) == CHOOSE x \in s : TRUE

SumWith(f, it, s) == IF s = {} THEN 0 ELSE f[First(s)] + it[s \ {First(s)}]

Summing(f, S) == CHOOSE it : it = [s \in SUBSET S |-> SumWith(f, it, s)]

\* The library's sum is this recursion.
LEMMA SumIsRecursion == ASSUME NEW f, NEW S PROVE SumFunctionOnSet(f, S) = Summing(f, S)[S]
BY DEF SumFunctionOnSet, FoldFunctionOnSet, MapThenFoldSet, Summing, SumWith, First

\* The subsets of S of at most n elements.
UpTo(S, n) == {s \in SUBSET S : Cardinality(s) <= n}

\* A subset loses one element to the step.
LEMMA Smaller ==
  ASSUME NEW S, IsFiniteSet(S), NEW s \in SUBSET S, s # {}
  PROVE  /\ First(s) \in s /\ s \ {First(s)} \in SUBSET S
         /\ Cardinality(s) \in Nat /\ Cardinality(s \ {First(s)}) = Cardinality(s) - 1
<1>1. First(s) \in s
  BY DEF First
<1>2. IsFiniteSet(s)
  BY FS_Subset
<1> QED
  BY <1>1, <1>2, FS_RemoveElement, FS_CardinalityType

\* There is a function that sums as the step does.
LEMMA SummingSteps ==
  ASSUME NEW f, NEW S, IsFiniteSet(S)
  PROVE  \A s \in SUBSET S : Summing(f, S)[s] = SumWith(f, Summing(f, S), s)
<1> DEFINE I == {n \in Nat : \E it : it = [s \in UpTo(S, n) |-> SumWith(f, it, s)]}
<1>1. 0 \in I
  <2> DEFINE it == [s \in UpTo(S, 0) |-> 0]
  <2>1. \A s \in UpTo(S, 0) : s = {}
    BY FS_Subset, FS_EmptySet, FS_CardinalityType DEF UpTo
  <2>2. \A s \in UpTo(S, 0) : it[s] = SumWith(f, it, s)
    BY <2>1 DEF SumWith
  <2>3. it = [s \in UpTo(S, 0) |-> SumWith(f, it, s)]
    BY <2>2
  <2> QED
    BY <2>3
<1>2. ASSUME NEW n \in Nat, n \in I PROVE n + 1 \in I
  <2>1. PICK it : it = [s \in UpTo(S, n) |-> SumWith(f, it, s)]
    BY <1>2
  <2> DEFINE more == [s \in UpTo(S, n + 1) |-> SumWith(f, it, s)]
  <2>2. ASSUME NEW s \in UpTo(S, n + 1) PROVE more[s] = SumWith(f, more, s)
    <3>1. CASE s = {}
      BY <3>1 DEF SumWith
    <3>2. CASE s # {}
      <4> DEFINE rest == s \ {First(s)}
      <4>1. rest \in UpTo(S, n) /\ rest \in UpTo(S, n + 1)
        <5>1. s \in SUBSET S /\ Cardinality(s) <= n + 1
          BY DEF UpTo
        <5>2. rest \in SUBSET S /\ Cardinality(s) \in Nat /\ Cardinality(rest) = Cardinality(s) - 1
          BY <3>2, <5>1, Smaller
        <5> QED
          BY <5>1, <5>2 DEF UpTo
      <4> HIDE DEF rest
      <4>2. it[rest] = SumWith(f, it, rest)
        BY <2>1, <4>1
      <4>3. more[rest] = SumWith(f, it, rest)
        BY <4>1
      <4>4. more[s] = f[First(s)] + it[rest]
        BY <3>2 DEF SumWith, rest
      <4>5. SumWith(f, more, s) = f[First(s)] + more[rest]
        BY <3>2 DEF SumWith, rest
      <4> QED
        BY <4>2, <4>3, <4>4, <4>5
    <3> QED
      BY <3>1, <3>2
  <2>3. more = [s \in UpTo(S, n + 1) |-> SumWith(f, more, s)]
    BY <2>2
  <2> HIDE DEF more
  <2>4. n + 1 \in Nat
    OBVIOUS
  <2> QED
    BY <2>3, <2>4
<1>3. Cardinality(S) \in I
  <2> HIDE DEF I
  <2> QED
    BY <1>1, <1>2, NumbersByInduction, FS_CardinalityType
<1>4. UpTo(S, Cardinality(S)) = SUBSET S
  BY FS_Subset DEF UpTo
<1>5. \E it : it = [s \in SUBSET S |-> SumWith(f, it, s)]
  BY <1>3, <1>4
<1> DEFINE sums == Summing(f, S)
<1>6. sums = [s \in SUBSET S |-> SumWith(f, sums, s)]
  BY <1>5 DEF Summing
<1> HIDE DEF sums
<1>7. \A s \in SUBSET S : sums[s] = SumWith(f, sums, s)
  BY <1>6
<1> QED
  BY <1>7 DEF sums

\* The function over a subset is the function over the whole, there.
LEMMA SummingAgrees ==
  ASSUME NEW f, NEW S, IsFiniteSet(S), NEW T \in SUBSET S
  PROVE  \A s \in SUBSET T : Summing(f, S)[s] = Summing(f, T)[s]
<1> DEFINE I == {n \in Nat : \A s \in UpTo(T, n) : Summing(f, S)[s] = Summing(f, T)[s]}
<1>1. IsFiniteSet(T)
  BY FS_Subset
<1>2. /\ \A s \in SUBSET S : Summing(f, S)[s] = SumWith(f, Summing(f, S), s)
      /\ \A s \in SUBSET T : Summing(f, T)[s] = SumWith(f, Summing(f, T), s)
  BY <1>1, SummingSteps
<1>3. 0 \in I
  <2>1. \A s \in UpTo(T, 0) : s = {} /\ s \in SUBSET S
    BY <1>1, FS_Subset, FS_EmptySet, FS_CardinalityType DEF UpTo
  <2>2. {} \in SUBSET S /\ {} \in SUBSET T
    OBVIOUS
  <2>3. Summing(f, S)[{}] = 0 /\ Summing(f, T)[{}] = 0
    BY <1>2, <2>2 DEF SumWith
  <2> QED
    BY <2>1, <2>3
<1>4. ASSUME NEW n \in Nat, n \in I PROVE n + 1 \in I
  <2>1. ASSUME NEW s \in UpTo(T, n + 1) PROVE Summing(f, S)[s] = Summing(f, T)[s]
    <3>1. s \in SUBSET T /\ s \in SUBSET S /\ Cardinality(s) <= n + 1
      BY DEF UpTo
    <3>2. CASE s = {}
      BY <1>2, <3>1, <3>2 DEF SumWith
    <3>3. CASE s # {}
      <4> DEFINE rest == s \ {First(s)}
      <4>1. rest \in SUBSET T /\ Cardinality(s) \in Nat /\ Cardinality(rest) = Cardinality(s) - 1
        BY <1>1, <3>1, <3>3, Smaller
      <4>2. rest \in UpTo(T, n)
        BY <3>1, <4>1 DEF UpTo
      <4>3. Summing(f, S)[rest] = Summing(f, T)[rest]
        BY <1>4, <4>2
      <4>4. Summing(f, S)[s] = f[First(s)] + Summing(f, S)[rest]
        BY <1>2, <3>1, <3>3 DEF SumWith
      <4>5. Summing(f, T)[s] = f[First(s)] + Summing(f, T)[rest]
        BY <1>2, <3>1, <3>3 DEF SumWith
      <4> QED
        BY <4>3, <4>4, <4>5
    <3> QED
      BY <3>2, <3>3
  <2>2. n + 1 \in Nat
    OBVIOUS
  <2> QED
    BY <2>1, <2>2
<1>5. Cardinality(T) \in I
  <2> HIDE DEF I
  <2> QED
    BY <1>1, <1>3, <1>4, NumbersByInduction, FS_CardinalityType
<1>6. UpTo(T, Cardinality(T)) = SUBSET T
  BY <1>1, FS_Subset DEF UpTo
<1> QED
  BY <1>5, <1>6

\* One element, and the sum of the rest.
LEMMA SumStep ==
  ASSUME NEW f, NEW S, IsFiniteSet(S)
  PROVE  SumFunctionOnSet(f, S) =
           IF S = {} THEN 0 ELSE f[First(S)] + SumFunctionOnSet(f, S \ {First(S)})
<1>1. SumFunctionOnSet(f, S) = SumWith(f, Summing(f, S), S)
  <2>1. S \in SUBSET S /\ Summing(f, S)[S] = SumWith(f, Summing(f, S), S)
    BY SummingSteps
  <2> QED
    BY <2>1, SumIsRecursion
<1>2. CASE S # {}
  <2> DEFINE rest == S \ {First(S)}
  <2>1. rest \in SUBSET S /\ rest \in SUBSET rest
    OBVIOUS
  <2>2. Summing(f, S)[rest] = Summing(f, rest)[rest]
    BY <2>1, SummingAgrees
  <2>3. Summing(f, rest)[rest] = SumFunctionOnSet(f, rest)
    BY SumIsRecursion
  <2> QED
    BY <1>1, <1>2, <2>2, <2>3 DEF SumWith
<1> QED
  BY <1>1, <1>2 DEF SumWith

--------------------------------------------------------------------------------
(* Sums of naturals *)

\* The sum of nothing.
LEMMA SumOfNone == ASSUME NEW f PROVE SumFunctionOnSet(f, {}) = 0
BY SumStep, FS_EmptySet

\* A sum of naturals is one.
LEMMA SumType ==
  ASSUME NEW f, NEW S, IsFiniteSet(S), \A x \in S : f[x] \in Nat
  PROVE  SumFunctionOnSet(f, S) \in Nat
<1> DEFINE I == {n \in Nat : \A s \in UpTo(S, n) : SumFunctionOnSet(f, s) \in Nat}
<1>1. 0 \in I
  BY FS_Subset, FS_EmptySet, FS_CardinalityType, SumOfNone DEF UpTo
<1>2. ASSUME NEW n \in Nat, n \in I PROVE n + 1 \in I
  <2>1. ASSUME NEW s \in UpTo(S, n + 1) PROVE SumFunctionOnSet(f, s) \in Nat
    <3>1. s \in SUBSET S /\ Cardinality(s) <= n + 1 /\ IsFiniteSet(s)
      BY FS_Subset DEF UpTo
    <3>2. CASE s # {}
      <4> DEFINE rest == s \ {First(s)}
      <4>1. First(s) \in s /\ rest \in SUBSET S /\ Cardinality(s) \in Nat
            /\ Cardinality(rest) = Cardinality(s) - 1
        BY <3>1, <3>2, Smaller
      <4>2. rest \in UpTo(S, n)
        BY <3>1, <4>1 DEF UpTo
      <4>3. SumFunctionOnSet(f, s) = f[First(s)] + SumFunctionOnSet(f, rest)
        BY <3>1, <3>2, SumStep
      <4>4. f[First(s)] \in Nat /\ SumFunctionOnSet(f, rest) \in Nat
        BY <1>2, <3>1, <4>1, <4>2
      <4> QED
        BY <4>3, <4>4
    <3>3. CASE s = {}
      BY <3>3, SumOfNone
    <3> QED
      BY <3>2, <3>3
  <2>2. n + 1 \in Nat
    OBVIOUS
  <2> QED
    BY <2>1, <2>2
<1>3. Cardinality(S) \in I
  <2> HIDE DEF I
  <2> QED
    BY <1>1, <1>2, NumbersByInduction, FS_CardinalityType
<1>4. S \in UpTo(S, Cardinality(S))
  BY FS_CardinalityType DEF UpTo
<1> QED
  BY <1>3, <1>4

\* The order does not matter: any element may be the first.
LEMMA SumLessOne ==
  ASSUME NEW f, NEW S, IsFiniteSet(S), \A y \in S : f[y] \in Nat, NEW x \in S
  PROVE  SumFunctionOnSet(f, S) = f[x] + SumFunctionOnSet(f, S \ {x})
<1> DEFINE Holds(s) == \A y \in s : SumFunctionOnSet(f, s) = f[y] + SumFunctionOnSet(f, s \ {y})
           I == {n \in Nat : \A s \in UpTo(S, n) : Holds(s)}
<1>1. 0 \in I
  BY FS_Subset, FS_EmptySet, FS_CardinalityType DEF UpTo
<1>2. ASSUME NEW n \in Nat, n \in I PROVE n + 1 \in I
  <2>1. ASSUME NEW s \in UpTo(S, n + 1), NEW y \in s
        PROVE  SumFunctionOnSet(f, s) = f[y] + SumFunctionOnSet(f, s \ {y})
    <3> DEFINE p == First(s)
               rest == s \ {p}
               both == (s \ {p}) \ {y}
    <3>1. s \in SUBSET S /\ Cardinality(s) <= n + 1 /\ IsFiniteSet(s)
      BY FS_Subset DEF UpTo
    <3>2. p \in s /\ rest \in SUBSET S /\ Cardinality(s) \in Nat
          /\ Cardinality(rest) = Cardinality(s) - 1
      BY <3>1, Smaller
    <3>3. SumFunctionOnSet(f, s) = f[p] + SumFunctionOnSet(f, rest)
      BY <3>1, SumStep
    <3>4. CASE y = p
      BY <3>3, <3>4
    <3>5. CASE y # p
      <4>1. rest \in UpTo(S, n) /\ y \in rest
        BY <3>1, <3>2, <3>5 DEF UpTo
      <4>2. SumFunctionOnSet(f, rest) = f[y] + SumFunctionOnSet(f, both)
        BY <1>2, <4>1
      <4>3. Cardinality(s \ {y}) = Cardinality(s) - 1
        BY <3>1, FS_RemoveElement
      <4>4. s \ {y} \in UpTo(S, n) /\ p \in s \ {y}
        BY <3>1, <3>2, <3>5, <4>3 DEF UpTo
      <4>5. (s \ {y}) \ {p} = both
        OBVIOUS
      <4> HIDE DEF p, rest, both
      <4>6. SumFunctionOnSet(f, s \ {y}) = f[p] + SumFunctionOnSet(f, (s \ {y}) \ {p})
        BY <1>2, <4>4
      <4>7. f[p] \in Nat /\ f[y] \in Nat
        BY <3>1, <3>2
      <4>8. SumFunctionOnSet(f, both) \in Nat
        <5>1. both \in SUBSET S /\ IsFiniteSet(both)
          BY <3>1, FS_Subset DEF both
        <5> QED
          BY <5>1, SumType
      <4> QED
        BY <3>3, <4>2, <4>5, <4>6, <4>7, <4>8
    <3> QED
      BY <3>4, <3>5
  <2>2. n + 1 \in Nat
    OBVIOUS
  <2> QED
    BY <2>1, <2>2
<1>3. Cardinality(S) \in I
  <2> HIDE DEF I
  <2> QED
    BY <1>1, <1>2, NumbersByInduction, FS_CardinalityType
<1>4. S \in UpTo(S, Cardinality(S))
  BY FS_CardinalityType DEF UpTo
<1> QED
  BY <1>3, <1>4

\* A sum is of the values on its set, whatever the function is elsewhere.
LEMMA SumOfSame ==
  ASSUME NEW f, NEW g, NEW S, IsFiniteSet(S), \A x \in S : f[x] = g[x]
  PROVE  SumFunctionOnSet(f, S) = SumFunctionOnSet(g, S)
<1> DEFINE I == {n \in Nat : \A s \in UpTo(S, n) :
                   SumFunctionOnSet(f, s) = SumFunctionOnSet(g, s)}
<1>1. 0 \in I
  <2>1. \A s \in UpTo(S, 0) : s = {}
    BY FS_Subset, FS_EmptySet, FS_CardinalityType DEF UpTo
  <2>2. SumFunctionOnSet(f, {}) = SumFunctionOnSet(g, {})
    BY SumOfNone
  <2> QED
    BY <2>1, <2>2
<1>2. ASSUME NEW n \in Nat, n \in I PROVE n + 1 \in I
  <2>1. ASSUME NEW s \in UpTo(S, n + 1)
        PROVE  SumFunctionOnSet(f, s) = SumFunctionOnSet(g, s)
    <3>1. s \in SUBSET S /\ Cardinality(s) <= n + 1 /\ IsFiniteSet(s)
      BY FS_Subset DEF UpTo
    <3>2. CASE s # {}
      <4> DEFINE rest == s \ {First(s)}
      <4>1. First(s) \in s /\ rest \in SUBSET S /\ Cardinality(s) \in Nat
            /\ Cardinality(rest) = Cardinality(s) - 1
        BY <3>1, <3>2, Smaller
      <4>2. rest \in UpTo(S, n)
        BY <3>1, <4>1 DEF UpTo
      <4>3. /\ SumFunctionOnSet(f, s) = f[First(s)] + SumFunctionOnSet(f, rest)
            /\ SumFunctionOnSet(g, s) = g[First(s)] + SumFunctionOnSet(g, rest)
        BY <3>1, <3>2, SumStep
      <4>4. f[First(s)] = g[First(s)] /\ SumFunctionOnSet(f, rest) = SumFunctionOnSet(g, rest)
        BY <1>2, <3>1, <4>1, <4>2
      <4> QED
        BY <4>3, <4>4
    <3>3. CASE s = {}
      BY <3>3, SumOfNone
    <3> QED
      BY <3>2, <3>3
  <2>2. n + 1 \in Nat
    OBVIOUS
  <2> QED
    BY <2>1, <2>2
<1>3. Cardinality(S) \in I
  <2> HIDE DEF I
  <2> QED
    BY <1>1, <1>2, NumbersByInduction, FS_CardinalityType
<1>4. S \in UpTo(S, Cardinality(S))
  BY FS_CardinalityType DEF UpTo
<1> QED
  BY <1>3, <1>4

\* Nothing adds nothing.
LEMMA NothingAdded ==
  ASSUME NEW f, NEW S, SumFunctionOnSet(f, S) \in Nat, NEW s, s = {}
  PROVE  SumFunctionOnSet(f, S \union s) = SumFunctionOnSet(f, S) + SumFunctionOnSet(f, s)
<1>1. S \union s = S
  OBVIOUS
<1>2. SumFunctionOnSet(f, s) = 0
  BY SumOfNone
<1>3. SumFunctionOnSet(f, S \union s) = SumFunctionOnSet(f, S)
  BY <1>1
<1> QED
  BY <1>2, <1>3

\* The sum over two sets that have nothing in common.
LEMMA SumOfBoth ==
  ASSUME NEW f, NEW S, NEW T, IsFiniteSet(S), IsFiniteSet(T), S \cap T = {},
         \A x \in S \union T : f[x] \in Nat
  PROVE  SumFunctionOnSet(f, S \union T) = SumFunctionOnSet(f, S) + SumFunctionOnSet(f, T)
<1> DEFINE I == {n \in Nat : \A s \in UpTo(T, n) :
                   SumFunctionOnSet(f, S \union s)
                     = SumFunctionOnSet(f, S) + SumFunctionOnSet(f, s)}
<1>1. SumFunctionOnSet(f, S) \in Nat
  BY SumType
<1>2. 0 \in I
  <2>1. \A s \in UpTo(T, 0) : s = {}
    BY FS_Subset, FS_EmptySet, FS_CardinalityType DEF UpTo
  <2>2. ASSUME NEW s, s = {}
        PROVE  SumFunctionOnSet(f, S \union s) = SumFunctionOnSet(f, S) + SumFunctionOnSet(f, s)
    BY <1>1, <2>2, NothingAdded
  <2> QED
    BY <2>1, <2>2
<1>3. ASSUME NEW n \in Nat, n \in I PROVE n + 1 \in I
  <2>1. ASSUME NEW s \in UpTo(T, n + 1)
        PROVE  SumFunctionOnSet(f, S \union s)
                 = SumFunctionOnSet(f, S) + SumFunctionOnSet(f, s)
    <3>1. s \in SUBSET T /\ Cardinality(s) <= n + 1 /\ IsFiniteSet(s)
      BY FS_Subset DEF UpTo
    <3>2. CASE s # {}
      <4> DEFINE p == First(s)
                 rest == s \ {p}
                 all == S \union s
      <4>1. p \in s /\ rest \in SUBSET T /\ Cardinality(s) \in Nat
            /\ Cardinality(rest) = Cardinality(s) - 1
        BY <3>1, <3>2, Smaller
      <4>2. rest \in UpTo(T, n)
        BY <3>1, <4>1 DEF UpTo
      <4>3. SumFunctionOnSet(f, s) = f[p] + SumFunctionOnSet(f, rest)
        BY <3>1, <3>2, SumStep
      <4>4. p \in all /\ all \ {p} = S \union rest /\ IsFiniteSet(all)
            /\ \A x \in all : f[x] \in Nat
        BY <3>1, <4>1, FS_Union
      <4>5. SumFunctionOnSet(f, all) = f[p] + SumFunctionOnSet(f, all \ {p})
        <5> HIDE DEF all, p
        <5> QED
          BY <4>4, SumLessOne
      <4>6. SumFunctionOnSet(f, S \union rest)
              = SumFunctionOnSet(f, S) + SumFunctionOnSet(f, rest)
        BY <1>3, <4>2
      <4>7. f[p] \in Nat /\ SumFunctionOnSet(f, rest) \in Nat
        <5>1. IsFiniteSet(rest) /\ \A x \in rest : f[x] \in Nat
          BY <3>1, FS_RemoveElement
        <5> QED
          BY <4>1, <3>1, <5>1, SumType
      <4> HIDE DEF p, rest
      <4>8. SumFunctionOnSet(f, all)
              = f[p] + (SumFunctionOnSet(f, S) + SumFunctionOnSet(f, rest))
        BY <4>4, <4>5, <4>6
      <4> QED
        BY <1>1, <4>3, <4>7, <4>8
    <3>3. CASE s = {}
      BY <1>1, <3>3, NothingAdded
    <3> QED
      BY <3>2, <3>3
  <2>2. n + 1 \in Nat
    OBVIOUS
  <2> QED
    BY <2>1, <2>2
<1>4. Cardinality(T) \in I
  <2> HIDE DEF I
  <2> QED
    BY <1>2, <1>3, NumbersByInduction, FS_CardinalityType
<1>5. T \in UpTo(T, Cardinality(T))
  BY FS_CardinalityType DEF UpTo
<1> QED
  BY <1>4, <1>5

--------------------------------------------------------------------------------
(* Sums over intervals *)

\* The last of an interval.
LEMMA SumToLast ==
  ASSUME NEW f, NEW a \in Int, NEW b \in Int, a <= b, \A i \in a .. b : f[i] \in Nat
  PROVE  SumFunctionOnSet(f, a .. b) = SumFunctionOnSet(f, a .. b - 1) + f[b]
<1>1. IsFiniteSet(a .. b) /\ b \in a .. b /\ (a .. b) \ {b} = a .. b - 1
  BY FS_Interval
<1>2. IsFiniteSet(a .. b - 1) /\ \A i \in a .. b - 1 : f[i] \in Nat
  BY FS_Interval
<1>3. SumFunctionOnSet(f, a .. b) = f[b] + SumFunctionOnSet(f, (a .. b) \ {b})
  BY <1>1, SumLessOne
<1> DEFINE most == SumFunctionOnSet(f, a .. b - 1)
<1>4. most \in Nat /\ f[b] \in Nat
  BY <1>1, <1>2, SumType
<1>5. SumFunctionOnSet(f, a .. b) = f[b] + most
  BY <1>1, <1>3
<1> HIDE DEF most
<1>6. f[b] + most = most + f[b]
  BY <1>4
<1> QED
  BY <1>5, <1>6 DEF most

\* The same values, one place further.
LEMMA SumShifted ==
  ASSUME NEW f, NEW g, NEW a \in Int, NEW z \in Int,
         \A i \in a .. z : g[i] = f[i + 1] /\ g[i] \in Nat
  PROVE  SumFunctionOnSet(g, a .. z) = SumFunctionOnSet(f, a + 1 .. z + 1)
<1> DEFINE I == {k \in Nat : a + k - 1 <= z =>
                   SumFunctionOnSet(g, a .. a + k - 1) = SumFunctionOnSet(f, a + 1 .. a + k)}
<1>1. 0 \in I
  <2>1. a .. a + 0 - 1 = {} /\ a + 1 .. a + 0 = {}
    OBVIOUS
  <2> QED
    BY <2>1, SumOfNone
<1>2. ASSUME NEW k \in Nat, k \in I PROVE k + 1 \in I
  <2> SUFFICES ASSUME a + (k + 1) - 1 <= z
               PROVE  SumFunctionOnSet(g, a .. a + (k + 1) - 1)
                        = SumFunctionOnSet(f, a + 1 .. a + (k + 1))
    OBVIOUS
  <2> DEFINE b == a + k
  <2>1. b \in Int /\ a <= b /\ a + (k + 1) - 1 = b /\ a + (k + 1) = b + 1
        /\ a + k - 1 = b - 1 /\ a + 1 <= b + 1 /\ (b + 1) - 1 = b
    OBVIOUS
  <2>2. \A i \in a .. b : g[i] = f[i + 1] /\ g[i] \in Nat
    OBVIOUS
  <2>3. \A i \in a + 1 .. b + 1 : f[i] \in Nat
    <3> SUFFICES ASSUME NEW i \in a + 1 .. b + 1 PROVE f[i] \in Nat
      OBVIOUS
    <3>1. i - 1 \in a .. b /\ (i - 1) + 1 = i
      BY <2>1
    <3> QED
      BY <2>2, <3>1
  <2>4. SumFunctionOnSet(g, a .. b - 1) = SumFunctionOnSet(f, a + 1 .. b)
    BY <1>2
  <2> HIDE DEF b
  <2>5. SumFunctionOnSet(g, a .. b) = SumFunctionOnSet(g, a .. b - 1) + g[b]
    BY <2>1, <2>2, SumToLast
  <2>6. SumFunctionOnSet(f, a + 1 .. b + 1) = SumFunctionOnSet(f, a + 1 .. (b + 1) - 1) + f[b + 1]
    BY <2>1, <2>3, SumToLast
  <2>7. g[b] = f[b + 1]
    BY <2>1, <2>2
  <2> QED
    BY <2>1, <2>4, <2>5, <2>6, <2>7
<1>3. Nat \subseteq I
  <2> HIDE DEF I
  <2> QED
    BY <1>1, <1>2, NumbersByInduction
<1>4. CASE a <= z
  <2> DEFINE n == z - a + 1
  <2>1. n \in Nat /\ a + n - 1 = z /\ a + n = z + 1
    BY <1>4
  <2> HIDE DEF n
  <2>2. a + n - 1 <= z =>
          SumFunctionOnSet(g, a .. a + n - 1) = SumFunctionOnSet(f, a + 1 .. a + n)
    BY <1>3, <2>1
  <2>3. a .. a + n - 1 = a .. z /\ a + 1 .. a + n = a + 1 .. z + 1
    BY <2>1
  <2>4. SumFunctionOnSet(g, a .. a + n - 1) = SumFunctionOnSet(f, a + 1 .. a + n)
    BY <2>1, <2>2
  <2> QED
    BY <2>3, <2>4
<1>5. CASE z < a
  <2>1. a .. z = {} /\ a + 1 .. z + 1 = {}
    BY <1>5
  <2> QED
    BY <2>1, SumOfNone
<1>6. a <= z \/ z < a
  OBVIOUS
<1> QED
  BY <1>4, <1>5, <1>6

\* A sum may be taken over other elements that stand for those of its set, one for one.
LEMMA SumRenamed ==
  ASSUME NEW f, NEW g, NEW S, NEW T, IsFiniteSet(S), IsFiniteSet(T), NEW h \in [T -> S],
         \A x, y \in T : h[x] = h[y] => x = y,
         \A z \in S : \E x \in T : h[x] = z,
         \A x \in T : g[x] \in Nat /\ f[h[x]] = g[x]
  PROVE  SumFunctionOnSet(f, S) = SumFunctionOnSet(g, T)
<1> DEFINE At(s) == {h[x] : x \in s}
           I == {n \in Nat : \A s \in UpTo(T, n) :
                   SumFunctionOnSet(f, At(s)) = SumFunctionOnSet(g, s)}
<1>1. 0 \in I
  <2>1. \A s \in UpTo(T, 0) : s = {}
    BY FS_Subset, FS_EmptySet, FS_CardinalityType DEF UpTo
  <2>2. At({}) = {}
    OBVIOUS
  <2>3. SumFunctionOnSet(f, {}) = SumFunctionOnSet(g, {})
    BY SumOfNone
  <2> QED
    BY <2>1, <2>2, <2>3
<1>2. ASSUME NEW n \in Nat, n \in I PROVE n + 1 \in I
  <2>1. ASSUME NEW s \in UpTo(T, n + 1)
        PROVE  SumFunctionOnSet(f, At(s)) = SumFunctionOnSet(g, s)
    <3>1. s \in SUBSET T /\ Cardinality(s) <= n + 1 /\ IsFiniteSet(s)
      BY FS_Subset DEF UpTo
    <3>2. CASE s # {}
      <4> DEFINE p == First(s)
                 rest == s \ {p}
      <4>1. p \in s /\ rest \in SUBSET T /\ Cardinality(s) \in Nat
            /\ Cardinality(rest) = Cardinality(s) - 1
        BY <3>1, <3>2, Smaller
      <4>2. rest \in UpTo(T, n)
        BY <3>1, <4>1 DEF UpTo
      <4>3. SumFunctionOnSet(g, s) = g[p] + SumFunctionOnSet(g, rest)
        BY <3>1, <3>2, SumStep
      <4> HIDE DEF p
      <4>4. At(s) \in SUBSET S /\ h[p] \in At(s) /\ At(s) \ {h[p]} = At(rest)
        BY <3>1, <4>1
      <4>5. \A z \in At(s) : f[z] \in Nat
        BY <3>1
      <4>6. IsFiniteSet(At(s))
        BY <4>4, FS_Subset
      <4>7. SumFunctionOnSet(f, At(rest)) = SumFunctionOnSet(g, rest)
        BY <1>2, <4>2
      <4> HIDE DEF At, rest
      <4>8. SumFunctionOnSet(f, At(s)) = f[h[p]] + SumFunctionOnSet(f, At(s) \ {h[p]})
        BY <4>4, <4>5, <4>6, SumLessOne
      <4>9. f[h[p]] = g[p]
        BY <3>1, <4>1
      <4> QED
        BY <4>3, <4>4, <4>7, <4>8, <4>9
    <3>3. CASE s = {}
      <4>1. At(s) = {}
        BY <3>3
      <4> QED
        BY <3>3, <4>1, SumOfNone
    <3> QED
      BY <3>2, <3>3
  <2>2. n + 1 \in Nat
    OBVIOUS
  <2> QED
    BY <2>1, <2>2
<1>3. Cardinality(T) \in I
  <2> HIDE DEF I
  <2> QED
    BY <1>1, <1>2, NumbersByInduction, FS_CardinalityType
<1>4. T \in UpTo(T, Cardinality(T))
  BY FS_CardinalityType DEF UpTo
<1>5. At(T) = S
  OBVIOUS
<1> QED
  BY <1>3, <1>4, <1>5
================================================================================
