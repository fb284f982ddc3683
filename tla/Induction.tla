----------------------------- MODULE Induction -----------------------------
(***************************************************************************)
(* Induction in the form the provers take it: a set of numbers without a   *)
(* least element is empty. And what it shows of sums over finite sets,     *)
(* which the community modules define by recursion, of the order of a      *)
(* filtered list (Places), of lists and the pieces they are cut into, and  *)
(* of sums along a trail.                                                  *)
(***************************************************************************)
EXTENDS Integers, Sequences, Functions, FiniteSets, Places, FiniteSetTheorems, WellFoundedInduction, TLAPS

(* The least number of a set: induction, in the form of no least            *)
(* counterexample.                                                          *)
LEMMA LeastNumber ==
  ASSUME NEW T \in SUBSET Nat, T # {}
  PROVE  \E n \in T : \A m \in T : n <= m
<1> DEFINE R == {ss \in Nat \X Nat : ss[1] < ss[2]}
<1>1. IsWellFoundedOn(R, Nat)
  BY NatLessThanWellFounded DEF OpToRel
<1>2. ASSUME NEW a \in T, NEW b \in T, <<a, b>> \notin R
      PROVE  b <= a
  <2>1. a \in Nat /\ b \in Nat
    OBVIOUS
  <2> QED BY <1>2, <2>1
<1> HIDE DEF R
<1>3. PICK n \in T : \A m \in T : <<m, n>> \notin R
  BY <1>1, WFMin
<1>4. \A m \in T : n <= m
  BY <1>2, <1>3
<1> QED BY <1>3, <1>4

(* A set of numbers that has no first element and no next one is empty.     *)
LEMMA NoCounterexample ==
  ASSUME NEW Bad \in SUBSET Nat, 0 \notin Bad,
         \A m \in Nat : m \notin Bad => m + 1 \notin Bad
  PROVE  Bad = {}
<1> SUFFICES ASSUME Bad # {} PROVE FALSE
  OBVIOUS
<1>1. PICK m \in Bad : \A x \in Bad : m <= x
  BY LeastNumber
<1>2. m \in Nat /\ m # 0
  BY <1>1
<1>3. m - 1 \in Nat /\ m - 1 \notin Bad
  BY <1>1, <1>2
<1> QED BY <1>2, <1>3

-----------------------------------------------------------------------------
(* Sums.                                                                   *)

(* SumFunctionOnSet is the value of a recursive function on the subsets.    *)
SomeOf(s) == CHOOSE x \in s : TRUE
AllBut(s) == s \ {SomeOf(s)}
IsSum(g, f, D) == g = [s \in D |-> IF s = {} THEN 0 ELSE f[SomeOf(s)] + g[AllBut(s)]]

(* The sum as the community modules define it, a function chosen to        *)
(* satisfy the recursion.                                                  *)
LEMMA SumIsChosen ==
  ASSUME NEW f, NEW S
  PROVE  SumFunctionOnSet(f, S) = (CHOOSE g : IsSum(g, f, SUBSET S))[S]
BY DEF SumFunctionOnSet, FoldFunctionOnSet, MapThenFoldSet, IsSum, SomeOf, AllBut

SmallSubsets(S, k) == {s \in SUBSET S : Cardinality(s) <= k}

(* What is left after one element is taken out is smaller.                 *)
LEMMA RestIsSmaller ==
  ASSUME NEW S, IsFiniteSet(S), NEW s \in SUBSET S, s # {}
  PROVE  /\ SomeOf(s) \in s /\ AllBut(s) \in SUBSET S /\ Cardinality(s) \in Nat /\ Cardinality(AllBut(s)) \in Nat
         /\ Cardinality(AllBut(s)) = Cardinality(s) - 1
<1>1. SomeOf(s) \in s
  BY DEF SomeOf
<1>2. IsFiniteSet(s)
  BY FS_Subset
<1> QED BY <1>1, <1>2, FS_RemoveElement, FS_CardinalityType DEF AllBut

(* Such a function exists: by induction on the size of the sets.           *)
LEMMA SumExists ==
  ASSUME NEW S, IsFiniteSet(S), NEW f, \A x \in S : f[x] \in Int
  PROVE  \E g \in [SUBSET S -> Int] : IsSum(g, f, SUBSET S)
<1> DEFINE Bad == {k \in Nat : ~ \E g \in [SmallSubsets(S, k) -> Int] : IsSum(g, f, SmallSubsets(S, k))}
<1>1. 0 \notin Bad
  <2> DEFINE D == SmallSubsets(S, 0)
             g == [s \in D |-> 0]
  <2>1. \A s \in D : s = {}
    <3> SUFFICES ASSUME NEW s \in D PROVE s = {}
      OBVIOUS
    <3>1. s \in SUBSET S /\ Cardinality(s) <= 0
      BY DEF SmallSubsets
    <3>2. s # {} => FALSE
      <4> SUFFICES ASSUME s # {} PROVE FALSE
        OBVIOUS
      <4>1. Cardinality(s) \in Nat /\ Cardinality(AllBut(s)) \in Nat /\ Cardinality(AllBut(s)) = Cardinality(s) - 1
        BY <3>1, RestIsSmaller
      <4> QED BY <3>1, <4>1
    <3> QED BY <3>2
  <2>2. g \in [D -> Int]
    OBVIOUS
  <2>3. IsSum(g, f, D)
    <3> HIDE DEF D
    <3> QED BY <2>1 DEF IsSum
  <2> QED BY <2>2, <2>3
<1>2. ASSUME NEW k \in Nat, k \notin Bad PROVE k + 1 \notin Bad
  <2>1. PICK g \in [SmallSubsets(S, k) -> Int] : IsSum(g, f, SmallSubsets(S, k))
    BY <1>2
  <2> DEFINE D == SmallSubsets(S, k + 1)
             h == [s \in D |-> IF s = {} THEN 0 ELSE f[SomeOf(s)] + g[AllBut(s)]]
  <2>2. \A s \in D : s # {} => /\ SomeOf(s) \in S /\ AllBut(s) \in SmallSubsets(S, k)
    <3> SUFFICES ASSUME NEW s \in D, s # {} PROVE SomeOf(s) \in S /\ AllBut(s) \in SmallSubsets(S, k)
      OBVIOUS
    <3>1. s \in SUBSET S /\ Cardinality(s) <= k + 1
      BY DEF SmallSubsets
    <3>2. /\ SomeOf(s) \in s /\ AllBut(s) \in SUBSET S /\ Cardinality(s) \in Nat
          /\ Cardinality(AllBut(s)) = Cardinality(s) - 1
      BY <3>1, RestIsSmaller
    <3>3. Cardinality(AllBut(s)) <= k
      BY <3>1, <3>2
    <3> QED BY <3>1, <3>2, <3>3 DEF SmallSubsets
  <2> HIDE DEF D
  <2>3. h \in [D -> Int]
    BY <2>2
  <2>4. \A s \in SmallSubsets(S, k) : h[s] = g[s]
    <3> SUFFICES ASSUME NEW s \in SmallSubsets(S, k) PROVE h[s] = g[s]
      OBVIOUS
    <3>1. s \in D
      <4>1. s \in SUBSET S /\ Cardinality(s) <= k /\ Cardinality(s) \in Nat
        BY FS_Subset, FS_CardinalityType DEF SmallSubsets
      <4>2. Cardinality(s) <= k + 1
        BY <4>1
      <4> QED BY <4>1, <4>2 DEF D, SmallSubsets
    <3>2. g[s] = IF s = {} THEN 0 ELSE f[SomeOf(s)] + g[AllBut(s)]
      BY <2>1 DEF IsSum
    <3> QED BY <3>1, <3>2
  <2>5. IsSum(h, f, D)
    <3>1. \A s \in D : s # {} => h[AllBut(s)] = g[AllBut(s)]
      BY <2>2, <2>4
    <3>2. h = [s \in D |-> IF s = {} THEN 0 ELSE f[SomeOf(s)] + h[AllBut(s)]]
      <4>1. \A s \in D : h[s] = IF s = {} THEN 0 ELSE f[SomeOf(s)] + h[AllBut(s)]
        BY <3>1
      <4> HIDE DEF h
      <4> QED BY <2>3, <4>1
    <3> QED BY <3>2 DEF IsSum
  <2> HIDE DEF h
  <2> QED BY <2>3, <2>5 DEF D
<1>3. Bad = {}
  <2>1. Bad \in SUBSET Nat
    OBVIOUS
  <2> HIDE DEF Bad
  <2> QED BY <1>1, <1>2, <2>1, NoCounterexample
<1>4. Cardinality(S) \in Nat
  BY FS_CardinalityType
<1>5. SmallSubsets(S, Cardinality(S)) = SUBSET S
  BY FS_Subset DEF SmallSubsets
<1>6. Cardinality(S) \notin Bad
  BY <1>3
<1> QED BY <1>4, <1>5, <1>6

(* Two such functions agree where they meet.                                *)
LEMMA SumsAgree ==
  ASSUME NEW S, IsFiniteSet(S), NEW f, NEW g, NEW T, NEW h,
         IsSum(g, f, SUBSET S), IsSum(h, f, SUBSET T)
  PROVE  \A s \in SUBSET S : s \in SUBSET T => g[s] = h[s]
<1> DEFINE Bad == {k \in Nat : \E s \in SUBSET S : s \in SUBSET T /\ Cardinality(s) = k /\ g[s] # h[s]}
<1>0. \A s \in SUBSET S : s \in SUBSET T =>
        /\ g[s] = IF s = {} THEN 0 ELSE f[SomeOf(s)] + g[AllBut(s)]
        /\ h[s] = IF s = {} THEN 0 ELSE f[SomeOf(s)] + h[AllBut(s)]
  BY DEF IsSum
<1>1. Bad = {}
  <2> SUFFICES ASSUME Bad # {} PROVE FALSE
    OBVIOUS
  <2>1. PICK k \in Bad : \A m \in Bad : k <= m
    <3>1. Bad \in SUBSET Nat
      OBVIOUS
    <3> HIDE DEF Bad
    <3> QED BY <3>1, LeastNumber
  <2>2. PICK s \in SUBSET S : s \in SUBSET T /\ Cardinality(s) = k /\ g[s] # h[s]
    OBVIOUS
  <2>3. s # {}
    BY <1>0, <2>2
  <2>4. AllBut(s) \in SUBSET S /\ AllBut(s) \in SUBSET T /\ Cardinality(AllBut(s)) \in Nat /\ Cardinality(AllBut(s)) = k - 1
    <3>1. AllBut(s) \in SUBSET S /\ Cardinality(AllBut(s)) \in Nat /\ Cardinality(AllBut(s)) = k - 1
      BY <2>2, <2>3, RestIsSmaller
    <3>2. AllBut(s) \in SUBSET T
      BY <2>2 DEF AllBut
    <3> QED BY <3>1, <3>2
  <2>5. g[AllBut(s)] # h[AllBut(s)]
    BY <1>0, <2>2, <2>3
  <2>6. k - 1 \in Bad
    BY <2>4, <2>5
  <2> QED BY <2>1, <2>6
<1>2. \A s \in SUBSET S : Cardinality(s) \in Nat
  BY FS_Subset, FS_CardinalityType
<1> QED BY <1>1, <1>2

(* The sum over nothing, and over a set as the choice takes it apart.       *)
LEMMA SumUnfolds ==
  ASSUME NEW S, IsFiniteSet(S), NEW f, \A x \in S : f[x] \in Nat
  PROVE  /\ SumFunctionOnSet(f, S) \in Int
         /\ SumFunctionOnSet(f, {}) = 0
         /\ S # {} => SumFunctionOnSet(f, S) = f[SomeOf(S)] + SumFunctionOnSet(f, AllBut(S))
<1> DEFINE G(T) == CHOOSE g : IsSum(g, f, SUBSET T)
<1>1. ASSUME NEW T \in SUBSET S PROVE IsSum(G(T), f, SUBSET T) /\ IsFiniteSet(T) /\ SumFunctionOnSet(f, T) = G(T)[T]
  <2>1. IsFiniteSet(T)
    BY FS_Subset
  <2>2. \E g : IsSum(g, f, SUBSET T)
    <3>1. \A x \in T : f[x] \in Int
      OBVIOUS
    <3> QED BY <2>1, <3>1, SumExists
  <2> QED BY <2>1, <2>2, SumIsChosen
<1> HIDE DEF G
<1>2. G(S)[S] \in Int
  <2>1. PICK g \in [SUBSET S -> Int] : IsSum(g, f, SUBSET S)
    <3>1. \A x \in S : f[x] \in Int
      OBVIOUS
    <3> QED BY <3>1, SumExists
  <2>2. S \in SUBSET S
    OBVIOUS
  <2>3. G(S)[S] = g[S]
    <3>1. IsSum(G(S), f, SUBSET S)
      BY <1>1, <2>2
    <3>2. \A s \in SUBSET S : s \in SUBSET S => G(S)[s] = g[s]
      BY <2>1, <3>1, SumsAgree
    <3> QED BY <2>2, <3>2
  <2> QED BY <2>1, <2>2, <2>3
<1>3. SumFunctionOnSet(f, {}) = 0
  <2>1. {} \in SUBSET S
    OBVIOUS
  <2>2. G({})[{}] = 0
    BY <1>1, <2>1 DEF IsSum
  <2> QED BY <1>1, <2>1, <2>2
<1>4. ASSUME S # {} PROVE SumFunctionOnSet(f, S) = f[SomeOf(S)] + SumFunctionOnSet(f, AllBut(S))
  <2>1. AllBut(S) \in SUBSET S /\ S \in SUBSET S
    BY DEF AllBut
  <2>2. G(S)[S] = f[SomeOf(S)] + G(S)[AllBut(S)]
    BY <1>1, <1>4, <2>1 DEF IsSum
  <2>3. G(AllBut(S))[AllBut(S)] = G(S)[AllBut(S)]
    <3>1. IsSum(G(S), f, SUBSET S) /\ IsSum(G(AllBut(S)), f, SUBSET AllBut(S))
      BY <1>1, <2>1
    <3>2. AllBut(S) \in SUBSET AllBut(S)
      OBVIOUS
    <3>3. \A s \in SUBSET S : s \in SUBSET AllBut(S) => G(S)[s] = G(AllBut(S))[s]
      <4> DEFINE g == G(S)
                 T == AllBut(S)
                 h == G(AllBut(S))
      <4>1. IsSum(g, f, SUBSET S) /\ IsSum(h, f, SUBSET T)
        BY <3>1
      <4> HIDE DEF g, T, h
      <4>2. \A s \in SUBSET S : s \in SUBSET T => g[s] = h[s]
        BY <4>1, SumsAgree, Z3
      <4> QED BY <4>2 DEF g, T, h
    <3> QED BY <2>1, <3>2, <3>3
  <2> QED BY <1>1, <2>1, <2>2, <2>3
<1>5. S \in SUBSET S
  OBVIOUS
<1> QED BY <1>1, <1>2, <1>3, <1>4, <1>5

(* Any element may be taken out of the sum.                                 *)
LEMMA SumWithout ==
  ASSUME NEW S, IsFiniteSet(S), NEW f, \A x \in S : f[x] \in Nat, NEW x \in S
  PROVE  SumFunctionOnSet(f, S) = f[x] + SumFunctionOnSet(f, S \ {x})
<1> DEFINE Odd(T, y) == SumFunctionOnSet(f, T) # f[y] + SumFunctionOnSet(f, T \ {y})
           Bad == {k \in Nat : \E T \in SUBSET S : Cardinality(T) = k /\ \E y \in T : Odd(T, y)}
<1>1. ASSUME NEW T \in SUBSET S
      PROVE  /\ IsFiniteSet(T) /\ Cardinality(T) \in Nat /\ SumFunctionOnSet(f, T) \in Int
             /\ T # {} => SumFunctionOnSet(f, T) = f[SomeOf(T)] + SumFunctionOnSet(f, AllBut(T)) /\ SomeOf(T) \in T
  <2>1. IsFiniteSet(T)
    BY FS_Subset
  <2>2. T # {} => SomeOf(T) \in T
    BY DEF SomeOf
  <2> QED BY <2>1, <2>2, SumUnfolds, FS_CardinalityType
<1>2. ASSUME Bad # {} PROVE FALSE
  <2>1. PICK k \in Bad : \A m \in Bad : k <= m
    <3>1. Bad \in SUBSET Nat
      OBVIOUS
    <3> HIDE DEF Bad
    <3> QED BY <1>2, <3>1, LeastNumber
  <2>2. PICK T \in SUBSET S : Cardinality(T) = k /\ \E y \in T : Odd(T, y)
    OBVIOUS
  <2>3. PICK y \in T : Odd(T, y)
    BY <2>2
  <2> DEFINE c == SomeOf(T)
  <2>4. T # {} /\ c \in T /\ AllBut(T) = T \ {c} /\ SumFunctionOnSet(f, T) = f[c] + SumFunctionOnSet(f, T \ {c})
    BY <1>1, <2>3 DEF AllBut
  <2>5. y # c
    BY <2>3, <2>4
  <2>6. ASSUME NEW z \in T PROVE (T \ {z}) \in SUBSET S /\ Cardinality(T \ {z}) = k - 1 /\ k - 1 \in Nat
    <3>1. Cardinality(T \ {z}) = k - 1
      BY <1>1, <2>2, FS_RemoveElement
    <3>2. Cardinality(T \ {z}) \in Nat
      BY <1>1
    <3> QED BY <3>1, <3>2
  <2>7. k - 1 \notin Bad
    BY <2>1
  <2>8. ASSUME NEW z \in T, NEW w \in T \ {z} PROVE ~Odd(T \ {z}, w)
    <3>1. (T \ {z}) \in SUBSET S /\ Cardinality(T \ {z}) = k - 1 /\ k - 1 \in Nat
      BY <2>6
    <3> HIDE DEF Odd
    <3> QED BY <2>7, <3>1
  <2>9. SumFunctionOnSet(f, T \ {c}) = f[y] + SumFunctionOnSet(f, (T \ {c}) \ {y})
    BY <2>4, <2>5, <2>8
  <2>10. SumFunctionOnSet(f, T \ {y}) = f[c] + SumFunctionOnSet(f, (T \ {y}) \ {c})
    BY <2>4, <2>5, <2>8
  <2>11. (T \ {y}) \ {c} = (T \ {c}) \ {y} /\ ((T \ {c}) \ {y}) \in SUBSET S
    OBVIOUS
  <2>12. f[c] \in Nat /\ f[y] \in Nat /\ SumFunctionOnSet(f, (T \ {c}) \ {y}) \in Int
    BY <1>1, <2>4, <2>11
  <2> DEFINE rest == SumFunctionOnSet(f, (T \ {c}) \ {y})
             a == f[c]
             b == f[y]
  <2>13. /\ SumFunctionOnSet(f, T) = a + (b + rest)
         /\ b + SumFunctionOnSet(f, T \ {y}) = b + (a + rest)
         /\ a \in Nat /\ b \in Nat /\ rest \in Int
    BY <2>4, <2>9, <2>10, <2>11, <2>12
  <2>14. a + (b + rest) = b + (a + rest)
    <3> HIDE DEF a, b, rest
    <3> QED BY <2>13
  <2> QED BY <2>3, <2>13, <2>14
<1>3. S \in SUBSET S /\ Cardinality(S) \in Nat /\ Cardinality(S) \notin Bad
  BY <1>1, <1>2
<1>4. ~Odd(S, x)
  <2> HIDE DEF Odd
  <2> QED BY <1>3
<1> QED BY <1>4

(* A larger set of larger numbers has the larger sum.                       *)
LEMMA SumsCompare ==
  ASSUME NEW S, NEW T, IsFiniteSet(T), S \subseteq T, NEW f, NEW g,
         \A x \in S : f[x] \in Nat, \A x \in T : g[x] \in Nat, \A x \in S : f[x] <= g[x]
  PROVE  /\ SumFunctionOnSet(f, S) \in Nat /\ SumFunctionOnSet(g, T) \in Nat
         /\ SumFunctionOnSet(f, S) <= SumFunctionOnSet(g, T)
<1> DEFINE F(X) == SumFunctionOnSet(f, X)
           G(X) == SumFunctionOnSet(g, X)
           Odd(X) == ~(F(S \cap X) \in Nat /\ G(X) \in Nat /\ F(S \cap X) <= G(X))
           Bad == {k \in Nat : \E X \in SUBSET T : Cardinality(X) = k /\ Odd(X)}
<1>1. ASSUME NEW X \in SUBSET T PROVE IsFiniteSet(X) /\ IsFiniteSet(S \cap X) /\ Cardinality(X) \in Nat
  <2>1. IsFiniteSet(X)
    BY FS_Subset
  <2>2. IsFiniteSet(S \cap X)
    BY <2>1, FS_Subset
  <2> QED BY <2>1, <2>2, FS_CardinalityType
<1>2. ASSUME Bad # {} PROVE FALSE
  <2>1. PICK k \in Bad : \A m \in Bad : k <= m
    <3>1. Bad \in SUBSET Nat
      OBVIOUS
    <3> HIDE DEF Bad
    <3> QED BY <1>2, <3>1, LeastNumber
  <2>2. PICK X \in SUBSET T : Cardinality(X) = k /\ Odd(X)
    OBVIOUS
  <2>3. X # {}
    <3> SUFFICES ASSUME X = {} PROVE FALSE
      OBVIOUS
    <3>1. F({}) = 0 /\ G({}) = 0
      BY SumUnfolds, FS_EmptySet
    <3> QED BY <2>2, <3>1
  <2>4. PICK y \in X : TRUE
    BY <2>3
  <2> DEFINE Y == X \ {y}
  <2>5. Y \in SUBSET T /\ Cardinality(Y) = k - 1 /\ k - 1 \in Nat
    <3>1. Cardinality(Y) = k - 1
      BY <1>1, <2>2, FS_RemoveElement
    <3>2. Cardinality(Y) \in Nat
      BY <1>1
    <3> QED BY <3>1, <3>2
  <2>6. ~Odd(Y)
    <3>1. k - 1 \notin Bad
      <4>1. k \in Nat
        BY <1>1, <2>2
      <4> HIDE DEF Bad
      <4> QED BY <2>1, <2>5, <4>1
    <3> HIDE DEF Odd, Y
    <3> QED BY <2>5, <3>1
  <2>7. G(X) = g[y] + G(Y) /\ g[y] \in Nat
    BY <1>1, SumWithout
  <2>8. CASE y \in S
    <3>1. (S \cap X) \ {y} = S \cap Y
      OBVIOUS
    <3>2. F(S \cap X) = f[y] + F(S \cap Y) /\ f[y] \in Nat /\ f[y] <= g[y]
      <4>1. y \in S \cap X
        BY <2>8
      <4>2. F(S \cap X) = f[y] + F((S \cap X) \ {y})
        BY <1>1, <4>1, SumWithout
      <4> QED BY <2>8, <3>1, <4>2
    <3>3. F(S \cap Y) \in Nat /\ G(Y) \in Nat /\ F(S \cap Y) <= G(Y)
      BY <2>6
    <3> HIDE DEF F, G, Y
    <3>4. F(S \cap X) \in Nat /\ G(X) \in Nat /\ F(S \cap X) <= G(X)
      BY <2>7, <3>2, <3>3
    <3> QED BY <2>2, <3>4
  <2>9. CASE y \notin S
    <3>1. S \cap X = S \cap Y
      BY <2>9
    <3>2. F(S \cap Y) \in Nat /\ G(Y) \in Nat /\ F(S \cap Y) <= G(Y)
      BY <2>6
    <3> HIDE DEF F, G, Y
    <3>3. F(S \cap X) \in Nat /\ G(X) \in Nat /\ F(S \cap X) <= G(X)
      BY <2>7, <3>1, <3>2
    <3> QED BY <2>2, <3>3
  <2> QED BY <2>8, <2>9
<1>3. T \in SUBSET T /\ Cardinality(T) \in Nat /\ Cardinality(T) \notin Bad /\ S \cap T = S
  BY <1>1, <1>2
<1>4. ~Odd(T)
  <2> HIDE DEF Odd
  <2> QED BY <1>3
<1> QED BY <1>3, <1>4

-----------------------------------------------------------------------------
(* Filtered lists.                                                         *)

Increasing(f, n) == \A i, j \in 1 .. n : i < j => f[i] < f[j]

(* A set of numbers up to some bound can be listed in order.               *)
LEMMA OrderExists ==
  ASSUME NEW n \in Nat, NEW S \in SUBSET (1 .. n)
  PROVE  \E f \in [1 .. Cardinality(S) -> S] : Increasing(f, Cardinality(S))
<1> DEFINE Bad == {m \in Nat : \E T \in SUBSET (1 .. m) :
                     ~ \E f \in [1 .. Cardinality(T) -> T] : Increasing(f, Cardinality(T))}
<1>1. 0 \notin Bad
  <2> SUFFICES ASSUME NEW T \in SUBSET (1 .. 0)
               PROVE  \E f \in [1 .. Cardinality(T) -> T] : Increasing(f, Cardinality(T))
    OBVIOUS
  <2>0. T = {}
    OBVIOUS
  <2>1. T = {} /\ Cardinality(T) = 0
    BY <2>0, FS_EmptySet
  <2>2. [i \in 1 .. 0 |-> 0] \in [1 .. Cardinality(T) -> T]
    BY <2>1
  <2>3. Increasing([i \in 1 .. 0 |-> 0], Cardinality(T))
    BY <2>1 DEF Increasing
  <2> QED BY <2>2, <2>3
<1>2. ASSUME NEW m \in Nat, m \notin Bad PROVE m + 1 \notin Bad
  <2> SUFFICES ASSUME NEW T \in SUBSET (1 .. (m + 1))
               PROVE  \E f \in [1 .. Cardinality(T) -> T] : Increasing(f, Cardinality(T))
    OBVIOUS
  <2>1. CASE m + 1 \notin T
    <3>1. T \in SUBSET (1 .. m)
      BY <2>1
    <3> QED BY <1>2, <3>1
  <2>2. CASE m + 1 \in T
    <3> DEFINE U == T \ {m + 1}
    <3>1. U \in SUBSET (1 .. m)
      OBVIOUS
    <3>2. IsFiniteSet(T) /\ Cardinality(T) \in Nat /\ Cardinality(U) \in Nat /\ Cardinality(T) = Cardinality(U) + 1
      <4>1. IsFiniteSet(1 .. (m + 1))
        BY FS_Interval
      <4>2. IsFiniteSet(T)
        BY <4>1, FS_Subset
      <4>3. IsFiniteSet(U) /\ Cardinality(U) = Cardinality(T) - 1
        BY <2>2, <4>2, FS_RemoveElement
      <4>4. Cardinality(T) \in Nat /\ Cardinality(U) \in Nat
        BY <4>2, <4>3, FS_CardinalityType
      <4> QED BY <4>2, <4>3, <4>4
    <3>3. PICK f \in [1 .. Cardinality(U) -> U] : Increasing(f, Cardinality(U))
      BY <1>2, <3>1
    <3>4. PICK c \in Nat : c = Cardinality(U)
      BY <3>2
    <3> DEFINE g == [k \in 1 .. (c + 1) |-> IF k = c + 1 THEN m + 1 ELSE f[k]]
    <3>5. ASSUME NEW k \in 1 .. c PROVE g[k] = f[k] /\ f[k] \in U /\ f[k] \in 1 .. m
      <4>1. g[k] = f[k]
        BY <3>4, <3>5
      <4>2. f[k] \in U
        <5> HIDE DEF U
        <5> QED BY <3>3, <3>4, <3>5
      <4> QED BY <3>1, <4>1, <4>2
    <3>6. g[c + 1] = m + 1
      BY <3>4
    <3>7. g \in [1 .. (c + 1) -> T]
      <4>1. ASSUME NEW k \in 1 .. (c + 1) PROVE g[k] \in T
        <5>1. k = c + 1 \/ k \in 1 .. c
          BY <3>4
        <5> QED BY <2>2, <3>5, <3>6, <5>1
      <4> QED BY <4>1
    <3> HIDE DEF g
    <3>8. Increasing(g, c + 1)
      <4> SUFFICES ASSUME NEW i \in 1 .. (c + 1), NEW j \in 1 .. (c + 1), i < j PROVE g[i] < g[j]
        BY DEF Increasing
      <4>1. i \in 1 .. c
        BY <3>4
      <4>2. CASE j = c + 1
        BY <3>5, <3>6, <4>1, <4>2
      <4>3. CASE j # c + 1
        <5>1. j \in 1 .. c
          BY <3>4, <4>3
        <5>2. f[i] < f[j]
          BY <3>3, <3>4, <4>1, <5>1 DEF Increasing
        <5> QED BY <3>5, <4>1, <5>1, <5>2
      <4> QED BY <4>2, <4>3
    <3> QED BY <3>2, <3>4, <3>7, <3>8
  <2> QED BY <2>1, <2>2
<1> HIDE DEF Bad
<1>3. Bad = {}
  <2>1. Bad \in SUBSET Nat
    BY DEF Bad
  <2> QED BY <1>1, <1>2, <2>1, NoCounterexample
<1> QED BY <1>3 DEF Bad

(* InOrder lists a set in order.                                           *)
LEMMA InOrderIs ==
  ASSUME NEW n \in Nat, NEW S \in SUBSET (1 .. n)
  PROVE  /\ Cardinality(S) \in Nat
         /\ InOrder(S) \in [1 .. Cardinality(S) -> S]
         /\ Increasing(InOrder(S), Cardinality(S))
<1>1. Cardinality(S) \in Nat
  <2>1. IsFiniteSet(1 .. n)
    BY FS_Interval
  <2> QED BY <2>1, FS_Subset, FS_CardinalityType
<1>2. \E f \in [1 .. Cardinality(S) -> S] : Increasing(f, Cardinality(S))
  BY OrderExists
<1>3. InOrder(S) = CHOOSE f \in [1 .. Cardinality(S) -> S] : Increasing(f, Cardinality(S))
  BY DEF InOrder, Increasing
<1> QED BY <1>1, <1>2, <1>3

(* An increasing list of n of the numbers 1 .. n is the list of them all.  *)
LEMMA AllInOrder ==
  ASSUME NEW n \in Nat, NEW f \in [1 .. n -> 1 .. n], Increasing(f, n), NEW k \in 1 .. n
  PROVE  f[k] = k
<1>1. \A j \in 1 .. n : f[j] >= j
  <2> DEFINE Bad == {j \in Nat : j \in 1 .. n /\ f[j] < j}
  <2>1. 0 \notin Bad
    OBVIOUS
  <2>2. ASSUME NEW m \in Nat, m \notin Bad PROVE m + 1 \notin Bad
    <3> SUFFICES ASSUME m + 1 \in 1 .. n PROVE f[m + 1] >= m + 1
      BY DEF Increasing
    <3>1. CASE m = 0
      BY <3>1
    <3>2. CASE m # 0
      <4>1. m \in 1 .. n
        BY <3>2
      <4>2. f[m] >= m /\ f[m] < f[m + 1]
        BY <2>2, <4>1 DEF Increasing
      <4> QED BY <4>1, <4>2
    <3> QED BY <3>1, <3>2
  <2>3. Bad = {}
    <3> HIDE DEF Bad
    <3>1. Bad \in SUBSET Nat
      BY DEF Bad
    <3> QED BY <2>1, <2>2, <3>1, NoCounterexample
  <2> SUFFICES ASSUME NEW j \in 1 .. n PROVE f[j] >= j
    OBVIOUS
  <2>4. j \in Nat /\ f[j] \in Nat
    BY DEF Increasing
  <2>5. j \notin Bad
    <3> HIDE DEF Bad
    <3> QED BY <2>3
  <2> QED BY <2>4, <2>5
<1>2. \A d \in 0 .. (n - 1) : f[n - d] <= n - d
  <2> DEFINE Bad == {d \in Nat : d \in 0 .. (n - 1) /\ f[n - d] > n - d}
  <2>1. 0 \notin Bad
    <3>1. n > 0 => f[n] \in 1 .. n
      OBVIOUS
    <3>2. n - 0 = n
      OBVIOUS
    <3> QED BY <3>1, <3>2
  <2>2. ASSUME NEW m \in Nat, m \notin Bad PROVE m + 1 \notin Bad
    <3> SUFFICES ASSUME m + 1 \in 0 .. (n - 1) PROVE f[n - (m + 1)] <= n - (m + 1)
      OBVIOUS
    <3>1. PICK j \in 1 .. n : j = n - (m + 1)
      OBVIOUS
    <3>2. j + 1 \in 1 .. n /\ n - m = j + 1 /\ m \in 0 .. (n - 1)
      BY <3>1
    <3>3. f[j + 1] <= j + 1 /\ f[j] < f[j + 1]
      BY <2>2, <3>1, <3>2 DEF Increasing
    <3> QED BY <3>1, <3>2, <3>3
  <2>3. Bad = {}
    <3> HIDE DEF Bad
    <3>1. Bad \in SUBSET Nat
      BY DEF Bad
    <3> QED BY <2>1, <2>2, <3>1, NoCounterexample
  <2> SUFFICES ASSUME NEW d \in 0 .. (n - 1) PROVE f[n - d] <= n - d
    OBVIOUS
  <2>4. PICK j \in 1 .. n : j = n - d
    OBVIOUS
  <2>5. f[j] \in 1 .. n
    OBVIOUS
  <2>6. d \notin Bad
    BY <2>3
  <2> QED BY <2>4, <2>5, <2>6
<1>3. n - k \in 0 .. (n - 1) /\ n - (n - k) = k
  OBVIOUS
<1>4. f[k] >= k /\ f[k] <= k /\ f[k] \in 1 .. n
  BY <1>1, <1>2, <1>3
<1> QED BY <1>4

(* A list whose places are numbered, whatever it holds.                    *)
IsList(us) == DOMAIN us = 1 .. Len(us) /\ Len(us) \in Nat

(* The elements at some places of a list come from different places.       *)
LEMMA AtPlacesAre ==
  ASSUME NEW list, NEW n \in Nat, NEW S \in SUBSET (1 .. n)
  PROVE  /\ IsList(AtPlaces(list, S))
         /\ \A k \in DOMAIN AtPlaces(list, S) : InOrder(S)[k] \in S /\ AtPlaces(list, S)[k] = list[InOrder(S)[k]]
         /\ \A j, k \in DOMAIN AtPlaces(list, S) : InOrder(S)[j] = InOrder(S)[k] => j = k
<1>1. /\ Cardinality(S) \in Nat /\ InOrder(S) \in [1 .. Cardinality(S) -> S]
      /\ Increasing(InOrder(S), Cardinality(S))
  BY InOrderIs
<1>2. PICK c, f : c = Cardinality(S) /\ f = InOrder(S)
  OBVIOUS
<1>3. DOMAIN AtPlaces(list, S) = 1 .. c /\ \A k \in 1 .. c : AtPlaces(list, S)[k] = list[f[k]]
  BY <1>2 DEF AtPlaces
<1>4. Len(AtPlaces(list, S)) = c
  BY <1>1, <1>2 DEF AtPlaces
<1>5. ASSUME NEW j \in 1 .. c, NEW k \in 1 .. c, f[j] = f[k] PROVE j = k
  <2>0. f[j] \in S /\ f[k] \in S
    BY <1>1, <1>2, <1>5
  <2>1. f[j] \in Nat /\ f[k] \in Nat
    <3>1. \A x \in S : x \in Nat
      OBVIOUS
    <3> QED BY <2>0, <3>1, Zenon
  <2>2. ~(j < k) /\ ~(k < j)
    BY <1>1, <1>2, <1>5, <2>1 DEF Increasing
  <2> QED BY <1>1, <1>2, <2>2
<1> QED BY <1>1, <1>2, <1>3, <1>4, <1>5 DEF IsList

(* And they are all the elements at those places.                          *)
LEMMA AtPlacesReach ==
  ASSUME NEW list, NEW n \in Nat, NEW S \in SUBSET (1 .. n), NEW i \in S
  PROVE  \E k \in DOMAIN AtPlaces(list, S) : InOrder(S)[k] = i /\ AtPlaces(list, S)[k] = list[i]
<1> DEFINE c == Cardinality(S)
           f == InOrder(S)
<1>1. c \in Nat /\ f \in [1 .. c -> S]
  BY InOrderIs
<1>2. DOMAIN AtPlaces(list, S) = 1 .. c /\ \A k \in 1 .. c : AtPlaces(list, S)[k] = list[f[k]]
  BY DEF AtPlaces
<1>3. IsFiniteSet(1 .. c) /\ Cardinality(1 .. c) = c
  BY <1>1, FS_Interval
<1>4. IsFiniteSet(S)
  <2>1. IsFiniteSet(1 .. n)
    BY FS_Interval
  <2> QED BY <2>1, FS_Subset
<1>5. f \in Injection(1 .. c, S)
  <2>1. \A j, k \in 1 .. c : f[j] = f[k] => j = k
    BY <1>2, AtPlacesAre
  <2> HIDE DEF c, f
  <2> QED BY <1>1, <2>1 DEF Injection, IsInjective
<1>6. f \in Surjection(1 .. c, S)
  <2>1. Cardinality(1 .. c) = Cardinality(S)
    BY <1>3 DEF c
  <2> HIDE DEF c, f
  <2> QED BY <1>4, <1>5, <2>1, FS_Injection
<1>7. PICK k \in 1 .. c : f[k] = i
  BY <1>6 DEF Surjection
<1> QED BY <1>2, <1>7

(* Every key of a list has a last place.                                   *)
LEMMA LastPlaceIs ==
  ASSUME NEW keys, IsList(keys), NEW i \in DOMAIN keys
  PROVE  /\ LastPlace(keys, keys[i]) \in DOMAIN keys
         /\ keys[LastPlace(keys, keys[i])] = keys[i]
         /\ \A k \in DOMAIN keys : keys[k] = keys[i] => k <= LastPlace(keys, keys[i])
<1> DEFINE T == {d \in Nat : \E j \in DOMAIN keys : keys[j] = keys[i] /\ d = Len(keys) - j}
<1>1. Len(keys) - i \in T
  BY DEF IsList
<1>2. T \in SUBSET Nat /\ T # {}
  BY <1>1
<1>3. PICK d \in T : \A e \in T : d <= e
  <2> HIDE DEF T
  <2> QED BY <1>2, LeastNumber
<1>4. PICK j \in DOMAIN keys : keys[j] = keys[i] /\ d = Len(keys) - j
  BY <1>3
<1>5. ASSUME NEW k \in DOMAIN keys, keys[k] = keys[i] PROVE k <= j
  <2>1. Len(keys) - k \in T
    BY <1>5 DEF IsList
  <2>2. Len(keys) - j <= Len(keys) - k
    BY <1>3, <1>4, <2>1
  <2> QED BY <2>2 DEF IsList
<1> QED BY <1>4, <1>5 DEF LastPlace

(* And a first.                                                            *)
LEMMA FirstPlaceIs ==
  ASSUME NEW keys, IsList(keys), NEW i \in DOMAIN keys
  PROVE  \E j \in FirstPlaces(keys) : keys[j] = keys[i]
<1> DEFINE T == {j \in DOMAIN keys : keys[j] = keys[i]}
<1>1. T \in SUBSET Nat /\ T # {}
  BY DEF IsList
<1>2. PICK j \in T : \A k \in T : j <= k
  <2> HIDE DEF T
  <2> QED BY <1>1, LeastNumber
<1> QED BY <1>2 DEF FirstPlaces

(* A key comes first in one place only.                                    *)
LEMMA FirstIsOne ==
  ASSUME NEW keys, IsList(keys), NEW i \in FirstPlaces(keys), NEW j \in FirstPlaces(keys), keys[i] = keys[j]
  PROVE  i = j
<1>1. i \in Nat /\ j \in Nat /\ i <= j /\ j <= i
  BY DEF FirstPlaces, IsList
<1> QED BY <1>1

(* The kept places are the last of their keys, each key's once.            *)
LEMMA KeptPlacesAre ==
  ASSUME NEW keys, IsList(keys)
  PROVE  LET kept == KeptPlaces(keys) IN
         /\ IsList(kept)
         /\ \A k \in DOMAIN kept : /\ kept[k] \in DOMAIN keys
                                  /\ \A i \in DOMAIN keys : keys[i] = keys[kept[k]] => i <= kept[k]
         /\ \A j, k \in DOMAIN kept : keys[kept[j]] = keys[kept[k]] => j = k
<1> DEFINE lasts == [i \in DOMAIN keys |-> LastPlace(keys, keys[i])]
           S == FirstPlaces(keys)
           kept == AtPlaces(lasts, S)
           place == InOrder(S)
<1>1. Len(keys) \in Nat /\ S \in SUBSET (1 .. Len(keys))
  BY DEF FirstPlaces, IsList
<1>2. /\ IsList(kept)
      /\ \A k \in DOMAIN kept : place[k] \in S /\ kept[k] = lasts[place[k]]
      /\ \A j, k \in DOMAIN kept : place[j] = place[k] => j = k
  <2> HIDE DEF lasts, S
  <2> QED BY <1>1, AtPlacesAre
<1>3. kept = KeptPlaces(keys)
  BY DEF KeptPlaces
<1> HIDE DEF kept, place
<1>4. ASSUME NEW k \in DOMAIN kept
      PROVE  /\ place[k] \in S /\ kept[k] \in DOMAIN keys /\ keys[kept[k]] = keys[place[k]]
             /\ \A i \in DOMAIN keys : keys[i] = keys[kept[k]] => i <= kept[k]
  <2>1. place[k] \in S /\ kept[k] = LastPlace(keys, keys[place[k]]) /\ place[k] \in DOMAIN keys
    BY <1>2, <1>4 DEF FirstPlaces
  <2> QED BY <2>1, LastPlaceIs
<1>5. ASSUME NEW j \in DOMAIN kept, NEW k \in DOMAIN kept, keys[kept[j]] = keys[kept[k]] PROVE j = k
  <2>1. place[j] \in S /\ place[k] \in S /\ keys[place[j]] = keys[place[k]]
    BY <1>4, <1>5
  <2>2. place[j] = place[k]
    BY <2>1, FirstIsOne
  <2> QED BY <1>2, <2>2
<1> QED BY <1>2, <1>3, <1>4, <1>5

(* Without repetitions every place is kept.                                *)
LEMMA KeptAll ==
  ASSUME NEW keys, IsList(keys), \A i, j \in DOMAIN keys : keys[i] = keys[j] => i = j
  PROVE  DOMAIN KeptPlaces(keys) = DOMAIN keys /\ \A k \in DOMAIN keys : KeptPlaces(keys)[k] = k
<1> DEFINE lasts == [i \in DOMAIN keys |-> LastPlace(keys, keys[i])]
<1>1. PICK n \in Nat : n = Len(keys) /\ DOMAIN keys = 1 .. n
  BY DEF IsList
<1>2. FirstPlaces(keys) = 1 .. n
  BY <1>1 DEF FirstPlaces
<1>3. Cardinality(1 .. n) = n
  BY FS_Interval
<1>4. InOrder(1 .. n) \in [1 .. n -> 1 .. n] /\ Increasing(InOrder(1 .. n), n)
  BY <1>3, InOrderIs
<1>5. \A k \in 1 .. n : InOrder(1 .. n)[k] = k
  BY <1>4, AllInOrder
<1>6. ASSUME NEW k \in 1 .. n PROVE lasts[k] = k
  <2>1. LastPlace(keys, keys[k]) = k
    BY <1>1, LastPlaceIs
  <2> QED BY <1>1, <2>1
<1>7. KeptPlaces(keys) = AtPlaces(lasts, 1 .. n)
  BY <1>2 DEF KeptPlaces
<1> HIDE DEF lasts
<1>8. KeptPlaces(keys) = [k \in 1 .. n |-> lasts[InOrder(1 .. n)[k]]]
  BY <1>3, <1>7 DEF AtPlaces
<1> QED BY <1>1, <1>5, <1>6, <1>8

(* How many pieces of at most n are needed for a list.                     *)
LEMMA PieceCount ==
  ASSUME NEW l \in Nat, NEW n \in Nat \ {0}
  PROVE  LET m == (l + n - 1) \div n IN
         /\ m \in Nat /\ m * n >= l /\ (m - 1) * n < l
         /\ l > 0 => m > 0
<1>1. PICK m \in Int : m = (l + n - 1) \div n
  OBVIOUS
<1>2. PICK r \in 0 .. (n - 1) : l + n - 1 = n * m + r
  <2> DEFINE r == (l + n - 1) % n
  <2>1. r \in 0 .. (n - 1) /\ l + n - 1 = n * ((l + n - 1) \div n) + r
    OBVIOUS
  <2> QED BY <1>1, <2>1
<1>3. PICK p \in Int : p = n * m
  BY <1>1
<1>4. m * n = p /\ (m - 1) * n = p - n
  BY <1>1, <1>3
<1>5. p >= l /\ p - n < l
  BY <1>2, <1>3
<1>6. m >= 0
  <2>1. m < 0 => n * m < 0
    BY <1>1
  <2> QED BY <1>1, <1>2, <1>3, <2>1
<1>7. l > 0 => m > 0
  <2>1. m = 0 => p = 0
    BY <1>3
  <2> QED BY <1>1, <1>5, <1>6, <2>1
<1> QED BY <1>1, <1>4, <1>5, <1>6, <1>7

(* A factor that is not smaller gives a product that is not smaller.       *)
LEMMA TimesGrows ==
  ASSUME NEW a \in Int, NEW b \in Int, NEW n \in Nat, a <= b
  PROVE  a * n <= b * n
OBVIOUS

(* Putting the places of a list in order passes through each once.         *)
LEMMA PlacesInOrder ==
  ASSUME NEW n \in Nat, NEW S \in SUBSET (1 .. n)
  PROVE  /\ \A t \in 1 .. Cardinality(S) : InOrder(S)[t] \in S
         /\ \A s, t \in 1 .. Cardinality(S) : InOrder(S)[s] = InOrder(S)[t] => s = t
         /\ \A i \in S : \E t \in 1 .. Cardinality(S) : InOrder(S)[t] = i
<1> DEFINE list == [i \in 1 .. n |-> i]
<1>1. DOMAIN AtPlaces(list, S) = 1 .. Cardinality(S)
  BY DEF AtPlaces
<1> HIDE DEF list
<1>2. /\ \A t \in DOMAIN AtPlaces(list, S) : InOrder(S)[t] \in S
      /\ \A s, t \in DOMAIN AtPlaces(list, S) : InOrder(S)[s] = InOrder(S)[t] => s = t
  BY AtPlacesAre
<1>3. ASSUME NEW i \in S PROVE \E t \in DOMAIN AtPlaces(list, S) : InOrder(S)[t] = i
  <2>1. PICK t \in DOMAIN AtPlaces(list, S) : InOrder(S)[t] = i /\ AtPlaces(list, S)[t] = list[i]
    BY AtPlacesReach
  <2> QED BY <2>1
<1> QED BY <1>1, <1>2, <1>3

(* Lists with the same places are as long.                                 *)
LEMMA SameLength ==
  ASSUME NEW us, IsList(us), NEW vs, IsList(vs), DOMAIN vs = DOMAIN us
  PROVE  Len(vs) = Len(us)
<1>1. PICK a \in Nat, b \in Nat : a = Len(us) /\ b = Len(vs) /\ 1 .. a = 1 .. b
  BY DEF IsList
<1>2. a > 0 => a \in 1 .. b
  BY <1>1
<1>3. b > 0 => b \in 1 .. a
  BY <1>1
<1> QED BY <1>1, <1>2, <1>3

(* A list has finitely many elements.                                      *)
LEMMA FiniteRange ==
  ASSUME NEW s, IsList(s)
  PROVE  IsFiniteSet(Range(s))
<1>1. PICK n \in Nat : DOMAIN s = 1 .. n
  BY DEF IsList
<1> DEFINE f == [i \in 1 .. n |-> s[i]]
<1>2. f \in Surjection(1 .. n, Range(s))
  BY <1>1 DEF Surjection, Range
<1>3. IsFiniteSet(1 .. n)
  BY FS_Interval
<1> HIDE DEF f
<1> QED BY <1>2, <1>3, FS_Surjection

-----------------------------------------------------------------------------
(* Sums along a trail that goes forward by s[i] from place i, up to place m. *)
IsTrail(g, c, s, m, d) == g = [i \in d .. m + 1 |-> IF i > m THEN 0 ELSE c[i] + g[i + s[i]]]

(* There is such a sum, whatever the trail: from its end backwards.         *)
LEMMA TrailExists ==
  ASSUME NEW m \in Nat, NEW c, NEW s, \A i \in 1 .. m : c[i] \in Nat /\ s[i] \in 1 .. m + 1 - i
  PROVE  \E g \in [1 .. m + 1 -> Nat] : IsTrail(g, c, s, m, 1)
<1> DEFINE Bad == {k \in Nat : k <= m /\ ~ \E g \in [m + 1 - k .. m + 1 -> Nat] : IsTrail(g, c, s, m, m + 1 - k)}
<1>1. 0 \notin Bad
  <2> DEFINE g == [i \in m + 1 .. m + 1 |-> 0]
  <2>1. g \in [m + 1 .. m + 1 -> Nat] /\ IsTrail(g, c, s, m, m + 1)
    BY DEF IsTrail
  <2>2. m + 1 - 0 = m + 1
    OBVIOUS
  <2> HIDE DEF g
  <2> QED BY <2>1, <2>2
<1>2. ASSUME NEW k \in Nat, k \notin Bad PROVE k + 1 \notin Bad
  <2> SUFFICES ASSUME k + 1 <= m
               PROVE  \E g \in [m + 1 - (k + 1) .. m + 1 -> Nat] : IsTrail(g, c, s, m, m + 1 - (k + 1))
    OBVIOUS
  <2> DEFINE d == m - k
  <2>1. d \in 1 .. m /\ m + 1 - (k + 1) = d /\ m + 1 - k = d + 1
    OBVIOUS
  <2>2. PICK g \in [d + 1 .. m + 1 -> Nat] : IsTrail(g, c, s, m, d + 1)
    BY <1>2, <2>1
  <2> HIDE DEF d, Bad
  <2> DEFINE h == [i \in d .. m + 1 |-> IF i > m THEN 0 ELSE c[i] + g[i + s[i]]]
  <2>3. \A i \in d .. m : i + s[i] \in d + 1 .. m + 1 /\ c[i] \in Nat
    BY <2>1
  <2>4. h \in [d .. m + 1 -> Nat]
    BY <2>1, <2>2, <2>3
  <2>5. \A i \in d + 1 .. m + 1 : g[i] = IF i > m THEN 0 ELSE c[i] + g[i + s[i]]
    BY <2>2 DEF IsTrail
  <2>6. \A i \in d + 1 .. m + 1 : i \in d .. m + 1 /\ h[i] = g[i]
    BY <2>1, <2>5
  <2>7. \A i \in d .. m + 1 : h[i] = IF i > m THEN 0 ELSE c[i] + g[i + s[i]]
    OBVIOUS
  <2> HIDE DEF h
  <2>9. \A i \in d .. m + 1 : i > m \/ h[i + s[i]] = g[i + s[i]]
    <3> SUFFICES ASSUME NEW i \in d .. m PROVE h[i + s[i]] = g[i + s[i]]
      BY <2>1
    <3>1. i + s[i] \in d + 1 .. m + 1
      BY <2>3
    <3> QED BY <2>6, <3>1
  <2>10. \A i \in d .. m + 1 : h[i] = IF i > m THEN 0 ELSE c[i] + h[i + s[i]]
    BY <2>7, <2>9
  <2>8. IsTrail(h, c, s, m, d)
    BY <2>4, <2>10 DEF IsTrail
  <2> QED BY <2>1, <2>4, <2>8
<1>3. Bad = {}
  <2>1. Bad \in SUBSET Nat
    OBVIOUS
  <2> HIDE DEF Bad
  <2> QED BY <1>1, <1>2, <2>1, NoCounterexample
<1>4. m \notin Bad /\ m + 1 - m = 1
  <2> HIDE DEF Bad
  <2> QED BY <1>3
<1>5. \E g \in [m + 1 - m .. m + 1 -> Nat] : IsTrail(g, c, s, m, m + 1 - m)
  BY <1>4
<1> QED BY <1>4, <1>5

(* The greatest number of a set that has a bound.                           *)
LEMMA GreatestNumber ==
  ASSUME NEW m \in Nat, NEW T \in SUBSET (0 .. m), T # {}
  PROVE  \E n \in T : \A x \in T : x <= n
<1> DEFINE D == {m - x : x \in T}
<1>1. D \in SUBSET Nat /\ D # {}
  <2>1. \A x \in T : m - x \in Nat
    OBVIOUS
  <2> QED BY <2>1
<1>2. PICK k \in D : \A y \in D : k <= y
  <2> HIDE DEF D
  <2> QED BY <1>1, LeastNumber
<1>3. PICK n \in T : k = m - n
  BY <1>2
<1>4. \A x \in T : m - n <= m - x
  BY <1>2, <1>3
<1>5. \A x \in T : x <= n
  BY <1>4
<1> QED BY <1>5
=============================================================================
