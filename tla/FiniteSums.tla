------------------------------ MODULE FiniteSums ------------------------------
(***************************************************************************)
(* Sums over finite sets: what the totals of the safety modules            *)
(* (SumFunctionOnSet of the community modules) are when one summand comes, *)
(* goes or changes.  A sum of naturals is the size of a set of units, one  *)
(* unit for each x and each number below f[x]: the recursion that defines  *)
(* the sum has that size as its only solution, whatever the order in which *)
(* CHOOSE takes the elements, and sizes obey the theorems on finite sets.  *)
(***************************************************************************)
EXTENDS Integers, FiniteSets, Functions, FiniteSetTheorems, TLAPS

\* The element the sum takes first, and the equation its recursion solves.
Chosen(s) == CHOOSE x \in s : TRUE

SumsUp(g, f, S) ==
  g = [s \in SUBSET S |-> IF s = {} THEN 0 ELSE f[Chosen(s)] + g[s \ {Chosen(s)}]]

Units(f, s) == {p \in s \X Nat : p[2] < f[p[1]]}

AllNat(f, S) == \A x \in S : f[x] \in Nat

\* The community operator, with its recursion named.
LEMMA SumDef == \A f, S : SumFunctionOnSet(f, S) = (CHOOSE g : SumsUp(g, f, S))[S]
  BY Zenon DEF SumFunctionOnSet, FoldFunctionOnSet, MapThenFoldSet, SumsUp, Chosen

\* Induction over the subsets of a finite set, as the minimal counterexample it needs.
LEMMA MinimalSubset ==
  ASSUME NEW S, IsFiniteSet(S), NEW B \in SUBSET (SUBSET S), B # {}
  PROVE  \E m \in B : \A s \in B : s \subseteq m => s = m
<1>1. IsWellFoundedOn(StrictSubsetOrdering(S), SUBSET S)
  BY FS_StrictSubsetOrderingWellFounded, FS_FiniteSubsetsOfFinite
<1>2. PICK m \in B : \A s \in B : ~(<<s, m>> \in StrictSubsetOrdering(S))
  BY <1>1, WFMin, Zenon
<1>3. ASSUME NEW s \in B, s \subseteq m PROVE s = m
  BY <1>2, <1>3 DEF StrictSubsetOrdering
<1> QED BY <1>3

\* An element brings as many units as its summand says.
LEMMA UnitsOfOne ==
  ASSUME NEW S, NEW f, AllNat(f, S), NEW s \in SUBSET S, NEW x \in s,
         IsFiniteSet(Units(f, s \ {x}))
  PROVE  /\ IsFiniteSet(Units(f, s))
         /\ Cardinality(Units(f, s)) = f[x] + Cardinality(Units(f, s \ {x}))
<1> DEFINE U == Units(f, s \ {x})
           V == {x} \X (0..(f[x] - 1))
<1>0. f[x] \in Nat
  BY DEF AllNat
<1>1. Units(f, s) = U \cup V
  BY <1>0 DEF Units
<1>2. U \cap V = {}
  BY DEF Units
<1>3. /\ IsFiniteSet(0..(f[x] - 1)) /\ Cardinality(0..(f[x] - 1)) = f[x]
  BY <1>0, FS_Interval
<1>4. IsFiniteSet({x}) /\ Cardinality({x}) = 1
  BY FS_Singleton
<1>5. IsFiniteSet(V) /\ Cardinality(V) = f[x]
  <2>1. /\ IsFiniteSet(V)
        /\ Cardinality(V) = Cardinality({x}) * Cardinality(0..(f[x] - 1))
    BY <1>3, <1>4, FS_Product, Zenon
  <2> HIDE DEF V
  <2> QED BY <1>0, <1>3, <1>4, <2>1
<1>6. /\ IsFiniteSet(U \cup V)
      /\ Cardinality(U \cup V) = Cardinality(U) + Cardinality(V) - Cardinality(U \cap V)
  BY <1>5, FS_Union, Zenon
<1>7. Cardinality(U \cap V) = 0
  BY <1>2, FS_EmptySet
<1>8. Cardinality(U) \in Nat
  BY FS_CardinalityType
<1> QED BY <1>0, <1>1, <1>5, <1>6, <1>7, <1>8

LEMMA UnitsOfNone == \A f : Units(f, {}) = {} /\ Cardinality(Units(f, {})) = 0
<1>1. \A f : Units(f, {}) = {}
  BY DEF Units
<1> QED BY <1>1, FS_EmptySet

LEMMA UnitsFinite ==
  ASSUME NEW S, IsFiniteSet(S), NEW f, AllNat(f, S)
  PROVE  \A s \in SUBSET S : IsFiniteSet(Units(f, s))
<1> DEFINE B == {s \in SUBSET S : ~IsFiniteSet(Units(f, s))}
<1>1. SUFFICES ASSUME B # {} PROVE FALSE
  OBVIOUS
<1>2. PICK m \in B : \A s \in B : s \subseteq m => s = m
  <2>1. B \in SUBSET (SUBSET S)
    OBVIOUS
  <2> HIDE DEF B
  <2> QED BY <1>1, <2>1, MinimalSubset
<1>3. CASE m = {}
  BY <1>3, UnitsOfNone, FS_EmptySet
<1>4. CASE m # {}
  <2>1. PICK x \in m : TRUE
    BY <1>4
  <2>2. IsFiniteSet(Units(f, m \ {x}))
    BY <1>2, <2>1
  <2> QED BY <2>1, <2>2, UnitsOfOne
<1> QED BY <1>3, <1>4

\* The sizes of the sets of units solve the recursion of the sum.
LEMMA UnitsSumUp ==
  ASSUME NEW S, IsFiniteSet(S), NEW f, AllNat(f, S)
  PROVE  SumsUp([s \in SUBSET S |-> Cardinality(Units(f, s))], f, S)
<1> DEFINE c == [s \in SUBSET S |-> Cardinality(Units(f, s))]
<1>1. ASSUME NEW s \in SUBSET S, s = {} PROVE c[s] = 0
  BY <1>1, UnitsOfNone
<1>2. ASSUME NEW s \in SUBSET S, s # {} PROVE c[s] = f[Chosen(s)] + c[s \ {Chosen(s)}]
  <2>1. Chosen(s) \in s
    BY <1>2 DEF Chosen
  <2>2. IsFiniteSet(Units(f, s \ {Chosen(s)}))
    BY UnitsFinite
  <2> QED BY <2>1, <2>2, UnitsOfOne
<1>3. c = [s \in SUBSET S |-> c[s]]
  OBVIOUS
<1> HIDE DEF c
<1>4. SumsUp(c, f, S)
  BY <1>1, <1>2, <1>3, Zenon DEF SumsUp
<1> QED BY <1>4 DEF c

\* The recursion of a sum has one solution.
LEMMA OneSum ==
  ASSUME NEW S, IsFiniteSet(S), NEW f, NEW g, SumsUp(g, f, S), NEW h, SumsUp(h, f, S)
  PROVE  g[S] = h[S]
<1> DEFINE B == {s \in SUBSET S : g[s] # h[s]}
<1>1. SUFFICES ASSUME B # {} PROVE FALSE
  OBVIOUS
<1>2. PICK m \in B : \A s \in B : s \subseteq m => s = m
  <2>1. B \in SUBSET (SUBSET S)
    OBVIOUS
  <2> HIDE DEF B
  <2> QED BY <1>1, <2>1, MinimalSubset
<1>3. \A k : SumsUp(k, f, S) => /\ m = {} => k[m] = 0
                                /\ m # {} => k[m] = f[Chosen(m)] + k[m \ {Chosen(m)}]
  <2>1. m \in SUBSET S
    OBVIOUS
  <2> HIDE DEF B
  <2> QED BY <2>1, Zenon DEF SumsUp
<1>4. CASE m = {}
  BY <1>3, <1>4
<1>5. CASE m # {}
  <2>1. Chosen(m) \in m
    BY <1>5 DEF Chosen
  <2>2. g[m \ {Chosen(m)}] = h[m \ {Chosen(m)}]
    BY <1>2, <2>1
  <2> QED BY <1>3, <1>5, <2>2
<1> QED BY <1>4, <1>5

LEMMA SumIsUnits ==
  ASSUME NEW S, IsFiniteSet(S), NEW f, AllNat(f, S)
  PROVE  SumFunctionOnSet(f, S) = Cardinality(Units(f, S))
<1> DEFINE c == [s \in SUBSET S |-> Cardinality(Units(f, s))]
           g == CHOOSE g : SumsUp(g, f, S)
<1>1. c[S] = Cardinality(Units(f, S))
  OBVIOUS
<1> HIDE DEF c
<1>2. SumsUp(c, f, S)
  BY UnitsSumUp DEF c
<1>3. SumsUp(g, f, S)
  BY <1>2, Zenon
<1> HIDE DEF g
<1>4. g[S] = c[S]
  BY <1>2, <1>3, OneSum, Zenon
<1> QED BY <1>1, <1>4, SumDef DEF g

-------------------------------------------------------------------------------
\* A sum of naturals is a natural.
LEMMA SumNat ==
  ASSUME NEW S, IsFiniteSet(S), NEW f, AllNat(f, S)
  PROVE  SumFunctionOnSet(f, S) \in Nat
BY SumIsUnits, UnitsFinite, FS_CardinalityType

LEMMA SumEmpty == \A f : SumFunctionOnSet(f, {}) = 0
BY SumIsUnits, UnitsOfNone, FS_EmptySet DEF AllNat

\* A sum sees of f only what f is on the set.
LEMMA SumSame ==
  ASSUME NEW S, IsFiniteSet(S), NEW f, AllNat(f, S), NEW g, \A x \in S : f[x] = g[x]
  PROVE  SumFunctionOnSet(f, S) = SumFunctionOnSet(g, S)
<1>1. AllNat(g, S)
  BY DEF AllNat
<1>2. Units(f, S) = Units(g, S)
  BY DEF Units
<1> QED BY <1>1, <1>2, SumIsUnits

\* Taking one element out.
LEMMA SumRemove ==
  ASSUME NEW S, IsFiniteSet(S), NEW f, AllNat(f, S), NEW x \in S
  PROVE  SumFunctionOnSet(f, S) = f[x] + SumFunctionOnSet(f, S \ {x})
<1>1. IsFiniteSet(S \ {x}) /\ AllNat(f, S \ {x})
  BY FS_RemoveElement DEF AllNat
<1>2. IsFiniteSet(Units(f, S \ {x}))
  BY UnitsFinite
<1> QED BY <1>1, <1>2, UnitsOfOne, SumIsUnits

\* Putting one element in.
LEMMA SumAdd ==
  ASSUME NEW S, IsFiniteSet(S), NEW f, NEW x, x \notin S, AllNat(f, S \cup {x})
  PROVE  SumFunctionOnSet(f, S \cup {x}) = f[x] + SumFunctionOnSet(f, S)
<1>1. IsFiniteSet(S \cup {x}) /\ (S \cup {x}) \ {x} = S
  BY FS_AddElement
<1> QED BY <1>1, SumRemove

\* Two sets and two functions that differ at one element only: their sums differ by
\* that element's summands.
LEMMA SumChange ==
  ASSUME NEW S, IsFiniteSet(S), NEW T, NEW x, S \ {x} = T \ {x},
         NEW f, AllNat(f, S), NEW g, AllNat(g, T), \A y \in S \ {x} : f[y] = g[y]
  PROVE  /\ IsFiniteSet(T) /\ SumFunctionOnSet(f, S) \in Nat /\ SumFunctionOnSet(g, T) \in Nat
         /\ SumFunctionOnSet(g, T) + (IF x \in S THEN f[x] ELSE 0) =
              SumFunctionOnSet(f, S) + (IF x \in T THEN g[x] ELSE 0)
<1> DEFINE R == S \ {x}
<1>1. IsFiniteSet(R) /\ IsFiniteSet(T)
  <2>1. IsFiniteSet(R)
    BY FS_RemoveElement
  <2>2. T = R \/ T = R \cup {x}
    OBVIOUS
  <2> HIDE DEF R
  <2> QED BY <2>1, <2>2, FS_AddElement
<1>2. AllNat(f, R) /\ AllNat(g, R)
  BY DEF AllNat
<1>3. /\ SumFunctionOnSet(f, R) = SumFunctionOnSet(g, R)
      /\ SumFunctionOnSet(f, R) \in Nat
  BY <1>1, <1>2, SumSame, SumNat
<1>4. SumFunctionOnSet(f, S) = SumFunctionOnSet(f, R) + (IF x \in S THEN f[x] ELSE 0)
  <2>1. CASE x \in S
    BY <1>3, <2>1, SumRemove DEF AllNat
  <2>2. CASE x \notin S
    <3>1. R = S
      BY <2>2
    <3> QED BY <1>3, <2>2, <3>1
  <2> QED BY <2>1, <2>2
<1>5. SumFunctionOnSet(g, T) = SumFunctionOnSet(g, R) + (IF x \in T THEN g[x] ELSE 0)
  <2>1. CASE x \in T
    BY <1>1, <1>3, <2>1, SumRemove DEF AllNat
  <2>2. CASE x \notin T
    <3>1. R = T
      BY <2>2
    <3> QED BY <1>3, <1>1, <1>2, <2>2, <3>1
  <2> QED BY <2>1, <2>2
<1>6. (x \in S => f[x] \in Nat) /\ (x \in T => g[x] \in Nat)
  BY DEF AllNat
<1>7. SumFunctionOnSet(f, S) \in Nat /\ SumFunctionOnSet(g, T) \in Nat
  BY <1>1, SumNat
<1> HIDE DEF R
<1> QED BY <1>1, <1>3, <1>4, <1>5, <1>6, <1>7

\* A larger set has no smaller sum.
LEMMA SumMonotone ==
  ASSUME NEW S, IsFiniteSet(S), NEW f, AllNat(f, S), NEW T \in SUBSET S
  PROVE  SumFunctionOnSet(f, T) <= SumFunctionOnSet(f, S)
<1>1. IsFiniteSet(T) /\ AllNat(f, T)
  BY FS_Subset DEF AllNat
<1>2. Units(f, T) \in SUBSET Units(f, S)
  BY DEF Units
<1>3. IsFiniteSet(Units(f, S))
  BY UnitsFinite
<1> QED BY <1>1, <1>2, <1>3, FS_Subset, SumIsUnits

LEMMA SumOfZeros ==
  ASSUME NEW S, IsFiniteSet(S), NEW f, \A x \in S : f[x] = 0
  PROVE  SumFunctionOnSet(f, S) = 0
<1>1. AllNat(f, S) /\ Units(f, S) = {}
  BY DEF AllNat, Units
<1> QED
  BY <1>1, SumIsUnits, FS_EmptySet

\* A sum in two parts.
LEMMA SumSplit ==
  ASSUME NEW S, IsFiniteSet(S), NEW f, AllNat(f, S), NEW T \in SUBSET S
  PROVE  /\ SumFunctionOnSet(f, T) \in Nat /\ SumFunctionOnSet(f, S \ T) \in Nat
         /\ SumFunctionOnSet(f, S) = SumFunctionOnSet(f, T) + SumFunctionOnSet(f, S \ T)
<1> DEFINE R == S \ T
<1>1. IsFiniteSet(T) /\ AllNat(f, T) /\ IsFiniteSet(R) /\ AllNat(f, R)
  BY FS_Subset DEF AllNat
<1>2. Units(f, S) = Units(f, T) \cup Units(f, R) /\ Units(f, T) \cap Units(f, R) = {}
  BY DEF Units
<1> HIDE DEF R
<1>3. IsFiniteSet(Units(f, T)) /\ IsFiniteSet(Units(f, R))
  BY <1>1, UnitsFinite
<1>4. /\ Cardinality(Units(f, T)) \in Nat /\ Cardinality(Units(f, R)) \in Nat
      /\ Cardinality(Units(f, T) \cap Units(f, R)) = 0
  BY <1>2, <1>3, FS_CardinalityType, FS_EmptySet
<1>5. Cardinality(Units(f, S)) = Cardinality(Units(f, T)) + Cardinality(Units(f, R))
  <2>1. Cardinality(Units(f, T) \cup Units(f, R)) =
          Cardinality(Units(f, T)) + Cardinality(Units(f, R)) - Cardinality(Units(f, T) \cap Units(f, R))
    BY <1>3, FS_Union, Zenon
  <2> QED
    BY <1>2, <1>4, <2>1
<1>6. /\ SumFunctionOnSet(f, S) = Cardinality(Units(f, S))
      /\ SumFunctionOnSet(f, T) = Cardinality(Units(f, T))
      /\ SumFunctionOnSet(f, R) = Cardinality(Units(f, R))
  BY <1>1, SumIsUnits
<1> QED
  BY <1>4, <1>5, <1>6 DEF R
===============================================================================
