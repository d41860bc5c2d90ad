---------------------------- MODULE NumberProofs ----------------------------
(***************************************************************************)
(* Facts that every component's proofs rest on: induction, stated about    *)
(* sets so that the provers can use it, sums over finite sets, lists of    *)
(* anything, and ledger time for any number of ticks per second.           *)
(***************************************************************************)
EXTENDS WholeSeconds, FiniteSetsExt, FiniteSetTheorems, SequenceTheorems, WellFoundedInduction, TLAPS

-----------------------------------------------------------------------------
(* Induction. *)

\* A set of naturals that is not empty has a least element.
LEMMA LeastNat ==
  ASSUME NEW T, T \subseteq Nat, T # {}
  PROVE  \E m \in T : \A k \in T : m <= k
<1> DEFINE less == {ss \in Nat \X Nat : ss[1] < ss[2]}
<1>1. IsWellFoundedOn(less, Nat)
  BY NatLessThanWellFounded DEF OpToRel
<1> HIDE DEF less
<1>2. PICK m \in T : \A k \in T : ~(<<k, m>> \in less)
  BY <1>1, WFMin
<1>3. \A k \in T : ~(k < m)
  BY <1>2 DEF less
<1>4. QED BY <1>3

\* A set that has 0 and, with any natural, the next one, has them all.
LEMMA NatInductionSet ==
  ASSUME NEW S, 0 \in S, \A n \in Nat : n \in S => n + 1 \in S
  PROVE  Nat \subseteq S
<1>1. SUFFICES ASSUME Nat \ S # {} PROVE FALSE
  OBVIOUS
<1>2. PICK m \in Nat \ S : \A k \in Nat \ S : m <= k
  BY <1>1, LeastNat
<1>3. m # 0 /\ m - 1 \in Nat /\ m - 1 \in S
  BY <1>2
<1>4. QED BY <1>2, <1>3

\* A collection F that has the empty set and, with any part of a finite set S,
\* that part and one element more, has S.
LEMMA FiniteInduction ==
  ASSUME NEW S, IsFiniteSet(S), NEW F, {} \in F,
         \A T \in SUBSET S : \A x \in S \ T : T \in F => T \cup {x} \in F
  PROVE  S \in F
<1> DEFINE N == {n \in Nat : \A T \in SUBSET S : Cardinality(T) = n => T \in F}
<1>1. \A T \in SUBSET S : IsFiniteSet(T) /\ Cardinality(T) \in Nat
  BY FS_Subset, FS_CardinalityType
<1>2. 0 \in N
  BY <1>1, FS_EmptySet
<1>3. ASSUME NEW n \in Nat, n \in N PROVE n + 1 \in N
  <2> SUFFICES ASSUME NEW T \in SUBSET S, Cardinality(T) = n + 1 PROVE T \in F
    OBVIOUS
  <2>1. PICK x \in T : TRUE
    BY <1>1, FS_EmptySet
  <2>2. Cardinality(T \ {x}) = n
    <3>1. IsFiniteSet(T)
      BY <1>1
    <3>2. Cardinality(T \ {x}) = Cardinality(T) - 1
      BY <2>1, <3>1, FS_RemoveElement
    <3>3. QED BY <3>2
  <2>3. T \ {x} \in F
    BY <1>3, <2>2
  <2>4. (T \ {x}) \cup {x} = T
    BY <2>1
  <2> DEFINE U == T \ {x}
  <2>5. U \in SUBSET S /\ x \in S \ U /\ U \in F /\ U \cup {x} = T
    BY <2>1, <2>3, <2>4
  <2> HIDE DEF U
  <2>6. QED BY <2>5
<1> HIDE DEF N
<1>4. Cardinality(S) \in N
  BY <1>1, <1>2, <1>3, NatInductionSet
<1>5. QED BY <1>4 DEF N

-----------------------------------------------------------------------------
(* Sums over finite sets: MapThenSumSet for a function. *)

SumOf(f, S) == MapThenSumSet(LAMBDA x : f[x], S)

\* The equation of the sum, for a function g of the parts of S.
Summed(f, g, s) ==
  IF s = {} THEN 0 ELSE f[CHOOSE x \in s : TRUE] + g[s \ {CHOOSE x \in s : TRUE}]

IsSum(f, S, g) == g = [s \in SUBSET S |-> Summed(f, g, s)]

LEMMA SumIsChosen ==
  ASSUME NEW f, NEW S
  PROVE  SumOf(f, S) = (CHOOSE g : IsSum(f, S, g))[S]
BY DEF SumOf, MapThenSumSet, MapThenFoldSet, IsSum, Summed

\* The equation has a solution, one size of part after the other.
LEMMA SumExists ==
  ASSUME NEW S, IsFiniteSet(S), NEW f
  PROVE  \E g : IsSum(f, S, g)
<1> DEFINE Solves(g, n) == \A T \in SUBSET S : Cardinality(T) <= n => g[T] = Summed(f, g, T)
           N == {n \in Nat : \E g : Solves(g, n)}
<1>1. \A T \in SUBSET S : IsFiniteSet(T) /\ Cardinality(T) \in Nat
  BY FS_Subset, FS_CardinalityType
<1>2. \A T \in SUBSET S : Cardinality(T) = 0 => T = {}
  BY <1>1, FS_EmptySet
<1>3. ASSUME NEW T \in SUBSET S, T # {}
      PROVE  LET c == CHOOSE x \in T : TRUE
             IN  T \ {c} \in SUBSET S /\ Cardinality(T \ {c}) = Cardinality(T) - 1
  <2>1. (CHOOSE x \in T : TRUE) \in T
    BY <1>3
  <2>2. QED BY <1>1, <2>1, FS_RemoveElement
<1>4. 0 \in N
  <2> DEFINE g == [T \in SUBSET S |-> 0]
  <2>1. Solves(g, 0)
    BY <1>1, <1>2 DEF Summed
  <2>2. QED BY <2>1
<1>5. ASSUME NEW n \in Nat, n \in N PROVE n + 1 \in N
  <2>1. PICK g : Solves(g, n)
    BY <1>5
  <2> DEFINE h == [T \in SUBSET S |-> IF Cardinality(T) <= n THEN g[T] ELSE Summed(f, g, T)]
  <2>2. ASSUME NEW T \in SUBSET S, Cardinality(T) <= n + 1
        PROVE  h[T] = Summed(f, h, T)
    <3>1. h[T] = Summed(f, g, T)
      BY <2>1
    <3>2. Summed(f, g, T) = Summed(f, h, T)
      <4>1. CASE T = {}
        BY <4>1 DEF Summed
      <4>2. CASE T # {}
        <5> DEFINE U == T \ {CHOOSE x \in T : TRUE}
        <5>1. U \in SUBSET S /\ Cardinality(U) <= n
          BY <1>1, <1>3, <2>2, <4>2
        <5>2. h[U] = g[U]
          BY <5>1
        <5> HIDE DEF h
        <5>3. QED BY <5>2 DEF Summed
      <4>3. QED BY <4>1, <4>2
    <3>3. QED BY <3>1, <3>2
  <2> HIDE DEF h
  <2>3. Solves(h, n + 1)
    BY <2>2
  <2>4. QED BY <2>3
<1> HIDE DEF N
<1>6. Cardinality(S) \in N
  BY <1>1, <1>4, <1>5, NatInductionSet
<1>7. PICK g : Solves(g, Cardinality(S))
  BY <1>6 DEF N
<1>8. \A T \in SUBSET S : g[T] = Summed(f, g, T)
  <2>1. \A T \in SUBSET S : Cardinality(T) <= Cardinality(S)
    BY FS_Subset
  <2>2. QED BY <1>7, <2>1
<1> DEFINE h == [T \in SUBSET S |-> g[T]]
<1>9. \A T \in SUBSET S : h[T] = Summed(f, h, T)
  <2>1. ASSUME NEW T \in SUBSET S PROVE Summed(f, g, T) = Summed(f, h, T)
    <3>1. T # {} => T \ {CHOOSE x \in T : TRUE} \in SUBSET S
      OBVIOUS
    <3>2. QED BY <3>1 DEF Summed
  <2>2. QED BY <1>8, <2>1
<1>10. IsSum(f, S, h)
  BY <1>9 DEF IsSum
<1>11. QED BY <1>10

\* ... and one only, whatever larger set it is a solution for.
LEMMA SumIsUnique ==
  ASSUME NEW S, IsFiniteSet(S), NEW f, NEW g, IsSum(f, S, g),
         NEW T \in SUBSET S, NEW h, IsSum(f, T, h)
  PROVE  \A U \in SUBSET T : g[U] = h[U]
<1> DEFINE N == {n \in Nat : \A U \in SUBSET T : Cardinality(U) = n => g[U] = h[U]}
<1>1. \A U \in SUBSET T : IsFiniteSet(U) /\ Cardinality(U) \in Nat
  BY FS_Subset, FS_CardinalityType
<1>2. \A U \in SUBSET T : g[U] = Summed(f, g, U) /\ h[U] = Summed(f, h, U)
  BY DEF IsSum
<1>3. 0 \in N
  <2>1. \A U \in SUBSET T : Cardinality(U) = 0 => U = {}
    BY <1>1, FS_EmptySet
  <2>2. QED BY <1>2, <2>1 DEF Summed
<1>4. ASSUME NEW n \in Nat, n \in N PROVE n + 1 \in N
  <2> SUFFICES ASSUME NEW U \in SUBSET T, Cardinality(U) = n + 1 PROVE g[U] = h[U]
    OBVIOUS
  <2> DEFINE c == CHOOSE x \in U : TRUE
             V == U \ {c}
  <2>1. U # {}
    BY FS_EmptySet
  <2>2. V \in SUBSET T /\ Cardinality(V) = n
    <3>1. c \in U /\ IsFiniteSet(U)
      BY <1>1, <2>1
    <3> HIDE DEF c
    <3>2. Cardinality(U \ {c}) = Cardinality(U) - 1
      BY <3>1, FS_RemoveElement
    <3>3. QED BY <3>2
  <2>3. g[V] = h[V]
    BY <1>4, <2>2
  <2>4. QED BY <1>2, <2>1, <2>3 DEF Summed
<1> HIDE DEF N
<1>5. Nat \subseteq N
  BY <1>3, <1>4, NatInductionSet
<1>6. QED BY <1>1, <1>5 DEF N

\* Any solution gives the sum.
LEMMA SumIs ==
  ASSUME NEW S, IsFiniteSet(S), NEW f, NEW g, IsSum(f, S, g), NEW T \in SUBSET S
  PROVE  g[T] = SumOf(f, T)
<1>1. IsFiniteSet(T)
  BY FS_Subset
<1>2. PICK h : h = CHOOSE k : IsSum(f, T, k)
  OBVIOUS
<1>3. IsSum(f, T, h)
  BY <1>1, <1>2, SumExists
<1>4. g[T] = h[T]
  BY <1>3, SumIsUnique
<1>5. QED BY <1>2, <1>4, SumIsChosen

LEMMA SumEmpty ==
  ASSUME NEW f
  PROVE  SumOf(f, {}) = 0
<1>1. PICK g : IsSum(f, {}, g)
  BY SumExists, FS_EmptySet
<1>2. g[{}] = 0
  BY <1>1 DEF IsSum, Summed
<1>3. QED BY <1>1, <1>2, SumIs, FS_EmptySet

LEMMA SumOfChoice ==
  ASSUME NEW f, NEW S, IsFiniteSet(S), S # {}
  PROVE  LET c == CHOOSE x \in S : TRUE IN SumOf(f, S) = f[c] + SumOf(f, S \ {c})
<1> DEFINE c == CHOOSE x \in S : TRUE
<1>1. PICK g : IsSum(f, S, g)
  BY SumExists
<1>2. g[S] = f[c] + g[S \ {c}]
  BY <1>1 DEF IsSum, Summed
<1>3. g[S] = SumOf(f, S) /\ g[S \ {c}] = SumOf(f, S \ {c})
  <2>1. S \in SUBSET S /\ S \ {c} \in SUBSET S
    OBVIOUS
  <2> HIDE DEF c
  <2>2. QED BY <1>1, <2>1, SumIs
<1>4. QED BY <1>2, <1>3

LEMMA SumType ==
  ASSUME NEW S, IsFiniteSet(S), NEW f, \A x \in S : f[x] \in Int
  PROVE  SumOf(f, S) \in Int
<1> DEFINE N == {n \in Nat : \A T \in SUBSET S : Cardinality(T) = n => SumOf(f, T) \in Int}
<1>1. \A T \in SUBSET S : IsFiniteSet(T) /\ Cardinality(T) \in Nat
  BY FS_Subset, FS_CardinalityType
<1>2. 0 \in N
  <2>1. \A T \in SUBSET S : Cardinality(T) = 0 => T = {}
    BY <1>1, FS_EmptySet
  <2>2. QED BY <2>1, SumEmpty
<1>3. ASSUME NEW n \in Nat, n \in N PROVE n + 1 \in N
  <2> SUFFICES ASSUME NEW T \in SUBSET S, Cardinality(T) = n + 1 PROVE SumOf(f, T) \in Int
    OBVIOUS
  <2> DEFINE c == CHOOSE x \in T : TRUE
             U == T \ {c}
  <2>1. T # {} /\ IsFiniteSet(T)
    BY <1>1, FS_EmptySet
  <2>2. SumOf(f, T) = f[c] + SumOf(f, U)
    BY <2>1, SumOfChoice
  <2>3. c \in T
    BY <2>1
  <2> HIDE DEF c
  <2>4. Cardinality(U) = n
    <3>1. Cardinality(U) = Cardinality(T) - 1
      BY <2>1, <2>3, FS_RemoveElement
    <3>2. QED BY <3>1
  <2>5. QED BY <1>3, <2>2, <2>3, <2>4
<1> HIDE DEF N
<1>4. Cardinality(S) \in N
  BY <1>1, <1>2, <1>3, NatInductionSet
<1>5. QED BY <1>4 DEF N

\* The order in which the elements are added does not matter.
LEMMA SumSplit ==
  ASSUME NEW S, IsFiniteSet(S), NEW f, \A x \in S : f[x] \in Int, NEW e \in S
  PROVE  SumOf(f, S) = f[e] + SumOf(f, S \ {e})
<1> DEFINE N == {n \in Nat : \A T \in SUBSET S : Cardinality(T) = n =>
                   \A x \in T : SumOf(f, T) = f[x] + SumOf(f, T \ {x})}
<1>1. \A T \in SUBSET S : IsFiniteSet(T) /\ Cardinality(T) \in Nat /\ SumOf(f, T) \in Int
  <2>1. \A T \in SUBSET S : IsFiniteSet(T) /\ Cardinality(T) \in Nat
    BY FS_Subset, FS_CardinalityType
  <2>2. ASSUME NEW T \in SUBSET S PROVE SumOf(f, T) \in Int
    <3>1. IsFiniteSet(T) /\ \A x \in T : f[x] \in Int
      BY <2>1
    <3>2. QED BY <3>1, SumType
  <2>3. QED BY <2>1, <2>2
<1>2. 0 \in N
  BY <1>1, FS_EmptySet
<1>3. ASSUME NEW n \in Nat, n \in N PROVE n + 1 \in N
  <2> SUFFICES ASSUME NEW T \in SUBSET S, Cardinality(T) = n + 1, NEW x \in T
               PROVE  SumOf(f, T) = f[x] + SumOf(f, T \ {x})
    OBVIOUS
  <2> DEFINE c == CHOOSE y \in T : TRUE
             U == T \ {c}
             V == T \ {x}
             W == T \ {c, x}
  <2>1. T # {} /\ IsFiniteSet(T)
    BY <1>1
  <2>2. SumOf(f, T) = f[c] + SumOf(f, U)
    BY <2>1, SumOfChoice
  <2>3. c \in T
    BY <2>1
  <2> HIDE DEF c
  <2>4. CASE c = x
    BY <2>2, <2>4
  <2>5. CASE c # x
    <3>1. Cardinality(U) = Cardinality(T) - 1 /\ Cardinality(V) = Cardinality(T) - 1
      BY <2>1, <2>3, FS_RemoveElement
    <3>2. Cardinality(U) = n /\ Cardinality(V) = n
      BY <3>1
    <3>3. U \ {x} = W /\ V \ {c} = W /\ x \in U /\ c \in V
      BY <2>3, <2>5
    <3>4. SumOf(f, U) = f[x] + SumOf(f, U \ {x})
      BY <1>3, <3>2, <3>3
    <3>5. SumOf(f, V) = f[c] + SumOf(f, V \ {c})
      BY <1>3, <3>2, <3>3
    <3>6. f[x] \in Int /\ f[c] \in Int /\ SumOf(f, W) \in Int
      BY <1>1, <2>3
    <3> HIDE DEF U, V, W
    <3>7. SumOf(f, U) = f[x] + SumOf(f, W) /\ SumOf(f, V) = f[c] + SumOf(f, W)
      BY <3>3, <3>4, <3>5
    <3>8. SumOf(f, T) = f[x] + SumOf(f, V)
      BY <2>2, <3>6, <3>7
    <3>9. QED BY <3>8 DEF V
  <2>6. QED BY <2>4, <2>5
<1> HIDE DEF N
<1>4. Cardinality(S) \in N
  BY <1>1, <1>2, <1>3, NatInductionSet
<1>5. QED BY <1>4 DEF N

LEMMA SumAdd ==
  ASSUME NEW S, IsFiniteSet(S), NEW e, e \notin S, NEW f, \A x \in S \cup {e} : f[x] \in Int
  PROVE  SumOf(f, S \cup {e}) = f[e] + SumOf(f, S)
<1> DEFINE T == S \cup {e}
<1>1. IsFiniteSet(T) /\ e \in T /\ T \ {e} = S
  BY FS_AddElement
<1> HIDE DEF T
<1>2. \A x \in T : f[x] \in Int
  BY DEF T
<1>3. SumOf(f, T) = f[e] + SumOf(f, T \ {e})
  BY <1>1, <1>2, SumSplit
<1>4. QED BY <1>1, <1>3 DEF T

LEMMA SumOne ==
  ASSUME NEW e, NEW f, f[e] \in Int
  PROVE  SumOf(f, {e}) = f[e]
<1>1. SumOf(f, {} \cup {e}) = f[e] + SumOf(f, {})
  BY SumAdd, FS_EmptySet
<1>2. {} \cup {e} = {e}
  OBVIOUS
<1>3. QED BY <1>1, <1>2, SumEmpty

\* The sum of two functions is the sum of their sums.
LEMMA SumPlus ==
  ASSUME NEW S, IsFiniteSet(S), NEW f, NEW g, NEW h,
         \A x \in S : f[x] \in Int /\ g[x] \in Int /\ h[x] = f[x] + g[x]
  PROVE  SumOf(h, S) = SumOf(f, S) + SumOf(g, S)
<1> DEFINE F == {T \in SUBSET S : SumOf(h, T) = SumOf(f, T) + SumOf(g, T)}
<1>1. {} \in F
  BY SumEmpty
<1>2. ASSUME NEW T \in SUBSET S, NEW e \in S \ T, T \in F PROVE T \cup {e} \in F
  <2>1. IsFiniteSet(T) /\ e \notin T
    BY FS_Subset
  <2>2. \A x \in T \cup {e} : f[x] \in Int /\ g[x] \in Int /\ h[x] \in Int
    OBVIOUS
  <2>3. /\ SumOf(h, T \cup {e}) = h[e] + SumOf(h, T)
        /\ SumOf(f, T \cup {e}) = f[e] + SumOf(f, T)
        /\ SumOf(g, T \cup {e}) = g[e] + SumOf(g, T)
    BY <2>1, <2>2, SumAdd
  <2>4. SumOf(f, T) \in Int /\ SumOf(g, T) \in Int
    BY <2>1, <2>2, SumType
  <2>5. QED BY <1>2, <2>3, <2>4
<1> HIDE DEF F
<1>3. S \in F
  BY <1>1, <1>2, FiniteInduction
<1>4. QED BY <1>3 DEF F

\* Where a function is zero, nothing is added.
LEMMA SumZero ==
  ASSUME NEW S, IsFiniteSet(S), NEW f, \A x \in S : f[x] = 0
  PROVE  SumOf(f, S) = 0
<1> DEFINE F == {T \in SUBSET S : SumOf(f, T) = 0}
<1>1. {} \in F
  BY SumEmpty
<1>2. ASSUME NEW T \in SUBSET S, NEW e \in S \ T, T \in F PROVE T \cup {e} \in F
  <2>1. IsFiniteSet(T) /\ e \notin T
    BY FS_Subset
  <2>2. \A x \in T \cup {e} : f[x] \in Int
    OBVIOUS
  <2>3. SumOf(f, T \cup {e}) = f[e] + SumOf(f, T)
    BY <2>1, <2>2, SumAdd
  <2>4. QED BY <1>2, <2>3
<1> HIDE DEF F
<1>3. S \in F
  BY <1>1, <1>2, FiniteInduction
<1>4. QED BY <1>3 DEF F

\* Larger terms have the larger sum, and sums of naturals are naturals.
LEMMA SumMonotone ==
  ASSUME NEW S, IsFiniteSet(S), NEW f, NEW g,
         \A x \in S : f[x] \in Int /\ g[x] \in Int /\ f[x] <= g[x]
  PROVE  SumOf(f, S) <= SumOf(g, S)
<1> DEFINE F == {T \in SUBSET S : SumOf(f, T) <= SumOf(g, T)}
<1>1. {} \in F
  BY SumEmpty
<1>2. ASSUME NEW T \in SUBSET S, NEW e \in S \ T, T \in F PROVE T \cup {e} \in F
  <2>1. IsFiniteSet(T) /\ e \notin T
    BY FS_Subset
  <2>2. \A x \in T \cup {e} : f[x] \in Int /\ g[x] \in Int
    OBVIOUS
  <2>3. /\ SumOf(f, T \cup {e}) = f[e] + SumOf(f, T)
        /\ SumOf(g, T \cup {e}) = g[e] + SumOf(g, T)
    BY <2>1, <2>2, SumAdd
  <2>4. SumOf(f, T) \in Int /\ SumOf(g, T) \in Int
    BY <2>1, <2>2, SumType
  <2>5. QED BY <1>2, <2>3, <2>4
<1> HIDE DEF F
<1>3. S \in F
  BY <1>1, <1>2, FiniteInduction
<1>4. QED BY <1>3 DEF F

LEMMA SumNat ==
  ASSUME NEW S, IsFiniteSet(S), NEW f, \A x \in S : f[x] \in Nat
  PROVE  SumOf(f, S) \in Nat
<1> DEFINE zero == [x \in S |-> 0]
<1>1. SumOf(zero, S) = 0
  BY SumZero
<1>2. \A x \in S : zero[x] \in Int /\ f[x] \in Int /\ zero[x] <= f[x]
  OBVIOUS
<1> HIDE DEF zero
<1>3. SumOf(f, S) \in Int /\ 0 <= SumOf(f, S)
  BY <1>1, <1>2, SumType, SumMonotone
<1>4. QED BY <1>3

\* Functions that agree have the same sum.
LEMMA SumSame ==
  ASSUME NEW S, IsFiniteSet(S), NEW f, NEW g, \A x \in S : f[x] \in Int /\ g[x] = f[x]
  PROVE  SumOf(g, S) = SumOf(f, S)
<1>1. SumOf(f, S) <= SumOf(g, S) /\ SumOf(g, S) <= SumOf(f, S)
  BY SumMonotone
<1>2. SumOf(f, S) \in Int /\ SumOf(g, S) \in Int
  BY SumType
<1>3. QED BY <1>1, <1>2

\* One term raised by c and none lowered raises the sum by c.
LEMMA SumRaise ==
  ASSUME NEW S, IsFiniteSet(S), NEW f, NEW g,
         \A x \in S : f[x] \in Int /\ g[x] \in Int /\ f[x] <= g[x],
         NEW e \in S, NEW c \in Int, f[e] + c <= g[e]
  PROVE  SumOf(f, S) + c <= SumOf(g, S)
<1>1. IsFiniteSet(S \ {e})
  BY FS_Subset
<1>2. SumOf(f, S \ {e}) <= SumOf(g, S \ {e})
  BY <1>1, SumMonotone
<1>3. SumOf(f, S \ {e}) \in Int /\ SumOf(g, S \ {e}) \in Int
  BY <1>1, SumType
<1>4. SumOf(f, S) = f[e] + SumOf(f, S \ {e}) /\ SumOf(g, S) = g[e] + SumOf(g, S \ {e})
  BY SumSplit
<1>5. QED BY <1>2, <1>3, <1>4

\* Terms of at most m times r and k more add up to m times the sum of r and k
\* for each.
LEMMA SumAffine ==
  ASSUME NEW S, IsFiniteSet(S), NEW f, NEW r, NEW m \in Nat, NEW k \in Nat,
         \A x \in S : f[x] \in Int /\ r[x] \in Int /\ f[x] <= m * r[x] + k
  PROVE  SumOf(f, S) <= m * SumOf(r, S) + k * Cardinality(S)
<1> DEFINE F == {T \in SUBSET S : SumOf(f, T) <= m * SumOf(r, T) + k * Cardinality(T)}
<1>1. {} \in F
  <2>1. SumOf(f, {}) = 0 /\ SumOf(r, {}) = 0 /\ Cardinality({}) = 0
    BY SumEmpty, FS_EmptySet
  <2>2. QED BY <2>1
<1>2. ASSUME NEW T \in SUBSET S, NEW x \in S \ T, T \in F
      PROVE  T \cup {x} \in F
  <2>1. IsFiniteSet(T)
    BY FS_Subset
  <2>2. Cardinality(T \cup {x}) = Cardinality(T) + 1 /\ Cardinality(T) \in Nat
    BY <2>1, FS_AddElement, FS_CardinalityType
  <2>3. /\ SumOf(f, T \cup {x}) = f[x] + SumOf(f, T)
        /\ SumOf(r, T \cup {x}) = r[x] + SumOf(r, T)
    BY <2>1, SumAdd
  <2>4. SumOf(f, T) \in Int /\ SumOf(r, T) \in Int
    BY <2>1, SumType
  <2>5. \A a, b \in Int, n \in Nat : m * (a + b) + k * (n + 1) = (m * a + k) + (m * b + k * n)
    BY SMT
  <2>6. \A a \in Int, n \in Nat : m * a \in Int /\ k * n \in Int
    BY SMT
  <2>7. /\ m * (r[x] + SumOf(r, T)) + k * (Cardinality(T) + 1)
             = (m * r[x] + k) + (m * SumOf(r, T) + k * Cardinality(T))
        /\ m * r[x] \in Int /\ m * SumOf(r, T) \in Int /\ k * Cardinality(T) \in Int
    <3> DEFINE a == r[x]
               b == SumOf(r, T)
               n == Cardinality(T)
    <3>1. a \in Int /\ b \in Int /\ n \in Nat
      BY <2>2, <2>4
    <3> HIDE DEF a, b, n
    <3>2. /\ m * (a + b) + k * (n + 1) = (m * a + k) + (m * b + k * n)
          /\ m * a \in Int /\ m * b \in Int /\ k * n \in Int
      BY <3>1, <2>5, <2>6
    <3>3. QED BY <3>2 DEF a, b, n
  <2>8. f[x] <= m * r[x] + k /\ SumOf(f, T) <= m * SumOf(r, T) + k * Cardinality(T)
    BY <1>2
  <2> DEFINE u == m * r[x]
             v == m * SumOf(r, T)
             y == k * Cardinality(T)
  <2>9. f[x] + SumOf(f, T) <= (u + k) + (v + y)
    <3>1. u \in Int /\ v \in Int /\ y \in Int /\ f[x] <= u + k /\ SumOf(f, T) <= v + y
      BY <2>7, <2>8
    <3>2. f[x] \in Int
      OBVIOUS
    <3> HIDE DEF u, v, y
    <3>3. QED BY <2>4, <3>1, <3>2
  <2>10. QED BY <2>2, <2>3, <2>7, <2>9
<1> HIDE DEF F
<1>3. S \in F
  BY <1>1, <1>2, FiniteInduction
<1>4. QED BY <1>3 DEF F

\* Elements with nothing to add may be left out.
LEMMA SumWithin ==
  ASSUME NEW S, IsFiniteSet(S), NEW f, \A x \in S : f[x] \in Int,
         NEW T \in SUBSET S, \A x \in S \ T : f[x] = 0
  PROVE  SumOf(f, S) = SumOf(f, T)
<1> DEFINE R == S \ T
           F == {U \in SUBSET R : SumOf(f, T \cup U) = SumOf(f, T)}
<1>1. IsFiniteSet(R) /\ IsFiniteSet(T)
  BY FS_Difference, FS_Subset
<1>2. {} \in F
  <2>1. T \cup {} = T
    OBVIOUS
  <2>2. QED BY <2>1
<1>3. ASSUME NEW U \in SUBSET R, NEW e \in R \ U, U \in F PROVE U \cup {e} \in F
  <2> DEFINE V == T \cup U
  <2>1. V \in SUBSET S /\ e \notin V /\ e \in S /\ f[e] = 0
    OBVIOUS
  <2>2. IsFiniteSet(V)
    BY <2>1, FS_Subset
  <2>3. T \cup (U \cup {e}) = V \cup {e}
    OBVIOUS
  <2>4. SumOf(f, V) = SumOf(f, T)
    BY <1>3
  <2> HIDE DEF V
  <2>5. \A x \in V \cup {e} : f[x] \in Int
    BY <2>1
  <2>6. SumOf(f, V \cup {e}) = f[e] + SumOf(f, V)
    BY <2>1, <2>2, <2>5, SumAdd
  <2>7. SumOf(f, V) \in Int
    BY <2>2, <2>5, SumType
  <2>8. SumOf(f, V \cup {e}) = SumOf(f, T)
    BY <2>1, <2>4, <2>6, <2>7
  <2>9. SumOf(f, T \cup (U \cup {e})) = SumOf(f, T)
    BY <2>3, <2>8
  <2>10. QED BY <2>9
<1> HIDE DEF F
<1>4. R \in F
  <2> HIDE DEF R
  <2>1. QED BY <1>1, <1>2, <1>3, FiniteInduction
<1>5. T \cup R = S
  OBVIOUS
<1>6. QED BY <1>4, <1>5 DEF F

-----------------------------------------------------------------------------
(* How many members a set has. *)

\* A set and its picture under a map that tells its members apart.
LEMMA SameSize ==
  ASSUME NEW S, IsFiniteSet(S), NEW f, \A x, y \in S : f[x] = f[y] => x = y,
         NEW T, \A t : t \in T <=> \E x \in S : t = f[x]
  PROVE  IsFiniteSet(T) /\ Cardinality(T) = Cardinality(S)
  <1> DEFINE g == [x \in S |-> f[x]]
  <1>1. g \in Bijection(S, T)
    BY DEF Bijection, Injection, Surjection, IsInjective
  <1> HIDE DEF g
  <1>2. ExistsBijection(S, T)
    BY <1>1 DEF ExistsBijection
  <1> QED
    BY <1>2, FS_Bijection

-----------------------------------------------------------------------------
(* Lists of anything, whose elements have no type. *)

IsList(s) == Len(s) \in Nat /\ s = [i \in 1..Len(s) |-> s[i]]

LEMMA ListIs ==
  ASSUME NEW n \in Nat, NEW s, s = [i \in 1..n |-> s[i]]
  PROVE  IsList(s) /\ Len(s) = n
  <1> DEFINE S == {s[i] : i \in 1..n}
  <1>1. s \in [1..n -> S]
    OBVIOUS
  <1>2. s \in Seq(S)
    BY <1>1
  <1>3. Len(s) = n
    BY <1>1, <1>2
  <1> QED
    BY <1>3 DEF IsList

LEMMA EmptyList == IsList(<<>>) /\ Len(<<>>) = 0
  BY DEF IsList

LEMMA EmptyIs ==
  ASSUME NEW s, IsList(s)
  PROVE  s = <<>> <=> Len(s) = 0
  BY DEF IsList

LEMMA AppendList ==
  ASSUME NEW s, IsList(s), NEW x
  PROVE  /\ IsList(Append(s, x)) /\ Len(Append(s, x)) = Len(s) + 1
         /\ \A i \in 1..Len(s) : Append(s, x)[i] = s[i]
         /\ Append(s, x)[Len(s) + 1] = x
  <1> DEFINE S == {s[i] : i \in 1..Len(s)} \cup {x}
             t == Append(s, x)
  <1>1. s \in [1..Len(s) -> S] /\ x \in S
    BY DEF IsList
  <1>2. s \in Seq(S)
    BY <1>1 DEF IsList
  <1>3. /\ t \in Seq(S) /\ Len(t) = Len(s) + 1 /\ t[Len(s) + 1] = x
        /\ \A i \in 1..Len(s) : t[i] = s[i]
    BY <1>1, <1>2
  <1> HIDE DEF S, t
  <1>4. IsList(t)
    BY <1>3, LenProperties DEF IsList
  <1> QED
    BY <1>3, <1>4 DEF t

-----------------------------------------------------------------------------
(* Ledger time. *)

\* A time lies in the second its truncation names.
LEMMA EpochSecondsBounds ==
  ASSUME NEW t \in Nat
  PROVE  /\ EpochSeconds(t) \in Nat
         /\ EpochSeconds(t) * TicksPerSecond <= t
         /\ t < EpochSeconds(t) * TicksPerSecond + TicksPerSecond
<1>1. TicksPerSecond \in Nat /\ TicksPerSecond > 0
  BY TicksPerSecondAssumption DEF TicksPerSecondAssumption
<1> DEFINE q == t \div TicksPerSecond
           r == t % TicksPerSecond
<1>2. /\ q \in Int /\ r \in 0 .. TicksPerSecond - 1
      /\ t = (TicksPerSecond * q) + r
  BY <1>1, SMT
<1>3. q \in Nat
  <2>1. CASE q < 0
    <3>1. TicksPerSecond * q <= 0 - TicksPerSecond
      BY <1>1, <1>2, <2>1, SMT
    <3>2. QED BY <1>1, <1>2, <3>1, SMT
  <2>2. QED BY <2>1, <1>2
<1>4. QED BY <1>1, <1>2, <1>3, SMT DEF EpochSeconds

\* Truncation never turns the order of two times around.
LEMMA EpochSecondsMonotone ==
  ASSUME NEW a \in Nat, NEW b \in Nat, a <= b
  PROVE  EpochSeconds(a) <= EpochSeconds(b)
<1>1. TicksPerSecond \in Nat /\ TicksPerSecond > 0
  BY TicksPerSecondAssumption DEF TicksPerSecondAssumption
<1> DEFINE p == EpochSeconds(a)
           q == EpochSeconds(b)
<1>2. /\ p \in Nat /\ p * TicksPerSecond <= a
      /\ q \in Nat /\ b < q * TicksPerSecond + TicksPerSecond
  BY EpochSecondsBounds
<1> HIDE DEF p, q
<1>3. p * TicksPerSecond < (q + 1) * TicksPerSecond
  BY <1>1, <1>2, SMT
<1>4. p < q + 1
  <2>1. CASE p >= q + 1
    <3>1. p * TicksPerSecond >= (q + 1) * TicksPerSecond
      BY <1>1, <1>2, <2>1, SMT
    <3>2. QED BY <1>1, <1>2, <1>3, <3>1, SMT
  <2>2. QED BY <2>1, <1>2, SMT
<1>5. QED BY <1>2, <1>4 DEF p, q

\* s whole seconds by truncated endpoints are s seconds of the clock but for
\* less than one: the most that truncating both ends can hide.
LEMMA SecondsElapsed ==
  ASSUME NEW a \in Nat, NEW b \in Nat, NEW s \in Int, SecondsBetween(a, b) >= s
  PROVE  b - a >= s * TicksPerSecond - (TicksPerSecond - 1)
<1>1. TicksPerSecond \in Nat /\ TicksPerSecond > 0
  BY TicksPerSecondAssumption DEF TicksPerSecondAssumption
<1> DEFINE p == EpochSeconds(a)
           q == EpochSeconds(b)
<1>2. /\ p \in Nat /\ a < p * TicksPerSecond + TicksPerSecond
      /\ q \in Nat /\ q * TicksPerSecond <= b
  BY EpochSecondsBounds
<1>3. q >= p + s
  BY <1>2, SMT DEF SecondsBetween
<1> HIDE DEF p, q
<1>4. q * TicksPerSecond >= (p + s) * TicksPerSecond
  BY <1>1, <1>2, <1>3, SMT
<1>5. (p + s) * TicksPerSecond = p * TicksPerSecond + s * TicksPerSecond
  BY <1>1, <1>2, SMT
<1>6. QED BY <1>1, <1>2, <1>4, <1>5, SMT

\* A duration between two whole numbers of seconds counts that many.
LEMMA SecondsWithin ==
  ASSUME NEW a \in Nat, NEW b \in Nat, NEW m \in Int, NEW n \in Int,
         m * TicksPerSecond <= b - a, b - a <= n * TicksPerSecond
  PROVE  m <= SecondsBetween(a, b) /\ SecondsBetween(a, b) <= n
  <1> DEFINE x == EpochSeconds(a)
             y == EpochSeconds(b)
             q == TicksPerSecond
  <1>1. q \in Nat /\ q > 0
    BY TicksPerSecondAssumption DEF TicksPerSecondAssumption
  <1>2. /\ x \in Nat /\ x * q <= a /\ a < x * q + q
        /\ y \in Nat /\ y * q <= b /\ b < y * q + q
    BY EpochSecondsBounds
  <1>3. \A i, j, k \in Int : (i + j) * k = i * k + j * k
    OBVIOUS
  <1>4. \A i, j \in Int : i <= j => i * q <= j * q
    BY <1>1
  <1> HIDE DEF x, y, q
  <1>5. CASE y - x < m
    <2>1. y + 1 <= x + m /\ x + m \in Int /\ y + 1 \in Int
      BY <1>2, <1>5
    <2>2. (y + 1) * q <= (x + m) * q
      BY <1>4, <2>1
    <2>3. (y + 1) * q = y * q + 1 * q /\ (x + m) * q = x * q + m * q
      BY <1>1, <1>2, <1>3
    <2>4. m * q <= b - a
      BY DEF q
    <2>5. x * q \in Int /\ y * q \in Int /\ m * q \in Int /\ 1 * q = q
      BY <1>1, <1>2
    <2> QED
      BY <1>1, <1>2, <2>2, <2>3, <2>4, <2>5
  <1>6. CASE y - x > n
    <2>1. x + (n + 1) <= y /\ x + (n + 1) \in Int /\ n + 1 \in Int
      BY <1>2, <1>6
    <2>2. (x + (n + 1)) * q <= y * q
      BY <1>2, <1>4, <2>1
    <2>3. (x + (n + 1)) * q = x * q + (n + 1) * q /\ (n + 1) * q = n * q + 1 * q
      BY <1>1, <1>2, <1>3, <2>1
    <2>4. b - a <= n * q
      BY DEF q
    <2>5. x * q \in Int /\ y * q \in Int /\ n * q \in Int /\ 1 * q = q
      BY <1>1, <1>2
    <2> QED
      BY <1>1, <1>2, <2>2, <2>3, <2>4, <2>5
  <1> QED
    BY <1>2, <1>5, <1>6 DEF SecondsBetween, x, y

\* A list of as many different members as the set has is of all of them.
LEMMA AllListed ==
  ASSUME NEW S, IsFiniteSet(S), NEW s \in [1..Cardinality(S) -> S],
         \A i, j \in 1..Cardinality(S) : i # j => s[i] # s[j], NEW x \in S
  PROVE  \E i \in 1..Cardinality(S) : s[i] = x
  <1> DEFINE n == Cardinality(S)
             T == S \ {x}
  <1>1. n \in Nat
    BY FS_CardinalityType
  <1>2. IsFiniteSet(T) /\ Cardinality(T) = n - 1
    BY FS_RemoveElement
  <1>3. IsFiniteSet(1..n) /\ Cardinality(1..n) = n
    BY <1>1, FS_Interval
  <1> SUFFICES ASSUME \A i \in 1..n : s[i] # x PROVE FALSE
    OBVIOUS
  <1>4. s \in [1..n -> T]
    OBVIOUS
  <1> HIDE DEF n, T
  <1> DEFINE I == 1..n
  <1>5. Cardinality(T) < Cardinality(I) /\ IsFiniteSet(I) /\ s \in [I -> T]
    BY <1>1, <1>2, <1>3, <1>4
  <1> HIDE DEF I
  <1>6. \E i, j \in I : i # j /\ s[i] = s[j]
    BY <1>2, <1>5, FS_PigeonHole
  <1> QED
    BY <1>6 DEF I, n
=============================================================================
