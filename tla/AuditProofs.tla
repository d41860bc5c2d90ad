---------------------------- MODULE AuditProofs ----------------------------
(***************************************************************************)
(* What an auditor may rely on, for any venue, any periods, any anchors,   *)
(* and transactions delivered in any order: the reader accounts for every  *)
(* half, the verifier accepts only what was first anchored of a period,    *)
(* and a period left out of the archive breaks the chain.                  *)
(***************************************************************************)
EXTENDS AuditProperties, DigestProofs

-----------------------------------------------------------------------------
(* A finite set in a total order. *)
Total(S, before) ==
  /\ \A x, y \in S : x # y => <<x, y>> \in before \/ <<y, x>> \in before
  /\ \A x, y, z \in S : x # y /\ x # z /\ y # z =>
       (<<x, y>> \in before /\ <<y, z>> \in before => <<x, z>> \in before)

Sorted(n, s, before) == \A i, j \in 1..n : i < j => s[i] # s[j] /\ <<s[i], s[j]>> \in before

\* Some member comes after the others.
LEMMA LastOne ==
  ASSUME NEW S, IsFiniteSet(S), S # {}, NEW before, Total(S, before)
  PROVE  \E e \in S : \A x \in S \ {e} : <<x, e>> \in before
  <1> DEFINE Comes(T, e) == \A x \in T \ {e} : <<x, e>> \in before
             F == {T \in SUBSET S : T # {} => \E e \in T : Comes(T, e)}
  <1>1. {} \in F
    OBVIOUS
  <1>2. ASSUME NEW T \in SUBSET S, NEW x \in S \ T, T \in F PROVE T \cup {x} \in F
    <2>1. CASE T = {}
      <3>1. Comes(T \cup {x}, x)
        BY <2>1
      <3> QED
        BY <3>1
    <2>2. CASE T # {}
      <3>1. PICK e \in T : Comes(T, e)
        BY <1>2, <2>2
      <3>2. CASE <<x, e>> \in before
        <4>1. Comes(T \cup {x}, e)
          BY <3>1, <3>2
        <4> QED
          BY <4>1
      <3>3. CASE <<x, e>> \notin before
        <4>1. e # x /\ e \in S
          BY <1>2
        <4>2. <<e, x>> \in before
          BY <3>3, <4>1 DEF Total
        <4>3. \A y \in T : <<y, x>> \in before
          <5> TAKE y \in T
          <5>1. CASE y = e
            BY <4>2, <5>1
          <5>2. CASE y # e
            <6>1. <<y, e>> \in before /\ y # x
              BY <3>1, <5>2
            <6> QED
              BY <4>1, <4>2, <6>1 DEF Total
          <5> QED
            BY <5>1, <5>2
        <4>4. Comes(T \cup {x}, x)
          BY <4>3
        <4> QED
          BY <4>4
      <3> QED
        BY <3>2, <3>3
    <2> QED
      BY <2>1, <2>2
  <1> HIDE DEF F
  <1>3. S \in F
    BY <1>1, <1>2, FiniteInduction
  <1> QED
    BY <1>3 DEF F

LEMMA SortedExists ==
  ASSUME NEW S, IsFiniteSet(S), NEW before, Total(S, before)
  PROVE  \E s \in [1..Cardinality(S) -> S] : Sorted(Cardinality(S), s, before)
  <1> DEFINE Good(n, T) == \E s \in [1..n -> T] : Sorted(n, s, before)
             N == {n \in Nat : \A T \in SUBSET S : Cardinality(T) = n => Good(n, T)}
  <1>1. \A T \in SUBSET S : IsFiniteSet(T) /\ Cardinality(T) \in Nat
    BY FS_Subset, FS_CardinalityType
  <1>2. 0 \in N
    <2> SUFFICES ASSUME NEW T \in SUBSET S PROVE Good(0, T)
      OBVIOUS
    <2>1. [i \in 1..0 |-> i] \in [1..0 -> T]
      OBVIOUS
    <2>2. Sorted(0, [i \in 1..0 |-> i], before)
      BY DEF Sorted
    <2> QED
      BY <2>1, <2>2
  <1>3. ASSUME NEW n \in Nat, n \in N PROVE n + 1 \in N
    <2> SUFFICES ASSUME NEW T \in SUBSET S, Cardinality(T) = n + 1 PROVE Good(n + 1, T)
      OBVIOUS
    <2>1. IsFiniteSet(T) /\ T # {} /\ Total(T, before)
      <3>1. T # {}
        BY <1>3, FS_EmptySet
      <3> QED
        BY <1>1, <3>1 DEF Total
    <2>2. PICK e \in T : \A x \in T \ {e} : <<x, e>> \in before
      BY <2>1, LastOne
    <2> DEFINE U == T \ {e}
    <2>3. Cardinality(U) = n /\ U \in SUBSET S
      <3>1. Cardinality(T \ {e}) = Cardinality(T) - 1
        BY <2>1, <2>2, FS_RemoveElement
      <3> QED
        BY <3>1
    <2>4. PICK s \in [1..n -> U] : Sorted(n, s, before)
      BY <1>3, <2>3
    <2> DEFINE t == [i \in 1..(n + 1) |-> IF i = n + 1 THEN e ELSE s[i]]
    <2>5. t \in [1..(n + 1) -> T]
      BY <2>2, <2>4
    <2>6. ASSUME NEW i \in 1..(n + 1), NEW j \in 1..(n + 1), i < j PROVE t[i] # t[j] /\ <<t[i], t[j]>> \in before
      <3>1. i \in 1..n /\ t[i] = s[i] /\ s[i] \in U
        BY <2>4, <2>6
      <3>2. CASE j = n + 1
        BY <2>2, <3>1, <3>2
      <3>3. CASE j # n + 1
        <4>1. j \in 1..n /\ t[j] = s[j]
          BY <3>3
        <4> QED
          BY <2>4, <2>6, <3>1, <4>1 DEF Sorted
      <3> QED
        BY <3>2, <3>3
    <2> HIDE DEF t
    <2>7. Sorted(n + 1, t, before)
      BY <2>6 DEF Sorted
    <2> QED
      BY <2>5, <2>7
  <1> HIDE DEF N
  <1>4. Nat \subseteq N
    BY <1>2, <1>3, NatInductionSet
  <1>5. S \in SUBSET S /\ Cardinality(S) \in N
    BY <1>1, <1>4
  <1> QED
    BY <1>5 DEF N

LEMMA InOrderIs ==
  ASSUME NEW S, IsFiniteSet(S), NEW before, Total(S, before)
  PROVE  LET n == Cardinality(S) s == InOrder(S, before)
         IN  /\ n \in Nat /\ s \in [1..n -> S] /\ Sorted(n, s, before)
             /\ \A i, j \in 1..n : i # j => s[i] # s[j]
             /\ \A x \in S : \E i \in 1..n : s[i] = x
  <1> DEFINE n == Cardinality(S)
             s == InOrder(S, before)
  <1>1. n \in Nat
    BY FS_CardinalityType
  <1>2. s \in [1..n -> S] /\ Sorted(n, s, before)
    BY SortedExists DEF InOrder, Sorted
  <1> HIDE DEF s
  <1>3. \A i, j \in 1..n : i # j => s[i] # s[j]
    <2> SUFFICES ASSUME NEW i \in 1..n, NEW j \in 1..n, i < j PROVE s[i] # s[j]
      BY <1>1
    <2> QED
      BY <1>2 DEF Sorted
  <1>4. \A x \in S : \E i \in 1..n : s[i] = x
    BY <1>2, <1>3, AllListed
  <1> QED
    BY <1>1, <1>2, <1>3, <1>4 DEF s

-----------------------------------------------------------------------------
(* The order of a report.  Two rows tie when they are of one cycle id,      *)
(* committed at one time.                                                   *)
IsRow(r) == r.committedAt \in Int /\ IsName(r.cycleId)
Tied(a, b) == a.committedAt = b.committedAt /\ a.cycleId = b.cycleId

\* Of two rows one comes first, unless they tie.
LEMMA RowsOrdered ==
  ASSUME NEW a, NEW b, IsRow(a), IsRow(b)
  PROVE  /\ ~(RowBefore(a, b) /\ RowBefore(b, a))
         /\ Tied(a, b) <=> ~RowBefore(a, b) /\ ~RowBefore(b, a)
  <1>1. a.committedAt \in Int /\ b.committedAt \in Int /\ IsName(a.cycleId) /\ IsName(b.cycleId)
    BY DEF IsRow
  <1>2. ~NameBefore(a.cycleId, a.cycleId)
    BY <1>1, NameNotBeforeItself
  <1>3. ~(NameBefore(a.cycleId, b.cycleId) /\ NameBefore(b.cycleId, a.cycleId))
    BY <1>1, <1>2, NamesTransitive
  <1>4. a.cycleId # b.cycleId => NameBefore(a.cycleId, b.cycleId) \/ NameBefore(b.cycleId, a.cycleId)
    BY <1>1, NamesTotal
  <1>5. CASE a.committedAt = b.committedAt
    <2>1. RowBefore(a, b) <=> NameBefore(a.cycleId, b.cycleId)
      BY <1>1, <1>5 DEF RowBefore
    <2>2. RowBefore(b, a) <=> NameBefore(b.cycleId, a.cycleId)
      BY <1>1, <1>5 DEF RowBefore
    <2>3. Tied(a, b) <=> a.cycleId = b.cycleId
      BY <1>5 DEF Tied
    <2>4. a.cycleId = b.cycleId => ~NameBefore(a.cycleId, b.cycleId) /\ ~NameBefore(b.cycleId, a.cycleId)
      BY <1>2
    <2> QED
      BY <1>3, <1>4, <2>1, <2>2, <2>3, <2>4
  <1>6. CASE a.committedAt # b.committedAt
    BY <1>1, <1>6 DEF RowBefore, Tied
  <1> QED
    BY <1>5, <1>6

LEMMA RowsTransitive ==
  ASSUME NEW a, NEW b, NEW c, IsRow(a), IsRow(b), IsRow(c)
  PROVE  /\ RowBefore(a, b) /\ RowBefore(b, c) => RowBefore(a, c)
         /\ Tied(a, b) /\ RowBefore(b, c) => RowBefore(a, c)
         /\ RowBefore(a, b) /\ Tied(b, c) => RowBefore(a, c)
         /\ Tied(a, b) /\ Tied(b, c) => Tied(a, c)
  <1>1. /\ a.committedAt \in Int /\ b.committedAt \in Int /\ c.committedAt \in Int
        /\ IsName(a.cycleId) /\ IsName(b.cycleId) /\ IsName(c.cycleId)
    BY DEF IsRow
  <1>2. NameBefore(a.cycleId, b.cycleId) /\ NameBefore(b.cycleId, c.cycleId)
          => NameBefore(a.cycleId, c.cycleId)
    BY <1>1, NamesTransitive
  <1>3. ASSUME RowBefore(a, b), RowBefore(b, c) PROVE RowBefore(a, c)
    BY <1>1, <1>2, <1>3 DEF RowBefore
  <1>4. ASSUME Tied(a, b), RowBefore(b, c) PROVE RowBefore(a, c)
    <2>1. a.committedAt = b.committedAt /\ a.cycleId = b.cycleId
      BY <1>4 DEF Tied
    <2> QED
      BY <1>4, <2>1 DEF RowBefore
  <1>5. ASSUME RowBefore(a, b), Tied(b, c) PROVE RowBefore(a, c)
    <2>1. c.committedAt = b.committedAt /\ c.cycleId = b.cycleId
      BY <1>5 DEF Tied
    <2> QED
      BY <1>5, <2>1 DEF RowBefore
  <1>6. Tied(a, b) /\ Tied(b, c) => Tied(a, c)
    BY DEF Tied
  <1> QED
    BY <1>3, <1>4, <1>5, <1>6

\* A sort that leaves rows that tie where they are.
Stable(a, b, i, j) == RowBefore(a, b) \/ (~RowBefore(b, a) /\ i < j)

LEMMA StableTotal ==
  ASSUME NEW a, NEW b, IsRow(a), IsRow(b), NEW i \in Int, NEW j \in Int, i # j
  PROVE  Stable(a, b, i, j) \/ Stable(b, a, j, i)
  <1>1. ~(RowBefore(a, b) /\ RowBefore(b, a)) /\ (i < j \/ j < i)
    BY RowsOrdered
  <1> QED
    BY <1>1 DEF Stable

LEMMA StableTransitive ==
  ASSUME NEW a, NEW b, NEW c, IsRow(a), IsRow(b), IsRow(c),
         NEW i \in Int, NEW j \in Int, NEW k \in Int, Stable(a, b, i, j), Stable(b, c, j, k)
  PROVE  Stable(a, c, i, k)
  <1>0. /\ Tied(a, b) <=> ~RowBefore(a, b) /\ ~RowBefore(b, a)
        /\ Tied(b, c) <=> ~RowBefore(b, c) /\ ~RowBefore(c, b)
    BY RowsOrdered
  <1>1. RowBefore(a, b) \/ (Tied(a, b) /\ i < j)
    BY <1>0 DEF Stable
  <1>2. RowBefore(b, c) \/ (Tied(b, c) /\ j < k)
    BY <1>0 DEF Stable
  <1>3. RowBefore(a, c) \/ (Tied(a, c) /\ i < k)
    <2>1. i < j /\ j < k => i < k
      OBVIOUS
    <2> QED
      BY <1>1, <1>2, <2>1, RowsTransitive
  <1> QED
    BY <1>3, RowsOrdered DEF Stable

\* Two lists of the same rows in the order of a report, no two of which tie.
InRowOrder(n, a) ==
  /\ \A i \in 1..n : IsRow(a[i])
  /\ \A i, j \in 1..n : i < j => ~RowBefore(a[j], a[i])

NoTies(n, a) == \A i, j \in 1..n : Tied(a[i], a[j]) => i = j

Among(n, a, b) == \A i \in 1..n : \E j \in 1..n : a[i] = b[j]

LEMMA SameOrder ==
  ASSUME NEW n \in Nat, NEW a, NEW b, InRowOrder(n, a), InRowOrder(n, b), NoTies(n, a), NoTies(n, b),
         Among(n, a, b), Among(n, b, a)
  PROVE  \A i \in 1..n : a[i] = b[i]
  <1> DEFINE T == {i \in 1..n : a[i] # b[i]}
  <1> SUFFICES ASSUME T # {} PROVE FALSE
    OBVIOUS
  <1>1. T \subseteq Nat
    OBVIOUS
  <1> HIDE DEF T
  <1>2. PICK i \in T : \A k \in T : i <= k
    BY <1>1, LeastNat
  <1>3. i \in 1..n /\ a[i] # b[i] /\ \A k \in 1..n : k < i => a[k] = b[k]
    BY <1>2 DEF T
  <1>4. PICK j \in 1..n : a[i] = b[j]
    BY <1>3 DEF Among
  <1>5. PICK k \in 1..n : b[i] = a[k]
    BY <1>3 DEF Among
  <1>6. \A x : Tied(x, x)
    BY DEF Tied
  <1>7. j > i
    <2>1. j # i
      BY <1>3, <1>4
    <2>2. ASSUME j < i PROVE FALSE
      <3>1. a[j] = a[i]
        BY <1>3, <1>4, <2>2
      <3>2. Tied(a[j], a[i])
        BY <1>6, <3>1
      <3> QED
        BY <1>3, <2>1, <3>2 DEF NoTies
    <2> QED
      BY <1>3, <2>1, <2>2
  <1>8. k > i
    <2>1. k # i
      BY <1>3, <1>5
    <2>2. ASSUME k < i PROVE FALSE
      <3>1. b[k] = b[i]
        BY <1>3, <1>5, <2>2
      <3>2. Tied(b[k], b[i])
        BY <1>6, <3>1
      <3> QED
        BY <1>3, <2>1, <3>2 DEF NoTies
    <2> QED
      BY <1>3, <2>1, <2>2
  <1>9. ~RowBefore(b[j], b[i]) /\ IsRow(b[j]) /\ IsRow(b[i])
    BY <1>3, <1>7 DEF InRowOrder
  <1>10. ~RowBefore(b[i], b[j])
    <2>1. ~RowBefore(a[k], a[i])
      BY <1>3, <1>8 DEF InRowOrder
    <2> QED
      BY <1>4, <1>5, <2>1
  <1>11. Tied(b[i], b[j])
    BY <1>9, <1>10, RowsOrdered
  <1> QED
    BY <1>3, <1>7, <1>11 DEF NoTies

\* An ascending list of the first n numbers lists them in their order.
LEMMA Counted ==
  ASSUME NEW n \in Nat, NEW f \in [1..n -> 1..n], \A i, j \in 1..n : i < j => f[i] < f[j],
         \A q \in 1..n : \E i \in 1..n : f[i] = q
  PROVE  \A i \in 1..n : f[i] = i
  <1> DEFINE T == {i \in 1..n : f[i] # i}
  <1> SUFFICES ASSUME T # {} PROVE FALSE
    OBVIOUS
  <1>1. T \subseteq Nat
    OBVIOUS
  <1> HIDE DEF T
  <1>2. PICK i \in T : \A k \in T : i <= k
    BY <1>1, LeastNat
  <1>3. i \in 1..n /\ f[i] # i /\ \A k \in 1..n : k < i => f[k] = k
    BY <1>2 DEF T
  <1>4. PICK j \in 1..n : f[j] = i
    BY <1>3
  <1>5. j > i
    <2>1. j # i /\ ~(j < i)
      BY <1>3, <1>4
    <2> QED
      BY <1>3, <2>1
  <1> DEFINE m == f[i]
  <1>6. m \in 1..n /\ m < i
    BY <1>3, <1>4, <1>5
  <1>7. f[m] = m /\ f[m] < f[i]
    BY <1>3, <1>6
  <1> QED
    BY <1>6, <1>7

-----------------------------------------------------------------------------
(* What the reader's maps hold: each fact it was handed, and one of each    *)
(* stake, as long as no two facts disagree about a stake.                   *)
Filled(facts, was, n) ==
  IF facts[n] = {} THEN was ELSE Put(was, CHOOSE f \in facts[n] : TRUE)

IsFilling(facts, m, f) ==
  f = [n \in 0..m |-> IF n = 0 THEN <<>> ELSE Filled(facts, f[n-1], n)]

LEMMA FillingExists ==
  ASSUME NEW facts, NEW m \in Nat
  PROVE  \E f : IsFilling(facts, m, f)
  <1> DEFINE N == {k \in Nat : \E f : IsFilling(facts, k, f)}
  <1>1. 0 \in N
    <2> DEFINE f == [n \in 0..0 |-> <<>>]
    <2>1. IsFilling(facts, 0, f)
      BY DEF IsFilling
    <2> QED
      BY <2>1
  <1>2. ASSUME NEW k \in Nat, k \in N PROVE k + 1 \in N
    <2>1. PICK f : IsFilling(facts, k, f)
      BY <1>2
    <2> DEFINE g == [n \in 0..(k + 1) |-> IF n = 0 THEN <<>> ELSE Filled(facts, f[n-1], n)]
    <2>2. \A n \in 0..k : g[n] = f[n]
      BY <2>1 DEF IsFilling
    <2>3. \A n \in 1..(k + 1) : n - 1 \in 0..k
      OBVIOUS
    <2>4. g = [n \in 0..(k + 1) |-> IF n = 0 THEN <<>> ELSE Filled(facts, g[n-1], n)]
      <3>1. \A n \in 0..(k + 1) : n # 0 => g[n-1] = f[n-1]
        BY <2>2, <2>3
      <3> QED
        BY <3>1
    <2> HIDE DEF g
    <2>5. IsFilling(facts, k + 1, g)
      BY <2>4 DEF IsFilling
    <2> QED
      BY <2>5
  <1> HIDE DEF N
  <1>3. m \in N
    BY <1>1, <1>2, NatInductionSet
  <1> QED
    BY <1>3 DEF N

LEMMA MapOfRuns ==
  ASSUME NEW facts, IsList(facts)
  PROVE  \E f : /\ f[0] = <<>> /\ MapOf(facts) = f[Len(facts)]
                /\ \A n \in 0..(Len(facts) - 1) : f[n + 1] = Filled(facts, f[n], n + 1)
  <1> DEFINE m == Len(facts)
             map == CHOOSE f : f = [n \in 0..Len(facts) |->
                      IF n = 0 THEN <<>>
                      ELSE IF facts[n] = {} THEN f[n-1]
                      ELSE Put(f[n-1], CHOOSE h \in facts[n] : TRUE)]
  <1>0. m \in Nat
    BY DEF IsList
  <1>1. MapOf(facts) = map[Len(facts)]
    BY DEF MapOf
  <1>2. PICK f : IsFilling(facts, m, f)
    BY <1>0, FillingExists
  <1>3. f = [n \in 0..m |-> IF n = 0 THEN <<>>
                            ELSE IF facts[n] = {} THEN f[n-1]
                            ELSE Put(f[n-1], CHOOSE h \in facts[n] : TRUE)]
    BY <1>2 DEF IsFilling, Filled
  <1>4. map = [n \in 0..m |-> IF n = 0 THEN <<>>
                              ELSE IF facts[n] = {} THEN map[n-1]
                              ELSE Put(map[n-1], CHOOSE h \in facts[n] : TRUE)]
    BY <1>3
  <1> HIDE DEF map, m
  <1>5. map = [n \in 0..m |-> IF n = 0 THEN <<>> ELSE Filled(facts, map[n-1], n)]
    BY <1>4 DEF Filled
  <1>6. map[0] = <<>>
    BY <1>0, <1>5
  <1>7. ASSUME NEW n \in 0..(m - 1) PROVE map[n + 1] = Filled(facts, map[n], n + 1)
    <2>1. n + 1 \in 0..m /\ n + 1 # 0 /\ (n + 1) - 1 = n
      BY <1>0
    <2> QED
      BY <1>5, <2>1
  <1> QED
    BY <1>1, <1>6, <1>7 DEF m

\* A map that holds exactly these facts, each stake once.
Holds(map, F) ==
  /\ IsList(map)
  /\ \A i \in 1..Len(map) : map[i] \in F
  /\ \A f \in F : \E i \in 1..Len(map) : map[i] = f
  /\ \A i, j \in 1..Len(map) : map[i].stake = map[j].stake => i = j

LEMMA PutHolds ==
  ASSUME NEW map, NEW F, Holds(map, F), NEW f, \A g \in F : g.stake = f.stake => g = f
  PROVE  Holds(Put(map, f), F \cup {f})
  <1> DEFINE n == Len(map)
  <1>0. IsList(map) /\ n \in Nat /\ DOMAIN map = 1..n
    BY DEF Holds, IsList
  <1>1. CASE \E i \in 1..n : map[i].stake = f.stake
    <2>1. PICK i \in 1..n : map[i].stake = f.stake
      BY <1>1
    <2>2. map[i] = f /\ f \in F
      BY <2>1 DEF Holds
    <2>3. \A j \in 1..n : map[j].stake = f.stake => map[j] = f
      BY DEF Holds
    <2>4. Put(map, f) = [j \in 1..n |-> IF map[j].stake = f.stake THEN f ELSE map[j]]
      BY <1>0, <1>1 DEF Put
    <2>5. Put(map, f) = [j \in 1..n |-> map[j]]
      BY <2>3, <2>4
    <2>6. Put(map, f) = map
      BY <1>0, <2>5 DEF IsList
    <2>7. F \cup {f} = F
      BY <2>2
    <2> QED
      BY <2>6, <2>7
  <1>2. CASE ~\E i \in 1..n : map[i].stake = f.stake
    <2> DEFINE new == Append(map, f)
    <2>1. Put(map, f) = new
      BY <1>0, <1>2 DEF Put
    <2>2. /\ IsList(new) /\ Len(new) = n + 1
          /\ \A i \in 1..n : new[i] = map[i]
          /\ new[n + 1] = f
      BY <1>0, AppendList
    <2> HIDE DEF new
    <2>3. \A i \in 1..(n + 1) : i # n + 1 => i \in 1..n
      BY <1>0
    <2>4. \A i \in 1..(n + 1) : new[i] \in F \cup {f}
      BY <2>2, <2>3 DEF Holds
    <2>5. ASSUME NEW g \in F \cup {f} PROVE \E i \in 1..(n + 1) : new[i] = g
      <3>1. CASE g = f
        BY <1>0, <2>2, <3>1
      <3>2. CASE g # f
        <4>1. PICK i \in 1..n : map[i] = g
          BY <2>5, <3>2 DEF Holds
        <4>2. i \in 1..(n + 1)
          BY <1>0
        <4> QED
          BY <2>2, <4>1, <4>2
      <3> QED
        BY <3>1, <3>2
    <2>6. ASSUME NEW i \in 1..(n + 1), NEW j \in 1..(n + 1), new[i].stake = new[j].stake PROVE i = j
      <3>1. CASE i = n + 1 /\ j = n + 1
        BY <3>1
      <3>2. CASE i = n + 1 /\ j # n + 1
        BY <1>2, <2>2, <2>3, <2>6, <3>2
      <3>3. CASE i # n + 1 /\ j = n + 1
        BY <1>2, <2>2, <2>3, <2>6, <3>3
      <3>4. CASE i # n + 1 /\ j # n + 1
        BY <2>2, <2>3, <2>6, <3>4 DEF Holds
      <3> QED
        BY <3>1, <3>2, <3>3, <3>4
    <2>7. Holds(new, F \cup {f})
      BY <2>2, <2>4, <2>5, <2>6 DEF Holds
    <2> QED
      BY <2>1, <2>7
  <1> QED
    BY <1>1, <1>2

LEMMA MapHolds ==
  ASSUME NEW facts, IsList(facts),
         \A i \in 1..Len(facts) : facts[i] = {} \/ \E f : facts[i] = {f},
         \A i, j \in 1..Len(facts) : \A f \in facts[i], g \in facts[j] : f.stake = g.stake => f = g
  PROVE  Holds(MapOf(facts), UNION {facts[i] : i \in 1..Len(facts)})
  <1> DEFINE m == Len(facts)
             F(n) == UNION {facts[i] : i \in 1..n}
  <1>0. m \in Nat
    BY DEF IsList
  <1>1. PICK map : /\ map[0] = <<>> /\ MapOf(facts) = map[m]
                   /\ \A n \in 0..(m - 1) : map[n + 1] = Filled(facts, map[n], n + 1)
    BY MapOfRuns
  <1> DEFINE N == {n \in Nat : n <= m => Holds(map[n], F(n))}
  <1>2. 0 \in N
    <2>1. F(0) = {}
      OBVIOUS
    <2> HIDE DEF F
    <2>2. Holds(<<>>, {})
      BY EmptyList DEF Holds
    <2> QED
      BY <1>1, <2>1, <2>2
  <1>3. ASSUME NEW n \in Nat, n \in N PROVE n + 1 \in N
    <2> SUFFICES ASSUME n + 1 <= m PROVE Holds(map[n + 1], F(n + 1))
      OBVIOUS
    <2>1. n \in 0..(m - 1) /\ n + 1 \in 1..m /\ Holds(map[n], F(n))
      BY <1>0, <1>3
    <2>2. map[n + 1] = Filled(facts, map[n], n + 1)
      BY <1>1, <2>1
    <2>3. F(n + 1) = F(n) \cup facts[n + 1]
      <3>1. \A i : i \in 1..(n + 1) <=> i \in 1..n \/ i = n + 1
        OBVIOUS
      <3> QED
        BY <3>1
    <2>4. ASSUME NEW g \in F(n), NEW f \in facts[n + 1], g.stake = f.stake PROVE g = f
      <3>1. PICK i \in 1..n : g \in facts[i]
        OBVIOUS
      <3>2. i \in 1..m
        BY <1>0, <2>1
      <3> QED
        BY <2>1, <2>4, <3>1, <3>2
    <2> HIDE DEF F
    <2>5. CASE facts[n + 1] = {}
      BY <2>1, <2>2, <2>3, <2>5 DEF Filled
    <2>6. CASE \E f : facts[n + 1] = {f}
      <3>1. PICK f : facts[n + 1] = {f}
        BY <2>6
      <3>2. map[n + 1] = Put(map[n], f)
        BY <2>2, <3>1 DEF Filled
      <3> QED
        BY <2>1, <2>3, <2>4, <3>1, <3>2, PutHolds
    <2> QED
      BY <2>1, <2>5, <2>6
  <1> HIDE DEF N
  <1>4. m \in N
    BY <1>0, <1>2, <1>3, NatInductionSet
  <1> QED
    BY <1>0, <1>1, <1>4 DEF N

-----------------------------------------------------------------------------
(* A transaction as the reader takes it: the commit, or the closing, of one *)
(* stake.  Whatever other halves of its kind the transaction holds come     *)
(* after it.                                                                *)
IsCommit(tx, s) ==
  /\ tx.at \in Int /\ IsList(tx.events) /\ Len(tx.events) >= 2
  /\ tx.events[1] = Event("Entitlement_Commit", s, 0, NoOutcome)
  /\ tx.events[2] = Event("GameStake", s, tx.at, NoOutcome)
  /\ \A j \in 1..Len(tx.events) : tx.events[j].node \notin ClosingChoice

IsClose(tx, s) ==
  /\ tx.at \in Int /\ IsList(tx.events) /\ Len(tx.events) >= 1
  /\ \E choice \in ClosingChoice, o \in Outcome : tx.events[1] = ClosingEvent(choice, s, o)
  /\ \A j \in 1..Len(tx.events) :
       /\ tx.events[j].node \in ClosingChoice \cup {"Amulet"}
       /\ tx.events[j].node \in ClosingChoice /\ tx.events[j].stake = s => j = 1
  /\ \/ \A j \in 1..Len(tx.events) : tx.events[j].node # "Amulet"
     \/ Len(tx.events) >= 2 /\ tx.events[2] = Event("Amulet", s, 0, NoOutcome)

\* A transaction that holds a half of a stake, whether or not the reader takes it.
HasHalf(tx, names, s) ==
  \E j \in DOMAIN tx.events : tx.events[j].node \in names /\ tx.events[j].stake = s

CommitFact(s, t) ==
  [stake |-> s, cycleId |-> CycleIdOf[s], committedAt |-> t, committed |-> UnitsOf[s]]
ClosingFact(tx, s) ==
  [stake |-> s, choice |-> tx.events[1].node, settledAt |-> tx.at, outcome |-> tx.events[1].outcome,
   unlocked |-> {UnitsOf[u.stake] : u \in Find(tx, {"Amulet"})}]

LEMMA FindFirst ==
  ASSUME NEW tx, NEW names, IsList(tx.events), NEW k \in 1..Len(tx.events),
         tx.events[k].node \in names,
         \A j \in 1..(k - 1) : tx.events[j].node \notin names
  PROVE  Find(tx, names) = {tx.events[k]}
  <1> DEFINE T == {j \in DOMAIN tx.events :
                     tx.events[j].node \in names /\ \A i \in 1..(j-1) : tx.events[i].node \notin names}
  <1>1. DOMAIN tx.events = 1..Len(tx.events) /\ Len(tx.events) \in Nat
    BY DEF IsList
  <1>2. \A j \in 1..Len(tx.events) : j = k \/ j \in 1..(k - 1) \/ k \in 1..(j - 1)
    BY <1>1
  <1>3. T = {k}
    BY <1>1, <1>2
  <1> QED
    BY <1>3 DEF Find

LEMMA FindNone ==
  ASSUME NEW tx, NEW names, \A j \in DOMAIN tx.events : tx.events[j].node \notin names
  PROVE  Find(tx, names) = {}
  BY DEF Find

LEMMA CommitIs ==
  ASSUME NEW tx, NEW s, IsCommit(tx, s)
  PROVE  /\ CommitFacts(tx) = {CommitFact(s, tx.at)} /\ ClosingFacts(tx) = {}
         /\ tx.events[1].stake = s /\ HasHalf(tx, {"GameStake"}, s)
  <1> DEFINE commit == tx.events[1]
             stake == tx.events[2]
  <1>1. /\ IsList(tx.events) /\ DOMAIN tx.events = 1..Len(tx.events)
        /\ 1 \in 1..Len(tx.events) /\ 2 \in 1..Len(tx.events)
        /\ \A j \in 1..Len(tx.events) : tx.events[j].node \notin ClosingChoice
    BY DEF IsCommit, IsList
  <1>2. /\ commit.node = "Entitlement_Commit" /\ commit.stake = s
        /\ stake.node = "GameStake" /\ stake.stake = s /\ stake.at = tx.at
    BY DEF IsCommit, Event
  <1> HIDE DEF commit, stake
  <1>3. Find(tx, {"Entitlement_Commit"}) = {commit}
    <2>1. tx.events[1].node \in {"Entitlement_Commit"} /\ \A j \in 1..(1 - 1) : FALSE
      BY <1>2 DEF commit
    <2> QED
      BY <1>1, <2>1, FindFirst DEF commit
  <1>4. Find(tx, {"GameStake"}) = {stake}
    <2>1. tx.events[2].node \in {"GameStake"}
      BY <1>2 DEF stake
    <2>2. \A j \in 1..(2 - 1) : j = 1
      OBVIOUS
    <2>3. tx.events[1].node \notin {"GameStake"}
      BY <1>2 DEF commit
    <2> QED
      BY <1>1, <2>1, <2>2, <2>3, FindFirst DEF stake
  <1>5. Find(tx, ClosingChoice) = {}
    BY <1>1, FindNone
  <1>6. CommitFacts(tx) = {CommitFact(s, tx.at)}
    BY <1>2, <1>3, <1>4 DEF CommitFacts, CommitFact
  <1>7. ClosingFacts(tx) = {}
    BY <1>5 DEF ClosingFacts
  <1>8. HasHalf(tx, {"GameStake"}, s)
    BY <1>1, <1>2 DEF HasHalf, stake
  <1> QED
    BY <1>2, <1>6, <1>7, <1>8 DEF commit

LEMMA CloseIs ==
  ASSUME NEW tx, NEW s, IsClose(tx, s)
  PROVE  /\ CommitFacts(tx) = {} /\ ClosingFacts(tx) = {ClosingFact(tx, s)}
         /\ tx.events[1].stake = s /\ tx.events[1].node \in ClosingChoice /\ 1 \in DOMAIN tx.events
         /\ HasHalf(tx, ClosingChoice, s)
         /\ \A j \in DOMAIN tx.events :
              tx.events[j].node \in ClosingChoice /\ tx.events[j].stake = s => j = 1
         /\ \A u \in ClosingFact(tx, s).unlocked : u = UnitsOf[s]
  <1> DEFINE closing == tx.events[1]
  <1>1. PICK choice \in ClosingChoice, o \in Outcome : closing = ClosingEvent(choice, s, o)
    BY DEF IsClose
  <1>2. closing.node = choice /\ closing.stake = s
    BY <1>1 DEF ClosingEvent, Event
  <1>3. "Entitlement_Commit" \notin ClosingChoice \cup {"Amulet"} /\ "Amulet" \notin ClosingChoice
    BY DEF ClosingChoice
  <1>4. /\ IsList(tx.events) /\ DOMAIN tx.events = 1..Len(tx.events) /\ 1 \in 1..Len(tx.events)
        /\ \A j \in 1..Len(tx.events) :
             /\ tx.events[j].node \in ClosingChoice \cup {"Amulet"}
             /\ tx.events[j].node \in ClosingChoice /\ tx.events[j].stake = s => j = 1
    BY DEF IsClose, IsList
  <1>5. \/ \A j \in 1..Len(tx.events) : tx.events[j].node # "Amulet"
        \/ 2 \in 1..Len(tx.events) /\ tx.events[2] = Event("Amulet", s, 0, NoOutcome)
    BY DEF IsClose, IsList
  <1> HIDE DEF closing
  <1>6. Find(tx, ClosingChoice) = {closing}
    <2>1. tx.events[1].node \in ClosingChoice /\ \A j \in 1..(1 - 1) : FALSE
      BY <1>2 DEF closing
    <2> QED
      BY <1>4, <2>1, FindFirst DEF closing
  <1>7. Find(tx, {"Entitlement_Commit"}) = {}
    <2>1. \A j \in DOMAIN tx.events : tx.events[j].node \notin {"Entitlement_Commit"}
      BY <1>3, <1>4
    <2> QED
      BY <2>1, FindNone
  <1>8. \A u \in Find(tx, {"Amulet"}) : u.stake = s
    <2>1. CASE \A j \in 1..Len(tx.events) : tx.events[j].node # "Amulet"
      <3>1. \A j \in DOMAIN tx.events : tx.events[j].node \notin {"Amulet"}
        BY <1>4, <2>1
      <3>2. Find(tx, {"Amulet"}) = {}
        BY <3>1, FindNone
      <3> QED
        BY <3>2
    <2>2. CASE 2 \in 1..Len(tx.events) /\ tx.events[2] = Event("Amulet", s, 0, NoOutcome)
      <3>1. tx.events[2].node \in {"Amulet"} /\ tx.events[2].stake = s
        BY <2>2 DEF Event
      <3>2. \A j \in 1..(2 - 1) : j = 1
        OBVIOUS
      <3>3. tx.events[1].node \notin {"Amulet"}
        BY <1>2, <1>3 DEF closing
      <3>4. Find(tx, {"Amulet"}) = {tx.events[2]}
        BY <1>4, <2>2, <3>1, <3>2, <3>3, FindFirst
      <3> QED
        BY <3>1, <3>4
    <2> QED
      BY <1>5, <2>1, <2>2
  <1>9. CommitFacts(tx) = {}
    BY <1>7 DEF CommitFacts
  <1>10. ClosingFacts(tx) = {ClosingFact(tx, s)}
    BY <1>2, <1>6 DEF ClosingFacts, ClosingFact, closing
  <1>11. \A u \in ClosingFact(tx, s).unlocked : u = UnitsOf[s]
    BY <1>8 DEF ClosingFact
  <1>12. HasHalf(tx, ClosingChoice, s)
    BY <1>2, <1>4 DEF HasHalf, closing
  <1> QED
    BY <1>2, <1>4, <1>9, <1>10, <1>11, <1>12 DEF closing

-----------------------------------------------------------------------------
(* The ledger of a venue: every transaction is one that the reader takes for *)
(* a commit or a closing, the halves of a stake are on it at most once, and  *)
(* no closing of a stake that was not committed.  While a transaction holds  *)
(* one half, the reader takes all that it holds.                             *)
Kept(L) == \A i \in 1..Len(L) : \E s \in Stake : IsCommit(L[i], s) \/ IsClose(L[i], s)

Once(L, names) ==
  \A i, j \in 1..Len(L) : \A s \in Stake : HasHalf(L[i], names, s) /\ HasHalf(L[j], names, s) => i = j

ClosedAfter(L) ==
  \A i \in 1..Len(L) : \A s \in Stake :
     HasHalf(L[i], ClosingChoice, s) => \E j \in 1..Len(L) : HasHalf(L[j], {"GameStake"}, s)

AllTaken(L) ==
  \A i \in 1..Len(L) : \A s \in Stake : /\ HasHalf(L[i], {"GameStake"}, s) => IsCommit(L[i], s)
                                        /\ HasHalf(L[i], ClosingChoice, s) => IsClose(L[i], s)

History(L) ==
  /\ IsList(L) /\ Kept(L) /\ Once(L, {"GameStake"}) /\ Once(L, ClosingChoice) /\ ClosedAfter(L)
  /\ MaxHalves = 1 => AllTaken(L)

Handed(r, L) == IsList(r) /\ \A i \in 1..Len(r) : r[i] \in 1..Len(L)

ReaderInv == History(ledger) /\ Handed(read, ledger)

\* What the reader takes, the transaction holds.
LEMMA TakenIsHeld ==
  ASSUME NEW tx, NEW s
  PROVE  /\ IsCommit(tx, s) => HasHalf(tx, {"GameStake"}, s)
         /\ IsClose(tx, s) => HasHalf(tx, ClosingChoice, s)
  BY CommitIs, CloseIs

LEMMA CommittedIs ==
  ASSUME History(ledger), NEW s
  PROVE  /\ Committed(s) <=> \E i \in 1..Len(ledger) : HasHalf(ledger[i], {"GameStake"}, s)
         /\ Closed(s) <=> \E i \in 1..Len(ledger) : HasHalf(ledger[i], ClosingChoice, s)
  <1>1. DOMAIN ledger = 1..Len(ledger)
    BY DEF History, IsList
  <1> QED
    BY <1>1 DEF Committed, Closed, Holding, HasHalf

LEMMA SeveralAre ==
  ASSUME NEW ss \in Several
  PROVE  \E n \in Nat : /\ n >= 1 /\ Len(ss) = n /\ DOMAIN ss = 1..n
                        /\ \A i \in 1..n : ss[i] \in Stake
                        /\ \A i, j \in 1..n : ss[i] = ss[j] => i = j
                        /\ MaxHalves = 1 => n = 1
  <1>1. PICK n \in 1..MaxHalves : ss \in [1..n -> Stake]
    BY DEF Several
  <1>2. n \in Nat /\ n >= 1 /\ (MaxHalves = 1 => n = 1)
    BY <1>1, ReaderAssumption DEF ReaderAssumption
  <1>3. \A i, j \in DOMAIN ss : ss[i] = ss[j] => i = j
    BY DEF Several
  <1> QED
    BY <1>1, <1>2, <1>3

\* Two events for each stake, the first of the first stake.
InTurn(events, n, a, b) ==
  events = [k \in 1..(2 * n) |-> IF k % 2 = 1 THEN a[(k + 1) \div 2] ELSE b[k \div 2]]

LEMMA PairsAre ==
  ASSUME NEW n \in Nat, n >= 1, NEW a, NEW b, NEW events, InTurn(events, n, a, b)
  PROVE  /\ IsList(events) /\ Len(events) = 2 * n /\ events[1] = a[1] /\ events[2] = b[1]
         /\ \A k \in 1..(2 * n) : \E i \in 1..n : \/ events[k] = a[i] /\ (i = 1 => k = 1)
                                                  \/ events[k] = b[i]
  <1>1. 2 * n \in Nat /\ 1 \in 1..(2 * n) /\ 2 \in 1..(2 * n)
    OBVIOUS
  <1>2. events[1] = a[1] /\ events[2] = b[1]
    BY <1>1 DEF InTurn
  <1>3. events = [k \in 1..(2 * n) |-> events[k]]
    BY DEF InTurn
  <1>4. IsList(events) /\ Len(events) = 2 * n
    BY <1>1, <1>3, ListIs
  <1>5. ASSUME NEW k \in 1..(2 * n)
        PROVE  \E i \in 1..n : \/ events[k] = a[i] /\ (i = 1 => k = 1)
                               \/ events[k] = b[i]
    <2>1. CASE k % 2 = 1
      <3>1. (k + 1) \div 2 \in 1..n /\ ((k + 1) \div 2 = 1 => k = 1)
        BY <2>1
      <3>2. events[k] = a[(k + 1) \div 2]
        BY <2>1 DEF InTurn
      <3> QED
        BY <3>1, <3>2
    <2>2. CASE k % 2 # 1
      <3>1. k \div 2 \in 1..n
        BY <2>2
      <3>2. events[k] = b[k \div 2]
        BY <2>2 DEF InTurn
      <3> QED
        BY <3>1, <3>2
    <2> QED
      BY <2>1, <2>2
  <1> QED
    BY <1>2, <1>4, <1>5

\* A half that is on the ledger once, and a transaction with halves of stakes
\* that had none like it.
LEMMA StillOnce ==
  ASSUME NEW names, NEW n \in Nat, NEW L, Len(L) = n + 1, NEW K, Len(K) = n, Once(K, names),
         \A i \in 1..n : L[i] = K[i],
         \A t \in Stake : HasHalf(L[n + 1], names, t) => ~\E i \in 1..n : HasHalf(K[i], names, t)
  PROVE  Once(L, names)
  <1> SUFFICES ASSUME NEW i \in 1..(n + 1), NEW j \in 1..(n + 1), NEW t \in Stake,
                      HasHalf(L[i], names, t), HasHalf(L[j], names, t)
               PROVE  i = j
    BY DEF Once
  <1>1. \A k \in 1..(n + 1) : k = n + 1 \/ k \in 1..n
    OBVIOUS
  <1>2. CASE i \in 1..n /\ j \in 1..n
    BY <1>2 DEF Once
  <1>3. CASE i = n + 1 /\ j \in 1..n
    BY <1>3
  <1>4. CASE i \in 1..n /\ j = n + 1
    BY <1>4
  <1> QED
    BY <1>1, <1>2, <1>3, <1>4

LEMMA SubmitKeeps ==
  ASSUME History(ledger), NEW tx, NEW s \in Stake, ledger' = Append(ledger, tx),
         IsCommit(tx, s) \/ IsClose(tx, s),
         \A t \in Stake : HasHalf(tx, {"GameStake"}, t) =>
            ~Committed(t) /\ (MaxHalves = 1 => IsCommit(tx, t)),
         \A t \in Stake : HasHalf(tx, ClosingChoice, t) =>
            Committed(t) /\ ~Closed(t) /\ (MaxHalves = 1 => IsClose(tx, t))
  PROVE  History(ledger')
  <1> DEFINE n == Len(ledger)
             L == ledger'
  <1>0. IsList(ledger) /\ n \in Nat
    BY DEF History, IsList
  <1>1. /\ IsList(L) /\ Len(L) = n + 1 /\ L[n + 1] = tx
        /\ \A i \in 1..n : L[i] = ledger[i]
    BY <1>0, AppendList
  <1>2. \A t : /\ Committed(t) <=> \E i \in 1..n : HasHalf(ledger[i], {"GameStake"}, t)
               /\ Closed(t) <=> \E i \in 1..n : HasHalf(ledger[i], ClosingChoice, t)
    BY CommittedIs
  <1>3. /\ Kept(ledger) /\ Once(ledger, {"GameStake"}) /\ Once(ledger, ClosingChoice)
        /\ ClosedAfter(ledger) /\ (MaxHalves = 1 => AllTaken(ledger))
    BY DEF History
  <1>4. IsCommit(tx, s) \/ IsClose(tx, s)
    OBVIOUS
  <1>5. \A t \in Stake :
          /\ HasHalf(tx, {"GameStake"}, t) => ~Committed(t) /\ (MaxHalves = 1 => IsCommit(tx, t))
          /\ HasHalf(tx, ClosingChoice, t) =>
               Committed(t) /\ ~Closed(t) /\ (MaxHalves = 1 => IsClose(tx, t))
    OBVIOUS
  <1> HIDE DEF n, L
  <1>6. \A i \in 1..(n + 1) : i = n + 1 \/ i \in 1..n
    BY <1>0
  <1>7. \A i \in 1..n : i \in 1..(n + 1)
    BY <1>0
  <1>8. Kept(L)
    BY <1>1, <1>3, <1>4, <1>6 DEF Kept, n
  <1>9. Once(L, {"GameStake"}) /\ Once(L, ClosingChoice)
    BY <1>0, <1>1, <1>2, <1>3, <1>5, StillOnce DEF n
  <1>10. ClosedAfter(L)
    <2> SUFFICES ASSUME NEW i \in 1..(n + 1), NEW t \in Stake, HasHalf(L[i], ClosingChoice, t)
                 PROVE  \E j \in 1..(n + 1) : HasHalf(L[j], {"GameStake"}, t)
      BY <1>1 DEF ClosedAfter
    <2>1. \E j \in 1..n : HasHalf(ledger[j], {"GameStake"}, t)
      <3>1. CASE i \in 1..n
        BY <1>1, <1>3, <3>1 DEF ClosedAfter, n
      <3>2. CASE i = n + 1
        BY <1>1, <1>2, <1>5, <3>2
      <3> QED
        BY <1>6, <3>1, <3>2
    <2> QED
      BY <1>1, <1>7, <2>1
  <1>11. MaxHalves = 1 => AllTaken(L)
    <2> SUFFICES ASSUME MaxHalves = 1, NEW i \in 1..(n + 1), NEW t \in Stake
                 PROVE  /\ HasHalf(L[i], {"GameStake"}, t) => IsCommit(L[i], t)
                        /\ HasHalf(L[i], ClosingChoice, t) => IsClose(L[i], t)
      BY <1>1 DEF AllTaken
    <2>1. CASE i \in 1..n
      BY <1>1, <1>3, <2>1 DEF AllTaken, n
    <2>2. CASE i = n + 1
      BY <1>1, <1>5, <2>2
    <2> QED
      BY <1>6, <2>1, <2>2
  <1> QED
    BY <1>1, <1>8, <1>9, <1>10, <1>11 DEF History, L

LEMMA ReaderStarts == ReaderInit => ReaderInv
  <1> SUFFICES ASSUME ReaderInit PROVE ReaderInv
    OBVIOUS
  <1>1. ledger = <<>> /\ read = <<>>
    BY DEF ReaderInit
  <1> QED
    BY <1>1, EmptyList DEF ReaderInv, History, Kept, Once, ClosedAfter, AllTaken, Handed

LEMMA CommitStep ==
  ASSUME ReaderInv, Commit
  PROVE  ReaderInv'
  <1> DEFINE half(s) == Event("Entitlement_Commit", s, 0, NoOutcome)
  <1>1. PICK ss \in Several, time \in Times :
          /\ \A i \in DOMAIN ss : ~Committed(ss[i])
          /\ Submit(time, Pairs(ss, half, LAMBDA s : Event("GameStake", s, time, NoOutcome)))
    BY DEF Commit
  <1>2. PICK n \in Nat : /\ n >= 1 /\ Len(ss) = n /\ DOMAIN ss = 1..n
                         /\ \A i \in 1..n : ss[i] \in Stake
                         /\ MaxHalves = 1 => n = 1
    BY SeveralAre
  <1> DEFINE other(s) == Event("GameStake", s, time, NoOutcome)
             events == Pairs(ss, half, other)
             a == [i \in 1..n |-> half(ss[i])]
             b == [i \in 1..n |-> other(ss[i])]
             tx == [at |-> time, events |-> events]
  <1>3. \A k \in 1..(2 * n) : /\ k % 2 = 1 => (k + 1) \div 2 \in 1..n
                              /\ k % 2 # 1 => k \div 2 \in 1..n
    BY <1>2
  <1>4. InTurn(events, n, a, b)
    BY <1>2, <1>3 DEF Pairs, InTurn
  <1>5. read = <<>> /\ read' = read /\ ledger' = Append(ledger, tx)
    BY <1>1 DEF Submit
  <1> HIDE DEF events
  <1>6. \A i \in 1..n : /\ a[i] = half(ss[i]) /\ a[i].stake = ss[i] /\ a[i].node = "Entitlement_Commit"
                        /\ b[i] = other(ss[i]) /\ b[i].stake = ss[i] /\ b[i].node = "GameStake"
    BY DEF Event
  <1> HIDE DEF a, b
  <1>7. /\ IsList(events) /\ Len(events) = 2 * n /\ events[1] = a[1] /\ events[2] = b[1]
        /\ \A k \in 1..(2 * n) : \E i \in 1..n : events[k] = a[i] \/ events[k] = b[i]
    <2>1. n \in Nat /\ n >= 1
      BY <1>2
    <2>2. /\ IsList(events) /\ Len(events) = 2 * n /\ events[1] = a[1] /\ events[2] = b[1]
          /\ \A k \in 1..(2 * n) : \E i \in 1..n : \/ events[k] = a[i] /\ (i = 1 => k = 1)
                                                   \/ events[k] = b[i]
      BY <1>4, <2>1, PairsAre
    <2> QED
      BY <2>2
  <1>8. \A k \in 1..(2 * n) : \E i \in 1..n :
           /\ events[k].stake = ss[i]
           /\ events[k].node = "Entitlement_Commit" \/ events[k].node = "GameStake"
    BY <1>6, <1>7
  <1>9. DOMAIN events = 1..(2 * n) /\ tx.events = events /\ tx.at = time /\ time \in Int
    BY <1>7, ReaderAssumption DEF IsList, ReaderAssumption
  <1> HIDE DEF tx
  <1>10. IsCommit(tx, ss[1])
    <2>1. 1 \in 1..n /\ Len(events) >= 2
      BY <1>2, <1>7
    <2>2. \A k \in 1..(2 * n) : events[k].node \notin ClosingChoice
      BY <1>8 DEF ClosingChoice
    <2>3. events[1] = half(ss[1]) /\ events[2] = other(ss[1])
      BY <1>6, <1>7, <2>1
    <2> QED
      BY <1>7, <1>9, <2>1, <2>2, <2>3 DEF IsCommit
  <1>11. ASSUME NEW t, HasHalf(tx, {"GameStake"}, t)
         PROVE  ~Committed(t) /\ (MaxHalves = 1 => IsCommit(tx, t))
    <2>1. PICK i \in 1..n : t = ss[i]
      BY <1>8, <1>9, <1>11 DEF HasHalf
    <2>2. MaxHalves = 1 => i = 1
      BY <1>2
    <2> QED
      BY <1>1, <1>2, <1>10, <2>1, <2>2
  <1>12. \A t : ~HasHalf(tx, ClosingChoice, t)
    BY <1>8, <1>9 DEF HasHalf, ClosingChoice
  <1>13. ss[1] \in Stake
    BY <1>2
  <1>14. History(ledger')
    BY <1>5, <1>10, <1>11, <1>12, <1>13, SubmitKeeps DEF ReaderInv
  <1> QED
    BY <1>5, <1>14, EmptyList DEF ReaderInv, Handed

LEMMA CloseStep ==
  ASSUME ReaderInv, Close
  PROVE  ReaderInv'
  <1> DEFINE amulet(s) == Event("Amulet", s, 0, NoOutcome)
  <1>1. PICK ss \in Several, time \in Times, choice \in ClosingChoice, o \in Outcome, unlocks \in BOOLEAN :
          /\ \A i \in DOMAIN ss : Committed(ss[i]) /\ ~Closed(ss[i])
          /\ Submit(time, IF unlocks
                          THEN Pairs(ss, LAMBDA s : ClosingEvent(choice, s, o),
                                         LAMBDA s : Event("Amulet", s, 0, NoOutcome))
                          ELSE [k \in DOMAIN ss |-> ClosingEvent(choice, ss[k], o)])
    BY DEF Close
  <1>2. PICK n \in Nat : /\ n >= 1 /\ Len(ss) = n /\ DOMAIN ss = 1..n
                         /\ \A i \in 1..n : ss[i] \in Stake
                         /\ \A i, j \in 1..n : ss[i] = ss[j] => i = j
                         /\ MaxHalves = 1 => n = 1
    BY SeveralAre
  <1> DEFINE closing(s) == ClosingEvent(choice, s, o)
             a == [i \in 1..n |-> closing(ss[i])]
             b == [i \in 1..n |-> amulet(ss[i])]
             events == IF unlocks THEN Pairs(ss, closing, amulet) ELSE [k \in DOMAIN ss |-> closing(ss[k])]
             tx == [at |-> time, events |-> events]
  <1>3. read = <<>> /\ read' = read /\ ledger' = Append(ledger, tx)
    BY <1>1 DEF Submit
  <1>4. \A i \in 1..n : /\ a[i] = closing(ss[i]) /\ a[i].stake = ss[i] /\ a[i].node = choice
                        /\ b[i] = amulet(ss[i]) /\ b[i].stake = ss[i] /\ b[i].node = "Amulet"
    BY DEF ClosingEvent, Event
  <1>5. /\ IsList(events) /\ Len(events) >= 1 /\ events[1] = a[1]
        /\ \A k \in 1..Len(events) : \E i \in 1..n : \/ events[k] = a[i] /\ (i = 1 => k = 1)
                                                     \/ events[k] = b[i]
        /\ \/ \A k \in 1..Len(events) : \E i \in 1..n : events[k] = a[i]
           \/ Len(events) >= 2 /\ events[2] = b[1]
    <2>1. CASE unlocks
      <3>1. \A k \in 1..(2 * n) : /\ k % 2 = 1 => (k + 1) \div 2 \in 1..n
                                  /\ k % 2 # 1 => k \div 2 \in 1..n
        BY <1>2
      <3>2. InTurn(events, n, a, b)
        BY <1>2, <2>1, <3>1 DEF Pairs, InTurn
      <3> HIDE DEF events, a, b
      <3>3. /\ IsList(events) /\ Len(events) = 2 * n /\ events[1] = a[1] /\ events[2] = b[1]
            /\ \A k \in 1..(2 * n) : \E i \in 1..n : \/ events[k] = a[i] /\ (i = 1 => k = 1)
                                                     \/ events[k] = b[i]
        <4>1. n \in Nat /\ n >= 1
          BY <1>2
        <4>2. /\ IsList(events) /\ Len(events) = 2 * n /\ events[1] = a[1] /\ events[2] = b[1]
              /\ \A k \in 1..(2 * n) : \E i \in 1..n : \/ events[k] = a[i] /\ (i = 1 => k = 1)
                                                       \/ events[k] = b[i]
          BY <3>2, <4>1, PairsAre
        <4> QED
          BY <4>2
      <3> QED
        BY <1>2, <3>3
    <2>2. CASE ~unlocks
      <3>1. events = a
        BY <1>2, <2>2
      <3>2. a = [i \in 1..n |-> a[i]]
        OBVIOUS
      <3> HIDE DEF events, a, b
      <3>3. IsList(events) /\ Len(events) = n
        BY <1>2, <3>1, <3>2, ListIs
      <3> QED
        BY <1>2, <3>1, <3>3
    <2> QED
      BY <2>1, <2>2
  <1>6. tx.events = events /\ tx.at = time /\ time \in Int
    BY ReaderAssumption DEF ReaderAssumption
  <1> HIDE DEF a, b, events, tx
  <1>7. DOMAIN events = 1..Len(events)
    BY <1>5 DEF IsList
  <1>8. choice # "Amulet" /\ choice # "GameStake" /\ "Amulet" \notin ClosingChoice
    BY DEF ClosingChoice
  <1>9. \A k \in 1..Len(events) : \E i \in 1..n :
           /\ events[k].stake = ss[i] /\ (events[k].node = choice \/ events[k].node = "Amulet")
           /\ events[k].node = choice /\ i = 1 => k = 1
    BY <1>4, <1>5, <1>8
  <1>10. ASSUME NEW t \in 1..n, MaxHalves = 1 \/ t = 1 PROVE IsClose(tx, ss[t])
    <2>0. t = 1 /\ 1 \in 1..n
      BY <1>2, <1>10
    <2>1. events[1] = ClosingEvent(choice, ss[1], o)
      BY <1>4, <1>5, <2>0
    <2>2. ASSUME NEW k \in 1..Len(events)
          PROVE  /\ events[k].node \in ClosingChoice \cup {"Amulet"}
                 /\ events[k].node \in ClosingChoice /\ events[k].stake = ss[1] => k = 1
      <3>1. PICK i \in 1..n :
               /\ events[k].stake = ss[i] /\ (events[k].node = choice \/ events[k].node = "Amulet")
               /\ events[k].node = choice /\ i = 1 => k = 1
        BY <1>9
      <3>2. ss[i] = ss[1] => i = 1
        BY <1>2, <2>0
      <3> QED
        BY <1>8, <3>1, <3>2
    <2>3. \/ \A k \in 1..Len(events) : events[k].node # "Amulet"
          \/ Len(events) >= 2 /\ events[2] = Event("Amulet", ss[1], 0, NoOutcome)
      BY <1>4, <1>5, <1>8, <2>0
    <2> QED
      BY <1>5, <1>6, <2>0, <2>1, <2>2, <2>3 DEF IsClose
  <1>11. ASSUME NEW t, HasHalf(tx, ClosingChoice, t)
         PROVE  Committed(t) /\ ~Closed(t) /\ (MaxHalves = 1 => IsClose(tx, t))
    <2>1. PICK i \in 1..n : t = ss[i]
      BY <1>6, <1>7, <1>9, <1>11 DEF HasHalf
    <2> QED
      BY <1>1, <1>2, <1>10, <2>1
  <1>12. \A t : ~HasHalf(tx, {"GameStake"}, t)
    BY <1>6, <1>7, <1>8, <1>9 DEF HasHalf
  <1>13. 1 \in 1..n /\ ss[1] \in Stake
    BY <1>2
  <1>14. History(ledger')
    BY <1>3, <1>10, <1>11, <1>12, <1>13, SubmitKeeps DEF ReaderInv
  <1> QED
    BY <1>3, <1>14, EmptyList DEF ReaderInv, Handed

LEMMA DeliverStep ==
  ASSUME ReaderInv, Deliver
  PROVE  ReaderInv'
  <1> DEFINE n == Len(read)
             r == read'
  <1>1. PICK i \in DOMAIN ledger : read' = Append(read, i)
    BY DEF Deliver
  <1>2. ledger' = ledger /\ i \in 1..Len(ledger) /\ IsList(read) /\ n \in Nat
    BY DEF Deliver, ReaderInv, History, Handed, IsList
  <1>3. IsList(r) /\ Len(r) = n + 1 /\ r[n + 1] = i /\ \A k \in 1..n : r[k] = read[k]
    BY <1>1, <1>2, AppendList
  <1>4. \A k \in 1..n : read[k] \in 1..Len(ledger)
    BY DEF ReaderInv, Handed
  <1> HIDE DEF r, n
  <1>5. ASSUME NEW k \in 1..(n + 1) PROVE r[k] \in 1..Len(ledger)
    <2>1. k \in 1..n \/ k = n + 1
      BY <1>2
    <2> QED
      BY <1>2, <1>3, <1>4, <2>1
  <1>6. Handed(r, ledger)
    BY <1>3, <1>5 DEF Handed
  <1> QED
    BY <1>2, <1>6 DEF ReaderInv, r

LEMMA ReaderStays == ReaderInv /\ [AuditNext]_auditVars => ReaderInv'
  <1> SUFFICES ASSUME ReaderInv, [AuditNext]_auditVars PROVE ReaderInv'
    OBVIOUS
  <1>1. CASE UNCHANGED <<ledger, read>>
    BY <1>1 DEF ReaderInv
  <1>2. CASE ReaderNext
    BY <1>2, CommitStep, CloseStep, DeliverStep DEF ReaderNext
  <1> QED
    BY <1>1, <1>2 DEF AuditNext, ReaderNext, ReaderStep, AnchorPeriod, Publish, auditVars

LEMMA ReaderInvariant == AuditSpec => []ReaderInv
  <1>1. AuditInit => ReaderInv
    BY ReaderStarts DEF AuditInit
  <1> QED
    BY <1>1, ReaderStays, PTL DEF AuditSpec

-----------------------------------------------------------------------------
(* What the ledger says of a stake of which the reader can take both halves. *)
CommitAt(s) == CHOOSE i \in 1..Len(ledger) : IsCommit(ledger[i], s)
CloseAt(s) == CHOOSE i \in 1..Len(ledger) : IsClose(ledger[i], s)
CommitTime(s) == ledger[CommitAt(s)].at
CloseTime(s) == ledger[CloseAt(s)].at

LEMMA CommitAtIs ==
  ASSUME History(ledger), NEW s \in Stake, NEW i \in 1..Len(ledger), IsCommit(ledger[i], s)
  PROVE  CommitAt(s) = i
  <1>1. \A j \in 1..Len(ledger) : IsCommit(ledger[j], s) => j = i
    BY TakenIsHeld DEF History, Once
  <1> QED
    BY <1>1 DEF CommitAt

LEMMA CloseAtIs ==
  ASSUME History(ledger), NEW s \in Stake, NEW i \in 1..Len(ledger), IsClose(ledger[i], s)
  PROVE  CloseAt(s) = i
  <1>1. \A j \in 1..Len(ledger) : IsClose(ledger[j], s) => j = i
    BY TakenIsHeld DEF History, Once
  <1> QED
    BY <1>1 DEF CloseAt

\* The reader takes one commit from a transaction.
LEMMA CommitsApart ==
  ASSUME History(ledger), NEW s \in Stake, NEW t \in Stake, NEW i \in 1..Len(ledger),
         IsCommit(ledger[i], s), IsCommit(ledger[i], t)
  PROVE  s = t
  <1>1. ledger[i].events[1].stake = s
    BY CommitIs
  <1>2. ledger[i].events[1].stake = t
    BY CommitIs
  <1> QED
    BY <1>1, <1>2

Joinable ==
  {s \in Stake : /\ \E i \in 1..Len(ledger) : IsCommit(ledger[i], s)
                 /\ \E i \in 1..Len(ledger) : IsClose(ledger[i], s)}

JoinedRow(s) == RowOf(CommitFact(s, CommitTime(s)), ClosingFact(ledger[CloseAt(s)], s))

LEMMA ReturnedIs ==
  ASSUME NEW tx, NEW s \in Stake, IsClose(tx, s), NEW m
  PROVE  /\ ExitAmounts(CommitFact(s, m), ClosingFact(tx, s)).returned = UnitsOf[s]
         /\ "returned" \in DOMAIN ExitAmounts(CommitFact(s, m), ClosingFact(tx, s))
  <1> DEFINE f == ClosingFact(tx, s)
             c == CommitFact(s, m)
  <1>1. PICK choice \in ClosingChoice, o \in Outcome : tx.events[1] = ClosingEvent(choice, s, o)
    BY DEF IsClose
  <1>2. f.choice = choice
    BY <1>1 DEF ClosingFact, ClosingEvent, Event
  <1>3. choice = "GameStake_Settle" => f.outcome = [o EXCEPT !.returned = UnitsOf[s]]
    BY <1>1 DEF ClosingFact, ClosingEvent, Event
  <1>4. o \in [disposition : STRING, returned : Int, forfeited : Int, payout : Int]
    BY ReaderAssumption DEF ReaderAssumption
  <1>5. LET said == [o EXCEPT !.returned = UnitsOf[s]]
        IN  said.returned = UnitsOf[s] /\ "returned" \in DOMAIN said
    BY <1>4
  <1>6. c.committed = UnitsOf[s]
    BY DEF CommitFact
  <1> HIDE DEF f, c
  <1>7. ExitAmounts(c, f).returned = UnitsOf[s] /\ "returned" \in DOMAIN ExitAmounts(c, f)
    <2>1. CASE choice = "GameStake_Settle"
      BY <1>2, <1>3, <1>5, <2>1 DEF ExitAmounts
    <2>2. CASE choice # "GameStake_Settle"
      BY <1>2, <1>6, <2>2 DEF ExitAmounts
    <2> QED
      BY <2>1, <2>2
  <1> QED
    BY <1>7 DEF f, c

LEMMA LedgerRowIs ==
  ASSUME History(ledger), NEW s \in Joinable
  PROVE  /\ LedgerRow(s) = JoinedRow(s)
         /\ CommitAt(s) \in 1..Len(ledger) /\ IsCommit(ledger[CommitAt(s)], s)
         /\ CloseAt(s) \in 1..Len(ledger) /\ IsClose(ledger[CloseAt(s)], s)
         /\ LedgerRow(s).committedAt = CommitTime(s) /\ CommitTime(s) \in Int
         /\ LedgerRow(s).settledAt = CloseTime(s) /\ CloseTime(s) \in Int
         /\ LedgerRow(s).cycleId = CycleIdOf[s]
         /\ "returned" \in DOMAIN LedgerRow(s).exit /\ LedgerRow(s).exit.returned = UnitsOf[s]
         /\ \E x : LedgerRow(s) = [cycleId |-> CycleIdOf[s], committed |-> UnitsOf[s],
                                   committedAt |-> CommitTime(s), settledAt |-> CloseTime(s), exit |-> x]
  <1> DEFINE n == Len(ledger)
             at(names) == CHOOSE i \in DOMAIN ledger :
                            \E j \in DOMAIN ledger[i].events :
                               ledger[i].events[j].node \in names /\ ledger[i].events[j].stake = s
             closing == CHOOSE e \in Range(ledger[at(ClosingChoice)].events) :
                            e.node \in ClosingChoice /\ e.stake = s
             exit == IF closing.node = "GameStake_Settle" THEN closing.outcome
                     ELSE [disposition |-> IF closing.node = "GameStake_Abort" THEN "aborted"
                                           ELSE "expired-unsettled",
                           returned |-> UnitsOf[s], forfeited |-> 0, payout |-> 0]
  <1>0. LedgerRow(s) = [cycleId |-> CycleIdOf[s], committed |-> UnitsOf[s],
                        committedAt |-> ledger[at({"GameStake"})].at,
                        settledAt |-> ledger[at(ClosingChoice)].at, exit |-> exit]
    BY DEF LedgerRow
  <1>1. DOMAIN ledger = 1..n /\ n \in Nat
    BY DEF History, IsList
  <1>2. PICK c \in 1..n : IsCommit(ledger[c], s)
    BY DEF Joinable
  <1>3. PICK z \in 1..n : IsClose(ledger[z], s)
    BY DEF Joinable
  <1>4. /\ s \in Stake /\ CommitAt(s) = c /\ CloseAt(s) = z
        /\ CommitTime(s) = ledger[c].at /\ CloseTime(s) = ledger[z].at
    <2>1. s \in Stake
      BY DEF Joinable
    <2> QED
      BY <1>2, <1>3, <2>1, CommitAtIs, CloseAtIs DEF CommitTime, CloseTime
  <1>5. HasHalf(ledger[c], {"GameStake"}, s) /\ HasHalf(ledger[z], ClosingChoice, s)
    BY <1>2, <1>3, TakenIsHeld
  <1>6. \A i \in 1..n : /\ HasHalf(ledger[i], {"GameStake"}, s) => i = c
                        /\ HasHalf(ledger[i], ClosingChoice, s) => i = z
    BY <1>4, <1>5 DEF History, Once
  <1>7. at({"GameStake"}) = c
    BY <1>1, <1>5, <1>6 DEF HasHalf
  <1>8. at(ClosingChoice) = z
    BY <1>1, <1>5, <1>6 DEF HasHalf
  <1> HIDE DEF at
  <1> DEFINE tx == ledger[z]
  <1>9. /\ tx.events[1].stake = s /\ tx.events[1].node \in ClosingChoice /\ 1 \in DOMAIN tx.events
        /\ \A j \in DOMAIN tx.events :
             tx.events[j].node \in ClosingChoice /\ tx.events[j].stake = s => j = 1
    BY <1>3, CloseIs
  <1>10. closing = tx.events[1]
    <2>1. \A e : e \in Range(tx.events) <=> \E j \in DOMAIN tx.events : e = tx.events[j]
      BY DEF Range
    <2>2. closing = CHOOSE e \in Range(tx.events) : e.node \in ClosingChoice /\ e.stake = s
      BY <1>8
    <2> HIDE DEF closing, tx
    <2>3. \A e \in Range(tx.events) : e.node \in ClosingChoice /\ e.stake = s => e = tx.events[1]
      BY <1>9, <2>1
    <2>4. tx.events[1] \in Range(tx.events)
      BY <1>9, <2>1
    <2> QED
      BY <1>9, <2>2, <2>3, <2>4
  <1> HIDE DEF closing
  <1>11. /\ ClosingFact(tx, s).choice = closing.node /\ ClosingFact(tx, s).outcome = closing.outcome
         /\ ClosingFact(tx, s).settledAt = tx.at
    BY <1>10 DEF ClosingFact
  <1> DEFINE ct == ledger[c].at
  <1>12. /\ CommitFact(s, ct).committed = UnitsOf[s] /\ CommitFact(s, ct).cycleId = CycleIdOf[s]
         /\ CommitFact(s, ct).committedAt = ct
    BY DEF CommitFact
  <1>19. ct \in Int /\ tx.at \in Int
    BY <1>2, <1>3 DEF IsCommit, IsClose
  <1>20. ct = ledger[c].at /\ tx.at = ledger[z].at
    OBVIOUS
  <1>13. exit = ExitAmounts(CommitFact(s, ct), ClosingFact(tx, s))
    BY <1>11, <1>12 DEF ExitAmounts
  <1>14. exit.returned = UnitsOf[s] /\ "returned" \in DOMAIN exit
    BY <1>3, <1>4, <1>13, ReturnedIs
  <1> HIDE DEF exit
  <1>15. LedgerRow(s) = [cycleId |-> CycleIdOf[s], committed |-> UnitsOf[s],
                         committedAt |-> ct, settledAt |-> tx.at, exit |-> exit]
    BY <1>0, <1>7, <1>8, <1>20
  <1>16. JoinedRow(s) = [cycleId |-> CycleIdOf[s], committed |-> UnitsOf[s],
                         committedAt |-> ct, settledAt |-> tx.at, exit |-> exit]
    BY <1>4, <1>11, <1>12, <1>13 DEF JoinedRow, RowOf
  <1>17. /\ LedgerRow(s).committedAt = ct /\ LedgerRow(s).settledAt = tx.at
         /\ LedgerRow(s).cycleId = CycleIdOf[s] /\ LedgerRow(s).exit = exit
    BY <1>15
  <1> QED
    BY <1>2, <1>3, <1>4, <1>14, <1>15, <1>16, <1>17, <1>19, <1>20

-----------------------------------------------------------------------------
(* What the reader makes of what it was handed: the report of the stakes    *)
(* of which it has both halves.                                             *)
CommitsIn(p) == {s \in Stake : \E i \in 1..Len(p) : IsCommit(ledger[p[i]], s)}
ClosesIn(p) == {s \in Stake : \E i \in 1..Len(p) : IsClose(ledger[p[i]], s)}

CommitFactsOf(S) == {CommitFact(s, CommitTime(s)) : s \in S}
ClosingFactsOf(S) == {ClosingFact(ledger[CloseAt(s)], s) : s \in S}

LEMMA TxsAre ==
  ASSUME History(ledger), NEW p, Handed(p, ledger)
  PROVE  /\ Len(p) \in Nat /\ Txs(p) = [i \in 1..Len(p) |-> ledger[p[i]]]
         /\ \A i \in 1..Len(p) : p[i] \in 1..Len(ledger)
         /\ \A i \in 1..Len(p) : \E s \in Stake : \/ IsCommit(ledger[p[i]], s) /\ CommitAt(s) = p[i]
                                                  \/ IsClose(ledger[p[i]], s) /\ CloseAt(s) = p[i]
  <1>1. Len(p) \in Nat /\ DOMAIN p = 1..Len(p) /\ \A i \in 1..Len(p) : p[i] \in 1..Len(ledger)
    BY DEF Handed, IsList
  <1>2. ASSUME NEW i \in 1..Len(p)
        PROVE  \E s \in Stake : \/ IsCommit(ledger[p[i]], s) /\ CommitAt(s) = p[i]
                                \/ IsClose(ledger[p[i]], s) /\ CloseAt(s) = p[i]
    <2>1. p[i] \in 1..Len(ledger)
      BY <1>1
    <2>2. PICK s \in Stake : IsCommit(ledger[p[i]], s) \/ IsClose(ledger[p[i]], s)
      BY <2>1 DEF History, Kept
    <2> QED
      BY <2>1, <2>2, CommitAtIs, CloseAtIs
  <1> QED
    BY <1>1, <1>2 DEF Txs

LEMMA CommitsHeld ==
  ASSUME History(ledger), NEW p, Handed(p, ledger)
  PROVE  Holds(CommitMap(Txs(p)), CommitFactsOf(CommitsIn(p)))
  <1> DEFINE n == Len(p)
             facts == [i \in 1..n |-> CommitFacts(ledger[p[i]])]
  <1>1. /\ n \in Nat /\ Txs(p) = [i \in 1..n |-> ledger[p[i]]]
        /\ \A i \in 1..n : p[i] \in 1..Len(ledger)
        /\ \A i \in 1..n : \E s \in Stake : \/ IsCommit(ledger[p[i]], s) /\ CommitAt(s) = p[i]
                                            \/ IsClose(ledger[p[i]], s) /\ CloseAt(s) = p[i]
    BY TxsAre
  <1>2. CommitMap(Txs(p)) = MapOf(facts)
    <2>1. [i \in DOMAIN Txs(p) |-> CommitFacts(Txs(p)[i])] = facts
      BY <1>1
    <2> HIDE DEF facts
    <2> QED
      BY <2>1 DEF CommitMap
  <1>3. CommitsIn(p) = {s \in Stake : \E i \in 1..n : IsCommit(ledger[p[i]], s)}
    BY DEF CommitsIn
  <1>4. \A i \in 1..n : facts[i] = CommitFacts(ledger[p[i]])
    OBVIOUS
  <1> HIDE DEF n
  <1>5. facts = [i \in 1..n |-> facts[i]]
    OBVIOUS
  <1> HIDE DEF facts
  <1>6. IsList(facts) /\ Len(facts) = n
    BY <1>1, <1>5, ListIs
  <1>7. ASSUME NEW i \in 1..n
        PROVE  facts[i] = {} \/ \E s \in CommitsIn(p) : facts[i] = {CommitFact(s, CommitTime(s))}
    <2>1. PICK s \in Stake : \/ IsCommit(ledger[p[i]], s) /\ CommitAt(s) = p[i]
                             \/ IsClose(ledger[p[i]], s) /\ CloseAt(s) = p[i]
      BY <1>1
    <2>2. CASE IsCommit(ledger[p[i]], s) /\ CommitAt(s) = p[i]
      <3>1. s \in CommitsIn(p)
        BY <1>3, <2>2
      <3>2. CommitFacts(ledger[p[i]]) = {CommitFact(s, CommitTime(s))}
        BY <2>2, CommitIs DEF CommitTime
      <3> QED
        BY <1>4, <2>2, <3>1, <3>2
    <2>3. CASE IsClose(ledger[p[i]], s)
      BY <1>4, <2>3, CloseIs
    <2> QED
      BY <2>1, <2>2, <2>3
  <1>8. ASSUME NEW s \in CommitsIn(p) PROVE \E i \in 1..n : facts[i] = {CommitFact(s, CommitTime(s))}
    <2>1. PICK i \in 1..n : IsCommit(ledger[p[i]], s)
      BY <1>3
    <2>2. CommitAt(s) = p[i]
      BY <1>1, <1>3, <2>1, CommitAtIs
    <2>3. CommitFacts(ledger[p[i]]) = {CommitFact(s, CommitTime(s))}
      BY <2>1, <2>2, CommitIs DEF CommitTime
    <2> QED
      BY <1>4, <2>2, <2>3
  <1>9. \A s : CommitFact(s, CommitTime(s)).stake = s
    BY DEF CommitFact
  <1>10. \A i, j \in 1..n : \A f \in facts[i], g \in facts[j] : f.stake = g.stake => f = g
    BY <1>7, <1>9
  <1>11. \A i \in 1..n : facts[i] = {} \/ \E f : facts[i] = {f}
    BY <1>7
  <1>12. Holds(MapOf(facts), UNION {facts[i] : i \in 1..n})
    BY <1>6, <1>10, <1>11, MapHolds
  <1>13. UNION {facts[i] : i \in 1..n} = CommitFactsOf(CommitsIn(p))
    BY <1>7, <1>8 DEF CommitFactsOf
  <1> QED
    BY <1>2, <1>12, <1>13

LEMMA ClosesHeld ==
  ASSUME History(ledger), NEW p, Handed(p, ledger)
  PROVE  Holds(ClosingMap(Txs(p)), ClosingFactsOf(ClosesIn(p)))
  <1> DEFINE n == Len(p)
             facts == [i \in 1..n |-> ClosingFacts(ledger[p[i]])]
  <1>1. /\ n \in Nat /\ Txs(p) = [i \in 1..n |-> ledger[p[i]]]
        /\ \A i \in 1..n : p[i] \in 1..Len(ledger)
        /\ \A i \in 1..n : \E s \in Stake : \/ IsCommit(ledger[p[i]], s) /\ CommitAt(s) = p[i]
                                            \/ IsClose(ledger[p[i]], s) /\ CloseAt(s) = p[i]
    BY TxsAre
  <1>2. ClosingMap(Txs(p)) = MapOf(facts)
    <2>1. [i \in DOMAIN Txs(p) |-> ClosingFacts(Txs(p)[i])] = facts
      BY <1>1
    <2> HIDE DEF facts
    <2> QED
      BY <2>1 DEF ClosingMap
  <1>3. ClosesIn(p) = {s \in Stake : \E i \in 1..n : IsClose(ledger[p[i]], s)}
    BY DEF ClosesIn
  <1>4. \A i \in 1..n : facts[i] = ClosingFacts(ledger[p[i]])
    OBVIOUS
  <1> HIDE DEF n
  <1>5. facts = [i \in 1..n |-> facts[i]]
    OBVIOUS
  <1> HIDE DEF facts
  <1>6. IsList(facts) /\ Len(facts) = n
    BY <1>1, <1>5, ListIs
  <1>7. ASSUME NEW i \in 1..n
        PROVE  facts[i] = {} \/ \E s \in ClosesIn(p) : facts[i] = {ClosingFact(ledger[CloseAt(s)], s)}
    <2>1. PICK s \in Stake : \/ IsCommit(ledger[p[i]], s) /\ CommitAt(s) = p[i]
                             \/ IsClose(ledger[p[i]], s) /\ CloseAt(s) = p[i]
      BY <1>1
    <2>2. CASE IsClose(ledger[p[i]], s) /\ CloseAt(s) = p[i]
      <3>1. s \in ClosesIn(p)
        BY <1>3, <2>2
      <3>2. ClosingFacts(ledger[p[i]]) = {ClosingFact(ledger[p[i]], s)}
        BY <2>2, CloseIs
      <3> QED
        BY <1>4, <2>2, <3>1, <3>2
    <2>3. CASE IsCommit(ledger[p[i]], s)
      BY <1>4, <2>3, CommitIs
    <2> QED
      BY <2>1, <2>2, <2>3
  <1>8. ASSUME NEW s \in ClosesIn(p) PROVE \E i \in 1..n : facts[i] = {ClosingFact(ledger[CloseAt(s)], s)}
    <2>1. PICK i \in 1..n : IsClose(ledger[p[i]], s)
      BY <1>3
    <2>2. CloseAt(s) = p[i]
      BY <1>1, <1>3, <2>1, CloseAtIs
    <2>3. ClosingFacts(ledger[p[i]]) = {ClosingFact(ledger[p[i]], s)}
      BY <2>1, CloseIs
    <2> QED
      BY <1>4, <2>2, <2>3
  <1>9. \A s : ClosingFact(ledger[CloseAt(s)], s).stake = s
    BY DEF ClosingFact
  <1>10. \A i, j \in 1..n : \A f \in facts[i], g \in facts[j] : f.stake = g.stake => f = g
    BY <1>7, <1>9
  <1>11. \A i \in 1..n : facts[i] = {} \/ \E f : facts[i] = {f}
    BY <1>7
  <1>12. Holds(MapOf(facts), UNION {facts[i] : i \in 1..n})
    BY <1>6, <1>10, <1>11, MapHolds
  <1>13. UNION {facts[i] : i \in 1..n} = ClosingFactsOf(ClosesIn(p))
    BY <1>7, <1>8 DEF ClosingFactsOf
  <1> QED
    BY <1>2, <1>12, <1>13

\* The stakes of a map, and the fact of one.
LEMMA HeldStakes ==
  ASSUME NEW map, NEW F, Holds(map, F)
  PROVE  /\ Stakes(map) = {f.stake : f \in F}
         /\ \A f \in F : FactOf(map, f.stake) = f
  <1>1. DOMAIN map = 1..Len(map)
    BY DEF Holds, IsList
  <1>2. Stakes(map) = {f.stake : f \in F}
    BY <1>1 DEF Holds, Stakes
  <1>3. ASSUME NEW f \in F PROVE FactOf(map, f.stake) = f
    <2>1. PICK i \in 1..Len(map) : map[i] = f
      BY DEF Holds
    <2>2. \A j \in 1..Len(map) : map[j].stake = f.stake => j = i
      BY <2>1 DEF Holds
    <2>3. (CHOOSE j \in DOMAIN map : map[j].stake = f.stake) = i
      BY <1>1, <2>1, <2>2
    <2> QED
      BY <2>1, <2>3 DEF FactOf
  <1> QED
    BY <1>2, <1>3

\* A report of the stakes S: a row of each, in the order of a report.
IsReport(rows, S) ==
  /\ IsList(rows) /\ IsFiniteSet(S) /\ Len(rows) = Cardinality(S)
  /\ InRowOrder(Len(rows), rows)
  /\ \E u \in [1..Len(rows) -> S] :
        /\ \A i \in 1..Len(rows) : rows[i] = LedgerRow(u[i])
        /\ \A i, j \in 1..Len(rows) : u[i] = u[j] => i = j
        /\ \A s \in S : \E i \in 1..Len(rows) : u[i] = s

LEMMA ReportRows ==
  ASSUME NEW rows, NEW S, IsReport(rows, S)
  PROVE  /\ \A i \in 1..Len(rows) : \E s \in S : rows[i] = LedgerRow(s)
         /\ \A s \in S : \E i \in 1..Len(rows) : rows[i] = LedgerRow(s)
  BY DEF IsReport

LEMMA LedgerRowOrdered ==
  ASSUME History(ledger), NEW s \in Joinable
  PROVE  IsRow(LedgerRow(s))
  <1>1. s \in Stake /\ LedgerRow(s).committedAt \in Int /\ LedgerRow(s).cycleId = CycleIdOf[s]
    BY LedgerRowIs DEF Joinable
  <1> QED
    BY <1>1, ReaderAssumption DEF IsRow, IsName, ReaderAssumption

\* Places that hold the stakes, sorted by the rows of these.
Placed(S, I, f, before) ==
  /\ S \subseteq Joinable
  /\ IsFiniteSet(I) /\ I \subseteq Int /\ \A i, j \in I : f[i] = f[j] => i = j
  /\ \A s : s \in S <=> \E i \in I : s = f[i]
  /\ \A i, j \in I : <<i, j>> \in before <=> Stable(LedgerRow(f[i]), LedgerRow(f[j]), i, j)

LEMMA PlacedTotal ==
  ASSUME History(ledger), NEW S, NEW I, NEW f, NEW before, Placed(S, I, f, before)
  PROVE  Total(I, before)
  <1>1. /\ S \subseteq Joinable /\ I \subseteq Int /\ \A i \in I : f[i] \in S
        /\ \A i, j \in I : <<i, j>> \in before <=> Stable(LedgerRow(f[i]), LedgerRow(f[j]), i, j)
    BY DEF Placed
  <1> DEFINE r(i) == LedgerRow(f[i])
  <1>2. \A i \in I : IsRow(r(i)) /\ i \in Int
    BY <1>1, LedgerRowOrdered
  <1>3. \A i, j \in I : <<i, j>> \in before <=> Stable(r(i), r(j), i, j)
    BY <1>1
  <1> HIDE DEF r
  <1>4. ASSUME NEW i \in I, NEW j \in I, i # j PROVE <<i, j>> \in before \/ <<j, i>> \in before
    BY <1>2, <1>3, <1>4, StableTotal
  <1>5. ASSUME NEW i \in I, NEW j \in I, NEW k \in I, <<i, j>> \in before, <<j, k>> \in before
        PROVE  <<i, k>> \in before
    <2>1. /\ IsRow(r(i)) /\ IsRow(r(j)) /\ IsRow(r(k)) /\ i \in Int /\ j \in Int /\ k \in Int
          /\ Stable(r(i), r(j), i, j) /\ Stable(r(j), r(k), j, k)
      BY <1>2, <1>3, <1>5
    <2>2. Stable(r(i), r(k), i, k)
      BY <2>1, StableTransitive
    <2> QED
      BY <1>3, <2>2
  <1> QED
    BY <1>4, <1>5 DEF Total

LEMMA OrderedRows ==
  ASSUME History(ledger), NEW rows, NEW S, NEW I, NEW f, NEW before, Placed(S, I, f, before),
         rows = [k \in 1..Cardinality(I) |-> LedgerRow(f[InOrder(I, before)[k]])]
  PROVE  IsReport(rows, S)
  <1> DEFINE m == Cardinality(I)
             order == InOrder(I, before)
             u == [k \in 1..m |-> f[order[k]]]
  <1>0. /\ S \subseteq Joinable
        /\ IsFiniteSet(I) /\ I \subseteq Int /\ \A i, j \in I : f[i] = f[j] => i = j
        /\ \A s : s \in S <=> \E i \in I : s = f[i]
        /\ \A i, j \in I : <<i, j>> \in before <=> Stable(LedgerRow(f[i]), LedgerRow(f[j]), i, j)
    BY DEF Placed
  <1>1. Total(I, before)
    BY PlacedTotal
  <1>2. /\ m \in Nat /\ order \in [1..m -> I] /\ Sorted(m, order, before)
        /\ \A i, j \in 1..m : i # j => order[i] # order[j]
        /\ \A i \in I : \E k \in 1..m : order[k] = i
    BY <1>0, <1>1, InOrderIs
  <1>3. IsFiniteSet(S) /\ Cardinality(S) = m
    BY <1>0, SameSize
  <1>4. rows = [k \in 1..m |-> LedgerRow(f[order[k]])]
    OBVIOUS
  <1> HIDE DEF order, m
  <1>5. /\ u \in [1..m -> S]
        /\ \A k \in 1..m : rows[k] = LedgerRow(u[k]) /\ u[k] = f[order[k]]
    BY <1>0, <1>2, <1>4
  <1>6. IsList(rows) /\ Len(rows) = m
    <2>1. rows = [k \in 1..m |-> rows[k]]
      BY <1>4
    <2> QED
      BY <1>2, <2>1, ListIs
  <1> HIDE DEF u
  <1>7. ASSUME NEW k \in 1..m PROVE IsRow(rows[k])
    <2>1. u[k] \in Joinable
      BY <1>0, <1>5
    <2> QED
      BY <1>5, <2>1, LedgerRowOrdered
  <1>8. ASSUME NEW k \in 1..m, NEW l \in 1..m, k < l PROVE ~RowBefore(rows[l], rows[k])
    <2>1. order[k] \in I /\ order[l] \in I /\ <<order[k], order[l]>> \in before
      BY <1>2, <1>8 DEF Sorted
    <2>2. Stable(rows[k], rows[l], order[k], order[l])
      <3>1. rows[k] = LedgerRow(f[order[k]]) /\ rows[l] = LedgerRow(f[order[l]])
        BY <1>4
      <3>2. Stable(LedgerRow(f[order[k]]), LedgerRow(f[order[l]]), order[k], order[l])
        BY <1>0, <2>1
      <3> QED
        BY <3>1, <3>2
    <2>3. ~(RowBefore(rows[k], rows[l]) /\ RowBefore(rows[l], rows[k]))
      BY <1>7, RowsOrdered
    <2> QED
      BY <2>2, <2>3 DEF Stable
  <1>9. ASSUME NEW k \in 1..m, NEW l \in 1..m, u[k] = u[l] PROVE k = l
    <2>1. f[order[k]] = f[order[l]] /\ order[k] \in I /\ order[l] \in I
      BY <1>2, <1>5, <1>9
    <2>2. order[k] = order[l]
      BY <1>0, <2>1
    <2> QED
      BY <1>2, <2>2
  <1>10. ASSUME NEW s \in S PROVE \E k \in 1..m : u[k] = s
    <2>1. PICK i \in I : s = f[i]
      BY <1>0
    <2>2. PICK k \in 1..m : order[k] = i
      BY <1>2
    <2> QED
      BY <1>5, <2>1, <2>2
  <1>11. InRowOrder(m, rows)
    BY <1>7, <1>8 DEF InRowOrder
  <1>12. /\ \A i \in 1..m : rows[i] = LedgerRow(u[i])
         /\ \A i, j \in 1..m : u[i] = u[j] => i = j
         /\ \A s \in S : \E i \in 1..m : u[i] = s
    BY <1>5, <1>9, <1>10
  <1>14. m = Len(rows)
    BY <1>6
  <1>15. InRowOrder(Len(rows), rows)
    BY <1>11, <1>14
  <1>16. \E g \in [1..Len(rows) -> S] :
            /\ \A i \in 1..Len(rows) : rows[i] = LedgerRow(g[i])
            /\ \A i, j \in 1..Len(rows) : g[i] = g[j] => i = j
            /\ \A s \in S : \E i \in 1..Len(rows) : g[i] = s
    <2>1. /\ u \in [1..Len(rows) -> S]
          /\ \A i \in 1..Len(rows) : rows[i] = LedgerRow(u[i])
          /\ \A i, j \in 1..Len(rows) : u[i] = u[j] => i = j
          /\ \A s \in S : \E i \in 1..Len(rows) : u[i] = s
      BY <1>5, <1>12, <1>14
    <2> QED
      BY <2>1
  <1> QED
    BY <1>3, <1>6, <1>15, <1>16 DEF IsReport

LEMMA ResultIs ==
  ASSUME History(ledger), NEW p, Handed(p, ledger)
  PROVE  LET r == RowsFromTransactions(Txs(p))
             C == CommitsIn(p)
             Z == ClosesIn(p)
         IN  /\ IsReport(r.rows, C \cap Z) /\ r.warnings = {}
             /\ r.openStakes = C \ Z /\ r.orphanClosings = Z \ C
             /\ r = [rows |-> r.rows, warnings |-> {}, openStakes |-> C \ Z, orphanClosings |-> Z \ C]
  <1> DEFINE r == RowsFromTransactions(Txs(p))
             C == CommitsIn(p)
             Z == ClosesIn(p)
             commits == CommitMap(Txs(p))
             closings == ClosingMap(Txs(p))
             closingOf(c) == FactOf(closings, c.stake)
             row(i) == RowOf(commits[i], closingOf(commits[i]))
             joined == {i \in DOMAIN commits : commits[i].stake \in Stakes(closings)}
             first(i, j) == RowBefore(row(i), row(j)) \/ (~RowBefore(row(j), row(i)) /\ i < j)
             before == {x \in joined \X joined : first(x[1], x[2])}
             order == InOrder(joined, before)
             disagrees(c) == \E u \in closingOf(c).unlocked : u # ExitAmounts(c, closingOf(c)).returned
             n == Len(commits)
             f == [i \in 1..n |-> commits[i].stake]
  <1>1. r = [rows |-> [i \in 1..Cardinality(joined) |-> row(order[i])],
             warnings |-> {commits[i].cycleId : i \in {j \in joined : disagrees(commits[j])}},
             openStakes |-> Stakes(commits) \ Stakes(closings),
             orphanClosings |-> Stakes(closings) \ Stakes(commits)]
    BY DEF RowsFromTransactions, JoinHalves
  <1> HIDE DEF r
  <1>2. Holds(commits, CommitFactsOf(C)) /\ Holds(closings, ClosingFactsOf(Z))
    BY CommitsHeld, ClosesHeld
  <1> HIDE DEF commits, closings
  <1>3. (\A s : CommitFact(s, CommitTime(s)).stake = s) /\ (\A s : ClosingFact(ledger[CloseAt(s)], s).stake = s)
    BY DEF CommitFact, ClosingFact
  <1>4. Stakes(commits) = C /\ Stakes(closings) = Z
    <2>1. /\ Stakes(commits) = {g.stake : g \in CommitFactsOf(C)}
          /\ Stakes(closings) = {g.stake : g \in ClosingFactsOf(Z)}
      BY <1>2, HeldStakes
    <2> HIDE DEF C, Z
    <2>2. {g.stake : g \in CommitFactsOf(C)} = C
      BY <1>3 DEF CommitFactsOf
    <2>3. {g.stake : g \in ClosingFactsOf(Z)} = Z
      BY <1>3 DEF ClosingFactsOf
    <2> QED
      BY <2>1, <2>2, <2>3
  <1>5. \A s \in Z : FactOf(closings, s) = ClosingFact(ledger[CloseAt(s)], s)
    <2> SUFFICES ASSUME NEW s \in Z PROVE FactOf(closings, s) = ClosingFact(ledger[CloseAt(s)], s)
      OBVIOUS
    <2> DEFINE g == ClosingFact(ledger[CloseAt(s)], s)
    <2>1. g \in ClosingFactsOf(Z) /\ g.stake = s
      BY <1>3 DEF ClosingFactsOf
    <2> HIDE DEF g, Z
    <2>2. FactOf(closings, g.stake) = g
      BY <1>2, <2>1, HeldStakes
    <2> QED
      BY <2>1, <2>2 DEF g
  <1>6. /\ n \in Nat /\ DOMAIN commits = 1..n
        /\ \A i \in 1..n : commits[i] \in CommitFactsOf(C)
        /\ \A g \in CommitFactsOf(C) : \E i \in 1..n : commits[i] = g
        /\ \A i, j \in 1..n : commits[i].stake = commits[j].stake => i = j
    BY <1>2 DEF Holds, IsList
  <1>7. ASSUME NEW i \in 1..n
        PROVE  f[i] \in C /\ commits[i].stake = f[i] /\ commits[i] = CommitFact(f[i], CommitTime(f[i]))
    <2>1. commits[i] \in CommitFactsOf(C) /\ f[i] = commits[i].stake
      BY <1>6
    <2> HIDE DEF f, C
    <2> QED
      BY <1>3, <2>1 DEF CommitFactsOf
  <1>8. \A i, j \in 1..n : f[i] = f[j] => i = j
    BY <1>6
  <1>9. ASSUME NEW s \in C PROVE \E i \in 1..n : s = f[i]
    <2>1. CommitFact(s, CommitTime(s)) \in CommitFactsOf(C)
      BY DEF CommitFactsOf
    <2> HIDE DEF C
    <2>2. PICK i \in 1..n : commits[i] = CommitFact(s, CommitTime(s))
      BY <1>6, <2>1
    <2> QED
      BY <1>3, <2>2
  <1>10. joined = {i \in 1..n : f[i] \in Z}
    BY <1>4, <1>6, <1>7
  <1> HIDE DEF f, n
  <1>11. IsFiniteSet(joined) /\ \A i \in joined : i \in 1..n
    <2>1. joined \in SUBSET (1..n) /\ IsFiniteSet(1..n)
      BY <1>6, <1>10, FS_Interval
    <2> QED
      BY <2>1, FS_Subset
  <1>12. C \cap Z \subseteq Joinable /\ C \cap Z \subseteq Stake
    <2>1. \A i \in 1..Len(p) : p[i] \in 1..Len(ledger)
      BY DEF Handed
    <2> QED
      BY <2>1 DEF CommitsIn, ClosesIn, Joinable
  <1>13. ASSUME NEW i \in joined
         PROVE  /\ f[i] \in C \cap Z /\ closingOf(commits[i]) = ClosingFact(ledger[CloseAt(f[i])], f[i])
                /\ row(i) = LedgerRow(f[i]) /\ ~disagrees(commits[i])
    <2>1. i \in 1..n /\ f[i] \in Z /\ f[i] \in C
      BY <1>7, <1>10
    <2> DEFINE s == f[i]
    <2>2. s \in Joinable /\ s \in Stake
      BY <1>12, <2>1
    <2>3. /\ LedgerRow(s) = JoinedRow(s)
          /\ IsClose(ledger[CloseAt(s)], s)
      BY <2>2, LedgerRowIs
    <2>4. closingOf(commits[i]) = ClosingFact(ledger[CloseAt(s)], s)
      BY <1>5, <1>7, <2>1
    <2>5. commits[i] = CommitFact(s, CommitTime(s))
      BY <1>7, <2>1
    <2>6. row(i) = LedgerRow(s)
      BY <2>3, <2>4, <2>5 DEF JoinedRow
    <2>8. ~disagrees(commits[i])
      <3>1. \A u \in ClosingFact(ledger[CloseAt(s)], s).unlocked : u = UnitsOf[s]
        BY <2>3, CloseIs
      <3>2. ExitAmounts(CommitFact(s, CommitTime(s)), ClosingFact(ledger[CloseAt(s)], s)).returned = UnitsOf[s]
        BY <2>2, <2>3, ReturnedIs
      <3> QED
        BY <2>4, <2>5, <3>1, <3>2
    <2> QED
      BY <2>1, <2>4, <2>6, <2>8
  <1> HIDE DEF C, Z, row, disagrees, closingOf
  <1>14. \A s : s \in C \cap Z <=> \E i \in joined : s = f[i]
    BY <1>9, <1>10, <1>13
  <1> HIDE DEF joined
  <1>15. ASSUME NEW i \in joined, NEW j \in joined
         PROVE  <<i, j>> \in before <=> Stable(LedgerRow(f[i]), LedgerRow(f[j]), i, j)
    <2>1. row(i) = LedgerRow(f[i]) /\ row(j) = LedgerRow(f[j])
      BY <1>13
    <2>2. <<i, j>> \in before <=> first(i, j)
      OBVIOUS
    <2> QED
      BY <2>1, <2>2 DEF Stable
  <1> DEFINE S == C \cap Z
  <1>16. (\A s : s \in S <=> \E i \in joined : s = f[i]) /\ S \subseteq Joinable
    BY <1>12, <1>14
  <1> HIDE DEF before, S
  <1>19. Placed(S, joined, f, before)
    <2>1. \A i, j \in joined : f[i] = f[j] => i = j
      BY <1>8, <1>11
    <2>2. joined \subseteq Int
      BY <1>6, <1>11
    <2> QED
      BY <1>11, <1>15, <1>16, <2>1, <2>2 DEF Placed
  <1>17. order \in [1..Cardinality(joined) -> joined]
    <2>1. Total(joined, before)
      BY <1>19, PlacedTotal
    <2> QED
      BY <1>11, <2>1, InOrderIs
  <1> DEFINE rows == r.rows
  <1>18. rows = [k \in 1..Cardinality(joined) |-> LedgerRow(f[order[k]])]
    <2>1. rows = [k \in 1..Cardinality(joined) |-> row(order[k])]
      BY <1>1
    <2>2. \A k \in 1..Cardinality(joined) : row(order[k]) = LedgerRow(f[order[k]])
      BY <1>13, <1>17
    <2> HIDE DEF rows, order
    <2> QED
      BY <2>1, <2>2
  <1> HIDE DEF rows
  <1>21. IsReport(rows, S)
    BY <1>18, <1>19, OrderedRows
  <1>22. r.warnings = {}
    <2>1. {j \in joined : disagrees(commits[j])} = {}
      BY <1>13
    <2> QED
      BY <1>1, <2>1
  <1>23. r.openStakes = C \ Z /\ r.orphanClosings = Z \ C
    BY <1>1, <1>4
  <1>24. r = [rows |-> rows, warnings |-> {}, openStakes |-> C \ Z, orphanClosings |-> Z \ C]
    BY <1>1, <1>4, <1>22 DEF rows
  <1> QED
    BY <1>21, <1>22, <1>23, <1>24 DEF C, Z, S, r, rows

\* What the properties call delivered is what the reader takes, while a
\* transaction holds one half.
LEMMA DeliveredIs ==
  ASSUME MaxHalves = 1, ReaderInv
  PROVE  Delivered({"GameStake"}) = CommitsIn(read) /\ Delivered(ClosingChoice) = ClosesIn(read)
  <1>1. /\ DOMAIN read = 1..Len(read) /\ \A i \in 1..Len(read) : read[i] \in 1..Len(ledger)
        /\ AllTaken(ledger)
    BY DEF ReaderInv, History, Handed, IsList
  <1>2. \A s \in Stake : \A i \in 1..Len(read) :
          /\ IsCommit(ledger[read[i]], s) <=> HasHalf(ledger[read[i]], {"GameStake"}, s)
          /\ IsClose(ledger[read[i]], s) <=> HasHalf(ledger[read[i]], ClosingChoice, s)
    BY <1>1, TakenIsHeld DEF AllTaken
  <1>3. \A names : Delivered(names) = {s \in Stake : \E i \in 1..Len(read) : HasHalf(ledger[read[i]], names, s)}
    BY <1>1 DEF Delivered, HasHalf
  <1> QED
    BY <1>2, <1>3 DEF CommitsIn, ClosesIn

LEMMA BothHalves ==
  ASSUME History(ledger), NEW p, Handed(p, ledger), NEW s \in CommitsIn(p) \cap ClosesIn(p)
  PROVE  s \in Joinable /\ s \in Stake /\ Closed(s) /\ LedgerRow(s).cycleId = CycleIdOf[s]
  <1>1. \A i \in 1..Len(p) : p[i] \in 1..Len(ledger)
    BY DEF Handed
  <1>2. s \in Joinable /\ s \in Stake
    BY <1>1 DEF CommitsIn, ClosesIn, Joinable
  <1>3. Closed(s)
    BY <1>2, TakenIsHeld, CommittedIs DEF Joinable
  <1> QED
    BY <1>2, <1>3, LedgerRowIs

LEMMA HalvesAccounted ==
  ASSUME MaxHalves = 1
  PROVE  ReaderInv => EveryHalfAccountedFor
  <1> SUFFICES ASSUME ReaderInv PROVE EveryHalfAccountedFor
    OBVIOUS
  <1> DEFINE C == CommitsIn(read)
             Z == ClosesIn(read)
             rows == Result.rows
  <1>1. History(ledger) /\ Handed(read, ledger)
    BY DEF ReaderInv
  <1>2. /\ IsReport(rows, C \cap Z)
        /\ Result.openStakes = C \ Z /\ Result.orphanClosings = Z \ C
    BY <1>1, ResultIs DEF Result
  <1>3. \A s \in C \cap Z : LedgerRow(s).cycleId = CycleIdOf[s]
    BY <1>1, BothHalves
  <1>4. Delivered({"GameStake"}) = C /\ Delivered(ClosingChoice) = Z
    BY DeliveredIs
  <1> HIDE DEF C, Z, rows
  <1>5. DOMAIN rows = 1..Len(rows)
    BY <1>2 DEF IsReport, IsList
  <1>6. {rows[i].cycleId : i \in DOMAIN rows} = {CycleIdOf[s] : s \in C \cap Z}
    <2>1. \A i \in 1..Len(rows) : \E s \in C \cap Z : rows[i].cycleId = CycleIdOf[s]
      BY <1>2, <1>3, ReportRows
    <2>2. \A s \in C \cap Z : \E i \in 1..Len(rows) : rows[i].cycleId = CycleIdOf[s]
      BY <1>2, <1>3, ReportRows
    <2> DEFINE A == {rows[i].cycleId : i \in DOMAIN rows}
               B == {CycleIdOf[s] : s \in C \cap Z}
    <2>3. A \subseteq B
      BY <1>5, <2>1
    <2>4. B \subseteq A
      BY <1>5, <2>2
    <2> HIDE DEF A, B
    <2>5. A = B
      BY <2>3, <2>4
    <2> QED
      BY <2>5 DEF A, B
  <1>7. Len(rows) = Cardinality(C \cap Z)
    BY <1>2 DEF IsReport
  <1> QED
    BY <1>2, <1>4, <1>6, <1>7 DEF EveryHalfAccountedFor, rows

LEMMA RowsAreOfTheLedger == ReaderInv => RowsTellTheLedger
  <1> SUFFICES ASSUME ReaderInv PROVE RowsTellTheLedger
    OBVIOUS
  <1> DEFINE S == CommitsIn(read) \cap ClosesIn(read)
             rows == Result.rows
  <1>1. History(ledger) /\ Handed(read, ledger)
    BY DEF ReaderInv
  <1>2. IsReport(rows, S) /\ Result.warnings = {}
    BY <1>1, ResultIs DEF Result
  <1>3. \A s \in S : s \in Stake /\ Closed(s)
    BY <1>1, BothHalves
  <1> HIDE DEF S, rows
  <1>4. \A i \in DOMAIN rows : \E s \in Stake : Closed(s) /\ rows[i] = LedgerRow(s)
    <2>1. DOMAIN rows = 1..Len(rows)
      BY <1>2 DEF IsReport, IsList
    <2> QED
      BY <1>2, <1>3, <2>1, ReportRows
  <1> QED
    BY <1>2, <1>4 DEF RowsTellTheLedger, rows

\* Two reports of the same closed stakes have the same rows, and have them in
\* the same order if no two of these tie.
LEMMA ReportsAgree ==
  ASSUME NEW S, NEW a, NEW b, IsReport(a, S), IsReport(b, S)
  PROVE  SameRows(a, b) /\ (NoTies(Len(a), a) => a = b)
  <1> DEFINE n == Cardinality(S)
  <1>1. n \in Nat /\ Len(a) = n /\ Len(b) = n /\ InRowOrder(n, a) /\ InRowOrder(n, b)
    BY FS_CardinalityType DEF IsReport
  <1>2. /\ a = [i \in 1..n |-> a[i]] /\ b = [i \in 1..n |-> b[i]]
        /\ DOMAIN a = 1..n /\ DOMAIN b = 1..n
    BY <1>1 DEF IsReport, IsList
  <1>3. PICK u \in [1..n -> S] : /\ \A i \in 1..n : a[i] = LedgerRow(u[i])
                                 /\ \A i, j \in 1..n : u[i] = u[j] => i = j
                                 /\ \A s \in S : \E i \in 1..n : u[i] = s
    BY <1>1 DEF IsReport
  <1>4. PICK w \in [1..n -> S] : /\ \A i \in 1..n : b[i] = LedgerRow(w[i])
                                 /\ \A i, j \in 1..n : w[i] = w[j] => i = j
                                 /\ \A s \in S : \E i \in 1..n : w[i] = s
    BY <1>1 DEF IsReport
  <1> HIDE DEF n
  <1> DEFINE f == [i \in 1..n |-> CHOOSE j \in 1..n : w[j] = u[i]]
  <1>5. ASSUME NEW i \in 1..n PROVE f[i] \in 1..n /\ w[f[i]] = u[i] /\ b[f[i]] = a[i]
    <2>1. \E j \in 1..n : w[j] = u[i]
      BY <1>3, <1>4
    <2>2. f[i] \in 1..n /\ w[f[i]] = u[i]
      BY <2>1
    <2> HIDE DEF f
    <2> QED
      BY <1>3, <1>4, <2>2
  <1>6. f \in [1..n -> 1..n]
    BY <1>5
  <1> HIDE DEF f
  <1>7. ASSUME NEW j \in 1..n PROVE \E i \in 1..n : f[i] = j
    <2>1. PICK i \in 1..n : u[i] = w[j]
      BY <1>3, <1>4
    <2> QED
      BY <1>4, <1>5, <2>1
  <1>8. SameRows(a, b)
    <2>1. /\ f \in [DOMAIN a -> DOMAIN b]
          /\ \A i \in DOMAIN a : b[f[i]] = a[i]
          /\ \A j \in DOMAIN b : \E i \in DOMAIN a : f[i] = j
          /\ Len(a) = Len(b)
      BY <1>1, <1>2, <1>5, <1>6, <1>7
    <2> QED
      BY <2>1 DEF SameRows
  <1>9. ASSUME NoTies(n, a) PROVE a = b
    <2>1. NoTies(n, b)
      <3> SUFFICES ASSUME NEW i \in 1..n, NEW j \in 1..n, Tied(b[i], b[j]) PROVE i = j
        BY DEF NoTies
      <3>1. PICK x \in 1..n : f[x] = i
        BY <1>7
      <3>2. PICK y \in 1..n : f[y] = j
        BY <1>7
      <3>3. Tied(a[x], a[y])
        BY <1>5, <3>1, <3>2
      <3> QED
        BY <1>9, <3>1, <3>2, <3>3 DEF NoTies
    <2>2. Among(n, a, b)
      <3> SUFFICES ASSUME NEW i \in 1..n PROVE \E j \in 1..n : a[i] = b[j]
        BY DEF Among
      <3> QED
        BY <1>5
    <2>3. Among(n, b, a)
      <3> SUFFICES ASSUME NEW j \in 1..n PROVE \E i \in 1..n : b[j] = a[i]
        BY DEF Among
      <3>1. PICK i \in 1..n : f[i] = j
        BY <1>7
      <3> QED
        BY <1>5, <3>1
    <2>4. \A i \in 1..n : a[i] = b[i]
      BY <1>1, <1>9, <2>1, <2>2, <2>3, SameOrder
    <2> QED
      BY <1>2, <2>4
  <1> QED
    BY <1>1, <1>8, <1>9

LEMMA OnceIsEnough == ReaderInv => DeliveryDoesNotMatter
  <1> SUFFICES ASSUME ReaderInv PROVE DeliveryDoesNotMatter
    OBVIOUS
  <1> DEFINE R == Range(read)
             before == {x \in R \X R : x[1] < x[2]}
             once == InOrder(R, before)
             m == Cardinality(R)
             n == Len(read)
  <1>1. /\ History(ledger) /\ Handed(read, ledger) /\ Len(ledger) \in Nat
        /\ n \in Nat /\ DOMAIN read = 1..n /\ \A i \in 1..n : read[i] \in 1..Len(ledger)
    BY DEF ReaderInv, Handed, History, IsList
  <1>2. (\A x : x \in R <=> \E i \in 1..n : x = read[i]) /\ \A x \in R : x \in 1..Len(ledger)
    BY <1>1 DEF Range
  <1> HIDE DEF n, R
  <1>3. IsFiniteSet(R)
    <2>1. R \in SUBSET (1..Len(ledger)) /\ IsFiniteSet(1..Len(ledger))
      BY <1>1, <1>2, FS_Interval
    <2> QED
      BY <2>1, FS_Subset
  <1>4. Total(R, before)
    <2>1. \A x \in R : x \in Int
      BY <1>1, <1>2
    <2> QED
      BY <2>1 DEF Total
  <1> HIDE DEF before
  <1>5. m \in Nat /\ once \in [1..m -> R] /\ \A x \in R : \E i \in 1..m : once[i] = x
    BY <1>3, <1>4, InOrderIs
  <1> HIDE DEF once, m
  <1>6. IsList(once) /\ Len(once) = m
    <2>1. once = [i \in 1..m |-> once[i]]
      BY <1>5
    <2> QED
      BY <1>5, <2>1, ListIs
  <1>7. Handed(once, ledger)
    BY <1>2, <1>5, <1>6 DEF Handed
  <1>8. CommitsIn(once) = CommitsIn(read)
    BY <1>2, <1>5, <1>6 DEF CommitsIn, n
  <1>9. ClosesIn(once) = ClosesIn(read)
    BY <1>2, <1>5, <1>6 DEF ClosesIn, n
  <1> DEFINE C == CommitsIn(read)
             Z == ClosesIn(read)
             a == RowsFromTransactions(Txs(read))
             b == RowsFromTransactions(Txs(once))
  <1>10. /\ IsReport(a.rows, C \cap Z)
         /\ a = [rows |-> a.rows, warnings |-> {}, openStakes |-> C \ Z, orphanClosings |-> Z \ C]
    BY <1>1, ResultIs
  <1>11. /\ IsReport(b.rows, C \cap Z)
         /\ b = [rows |-> b.rows, warnings |-> {}, openStakes |-> C \ Z, orphanClosings |-> Z \ C]
    BY <1>1, <1>7, <1>8, <1>9, ResultIs
  <1> HIDE DEF a, b, C, Z
  <1>12. /\ SameRows(a.rows, b.rows)
         /\ NoTies(Len(a.rows), a.rows) => a.rows = b.rows
    BY <1>10, <1>11, ReportsAgree
  <1>13. \A g \in DOMAIN a \ {"rows"} : a[g] = b[g]
    <2>1. DOMAIN a = {"rows", "warnings", "openStakes", "orphanClosings"}
      BY <1>10
    <2>2. a.warnings = b.warnings /\ a.openStakes = b.openStakes /\ a.orphanClosings = b.orphanClosings
      BY <1>10, <1>11
    <2> QED
      BY <2>1, <2>2
  <1>14. ASSUME \A i, j \in DOMAIN a.rows :
                   (a.rows[i].committedAt = a.rows[j].committedAt /\ a.rows[i].cycleId = a.rows[j].cycleId) => i = j
         PROVE  a.rows = b.rows
    <2>1. DOMAIN a.rows = 1..Len(a.rows)
      BY <1>10 DEF IsReport, IsList
    <2>2. NoTies(Len(a.rows), a.rows)
      BY <1>14, <2>1 DEF NoTies, Tied
    <2> QED
      BY <1>12, <2>2
  <1>15. Result = a
    BY DEF Result, a
  <1> DEFINE tie(i, j) == /\ a.rows[i].committedAt = a.rows[j].committedAt
                          /\ a.rows[i].cycleId = a.rows[j].cycleId
  <1>16. (\A i, j \in DOMAIN a.rows : tie(i, j) => i = j) => a.rows = b.rows
    BY <1>14
  <1> QED
    BY <1>12, <1>13, <1>15, <1>16 DEF DeliveryDoesNotMatter, b, once, R, before

-----------------------------------------------------------------------------
(* The reader, whatever a transaction holds.                                *)

\* While a transaction holds one half: every half that was delivered is in a
\* row or named as open or as an orphan (cycleAudit.js 196-203).
THEOREM HalvesAccountedFor ==
  ASSUME MaxHalves = 1
  PROVE  AuditSpec => []EveryHalfAccountedFor
  BY ReaderInvariant, HalvesAccounted, PTL

\* Every row is the one the ledger justifies for a closed stake, and no honest
\* unlock raises a warning (cycleAudit.js 140-166 and 216-227).
THEOREM RowsTell == AuditSpec => []RowsTellTheLedger
  BY ReaderInvariant, RowsAreOfTheLedger, PTL

\* Which transactions were delivered decides the rows, and neither their order
\* nor their repetition does, whatever the times of the transactions; and it
\* decides the order of the rows and so the root, unless two of them are of one
\* cycle id committed at one time (cycleAudit.js 255-260).
THEOREM OrderDoesNotMatter == AuditSpec => []DeliveryDoesNotMatter
  BY ReaderInvariant, OnceIsEnough, PTL

-----------------------------------------------------------------------------
(* The rows of a period: what a complete read finds closed in it.           *)
\* A complete read reports every stake of which both halves can be taken.
LEMMA CompleteRead ==
  ASSUME History(ledger)
  PROVE  IsReport(RowsFromTransactions(ledger).rows, Joinable)
  <1> DEFINE n == Len(ledger)
             all == [i \in 1..n |-> i]
  <1>1. /\ n \in Nat /\ DOMAIN ledger = 1..n /\ ledger = [i \in 1..n |-> ledger[i]]
        /\ IsList(all) /\ Len(all) = n
    <2>1. n \in Nat /\ DOMAIN ledger = 1..n /\ ledger = [i \in 1..n |-> ledger[i]]
      BY DEF History, IsList
    <2>2. all = [i \in 1..n |-> all[i]]
      OBVIOUS
    <2> HIDE DEF all, n
    <2>3. IsList(all) /\ Len(all) = n
      BY <2>1, <2>2, ListIs
    <2> QED
      BY <2>1, <2>3
  <1>2. Handed(all, ledger)
    BY <1>1 DEF Handed
  <1>3. Txs(all) = ledger
    <2>1. Txs(all) = [i \in 1..n |-> ledger[i]]
      BY DEF Txs
    <2> QED
      BY <1>1, <2>1
  <1>4. \A i \in 1..n : all[i] = i
    OBVIOUS
  <1> HIDE DEF all
  <1>5. /\ CommitsIn(all) = {s \in Stake : \E i \in 1..n : IsCommit(ledger[i], s)}
        /\ ClosesIn(all) = {s \in Stake : \E i \in 1..n : IsClose(ledger[i], s)}
    BY <1>1, <1>4 DEF CommitsIn, ClosesIn
  <1>6. CommitsIn(all) \cap ClosesIn(all) = Joinable
    BY <1>5 DEF Joinable
  <1>7. IsReport(RowsFromTransactions(Txs(all)).rows, CommitsIn(all) \cap ClosesIn(all))
    BY <1>2, ResultIs
  <1> QED
    BY <1>3, <1>6, <1>7

\* They are closed, and while a transaction holds one half, they are all the
\* closed stakes.
LEMMA JoinableIsClosed ==
  ASSUME History(ledger), NEW s \in Joinable
  PROVE  Closed(s)
  BY TakenIsHeld, CommittedIs DEF Joinable

LEMMA ClosedIsJoinable ==
  ASSUME MaxHalves = 1, History(ledger), NEW s \in Stake
  PROVE  s \in Joinable <=> Closed(s)
  <1>1. AllTaken(ledger) /\ ClosedAfter(ledger)
    BY DEF History
  <1>2. s \in Joinable => Closed(s)
    BY JoinableIsClosed
  <1>3. ASSUME Closed(s) PROVE s \in Joinable
    <2>1. PICK i \in 1..Len(ledger) : HasHalf(ledger[i], ClosingChoice, s)
      BY <1>3, CommittedIs
    <2>2. PICK j \in 1..Len(ledger) : HasHalf(ledger[j], {"GameStake"}, s)
      BY <1>1, <2>1 DEF ClosedAfter
    <2> QED
      BY <1>1, <2>1, <2>2 DEF AllTaken, Joinable
  <1> QED
    BY <1>2, <1>3

\* A row says what was returned, and is another row when that is changed.
Tells(row) == "exit" \in DOMAIN row /\ "returned" \in DOMAIN row.exit /\ row.exit.returned \in Int

LEMMA ReturnedLess ==
  ASSUME NEW row, Tells(row)
  PROVE  [row EXCEPT !.exit.returned = @ - 1] # row
  <1>1. "exit" \in DOMAIN row /\ "returned" \in DOMAIN row.exit /\ row.exit.returned \in Int
    BY DEF Tells
  <1>2. [row EXCEPT !.exit.returned = @ - 1].exit.returned = row.exit.returned - 1
    BY <1>1
  <1> QED
    BY <1>1, <1>2

LEMMA RowSays ==
  ASSUME History(ledger), NEW s \in Joinable
  PROVE  LedgerRow(s).settledAt \in Int /\ Tells(LedgerRow(s))
  <1> DEFINE row == LedgerRow(s)
  <1>1. s \in Stake
    BY DEF Joinable
  <1>2. /\ row.settledAt = CloseTime(s) /\ CloseTime(s) \in Int
        /\ "returned" \in DOMAIN row.exit /\ row.exit.returned = UnitsOf[s]
    BY <1>1, LedgerRowIs
  <1>3. PICK x : row = [cycleId |-> CycleIdOf[s], committed |-> UnitsOf[s],
                        committedAt |-> CommitTime(s), settledAt |-> CloseTime(s), exit |-> x]
    BY <1>1, LedgerRowIs
  <1>4. "exit" \in DOMAIN row
    BY <1>3
  <1>5. UnitsOf[s] \in Nat
    BY <1>1, ReaderAssumption DEF ReaderAssumption
  <1> HIDE DEF row
  <1>6. row.settledAt \in Int /\ Tells(row)
    BY <1>2, <1>4, <1>5 DEF Tells
  <1> QED
    BY <1>6 DEF row

ReportedIn(p) == {s \in Joinable : LedgerRow(s).settledAt \in (Bounds[p]+1)..Bounds[p+1]}

LEMMA PeriodRowsAre ==
  ASSUME History(ledger), NEW p \in Period
  PROVE  LET rows == PeriodRows(p) IN
         /\ IsList(rows) /\ Len(rows) = Cardinality(ReportedIn(p))
         /\ \A i \in 1..Len(rows) : \E s \in ReportedIn(p) : rows[i] = LedgerRow(s)
         /\ \A s \in ReportedIn(p) : \E i \in 1..Len(rows) : rows[i] = LedgerRow(s)
         /\ \A s \in ReportedIn(p) : s \in Joinable
  <1> DEFINE all == RowsFromTransactions(ledger).rows
             n == Len(all)
             lo == Bounds[p]
             hi == Bounds[p + 1]
             In(x) == x.settledAt > lo /\ x.settledAt <= hi
             closed == {i \in DOMAIN all : In(all[i])}
             before == {x \in closed \X closed : x[1] < x[2]}
             order == InOrder(closed, before)
             m == Cardinality(closed)
             rows == PeriodRows(p)
  <1>1. rows = [i \in 1..m |-> all[order[i]]]
    BY DEF PeriodRows
  <1>2. IsReport(all, Joinable)
    BY CompleteRead
  <1> HIDE DEF all
  <1>3. n \in Nat /\ DOMAIN all = 1..n
    BY <1>2 DEF IsReport, IsList
  <1>4. lo \in Int /\ hi \in Int
    <2>1. p \in 1..Len(Bounds) /\ p + 1 \in 1..Len(Bounds)
      BY PeriodAssumption DEF PeriodAssumption, Period
    <2> QED
      BY <2>1, PeriodAssumption DEF PeriodAssumption
  <1> HIDE DEF lo, hi, n, rows
  <1>5. PICK f \in [1..n -> Joinable] : /\ \A i \in 1..n : all[i] = LedgerRow(f[i])
                                        /\ \A i, j \in 1..n : f[i] = f[j] => i = j
                                        /\ \A s \in Joinable : \E i \in 1..n : f[i] = s
    BY <1>2 DEF IsReport, n
  <1>6. \A i, j \in 1..n : f[i] = f[j] => i = j
    BY <1>5
  <1>7. ASSUME NEW s \in Joinable PROVE \E i \in 1..n : f[i] = s
    BY <1>5
  <1>8. closed \subseteq 1..n /\ IsFiniteSet(closed)
    <2>1. closed \in SUBSET (1..n) /\ IsFiniteSet(1..n)
      BY <1>3, FS_Interval
    <2> QED
      BY <2>1, FS_Subset
  <1>9. ASSUME NEW s PROVE s \in ReportedIn(p) <=> s \in Joinable /\ In(LedgerRow(s))
    <2>1. s \in ReportedIn(p) <=> s \in Joinable /\ LedgerRow(s).settledAt \in (lo + 1)..hi
      BY DEF ReportedIn, lo, hi
    <2>2. s \in Joinable => LedgerRow(s).settledAt \in Int
      BY RowSays
    <2> QED
      BY <1>4, <2>1, <2>2
  <1>10. \A s : s \in ReportedIn(p) <=> \E i \in closed : s = f[i]
    <2>1. ASSUME NEW s \in ReportedIn(p) PROVE \E i \in closed : s = f[i]
      <3>1. s \in Joinable /\ In(LedgerRow(s))
        BY <1>9
      <3>2. PICK i \in 1..n : f[i] = s
        BY <1>7, <3>1
      <3> QED
        BY <1>3, <1>5, <3>1, <3>2
    <2>2. ASSUME NEW i \in closed PROVE f[i] \in ReportedIn(p)
      BY <1>3, <1>5, <1>9
    <2> QED
      BY <2>1, <2>2
  <1>11. \A i \in closed : all[i] = LedgerRow(f[i])
    BY <1>5, <1>8
  <1>12. \A i \in closed : i \in Int
    BY <1>3, <1>8
  <1>13. \A i, j \in closed : f[i] = f[j] => i = j
    BY <1>6, <1>8
  <1> HIDE DEF closed
  <1>14. Total(closed, before)
    BY <1>12 DEF Total
  <1> HIDE DEF before
  <1>15. /\ m \in Nat /\ order \in [1..m -> closed] /\ \A i \in closed : \E k \in 1..m : order[k] = i
         /\ \A k, l \in 1..m : order[k] = order[l] => k = l
    BY <1>8, <1>14, InOrderIs
  <1>16. Cardinality(ReportedIn(p)) = m
    BY <1>8, <1>10, <1>13, SameSize
  <1> HIDE DEF m, order
  <1>17. IsList(rows) /\ Len(rows) = m
    <2>1. rows = [i \in 1..m |-> rows[i]]
      BY <1>1
    <2> QED
      BY <1>15, <2>1, ListIs
  <1>18. ASSUME NEW k \in 1..m PROVE \E s \in ReportedIn(p) : rows[k] = LedgerRow(s)
    <2>1. order[k] \in closed /\ rows[k] = all[order[k]]
      BY <1>1, <1>15
    <2>2. f[order[k]] \in ReportedIn(p)
      BY <1>10, <2>1
    <2> QED
      BY <1>11, <2>1, <2>2
  <1>19. ASSUME NEW s \in ReportedIn(p) PROVE \E k \in 1..m : rows[k] = LedgerRow(s)
    <2>1. PICK i \in closed : s = f[i]
      BY <1>10
    <2>2. PICK k \in 1..m : order[k] = i
      BY <1>15
    <2>3. rows[k] = all[i]
      BY <1>1, <2>2
    <2> QED
      BY <1>11, <2>1, <2>2, <2>3
  <1> QED
    BY <1>9, <1>16, <1>17, <1>18, <1>19 DEF rows

-----------------------------------------------------------------------------
(* What the job may declare: lists of rows, each of which says what was     *)
(* returned.                                                                *)
RowList(rows) == IsList(rows) /\ \A i \in 1..Len(rows) : Tells(rows[i])

LEMMA TellingSeq ==
  ASSUME NEW S, \A row \in S : Tells(row), NEW rows \in Seq(S)
  PROVE  RowList(rows)
  <1>1. IsList(rows) /\ \A i \in 1..Len(rows) : rows[i] \in S
    BY LenProperties DEF IsList
  <1> QED
    BY <1>1 DEF RowList

LEMMA RowListSeq ==
  ASSUME NEW rows, RowList(rows)
  PROVE  LET S == {rows[i] : i \in 1..Len(rows)}
         IN  rows \in Seq(S) /\ \A row \in S : Tells(row)
  <1> DEFINE S == {rows[i] : i \in 1..Len(rows)}
  <1>1. rows \in [1..Len(rows) -> S] /\ Len(rows) \in Nat
    BY DEF RowList, IsList
  <1>2. rows \in Seq(S)
    BY <1>1
  <1> QED
    BY <1>2 DEF RowList

LEMMA SettledLater ==
  ASSUME NEW row, Tells(row), NEW t
  PROVE  Tells([row EXCEPT !.settledAt = t])
  BY DEF Tells

LEMMA AlteredAre ==
  ASSUME NEW rows, RowList(rows), NEW rs \in Altered(rows)
  PROVE  RowList(rs)
  <1> DEFINE first == [rows[1] EXCEPT !.settledAt = @ + 1]
             R == {rows[i] : i \in 1..Len(rows)}
             S == R \cup {first}
  <1>1. rs = rows \/ (rows # <<>> /\ (rs = Front(rows) \/ rs = <<first>> \o Tail(rows)))
    BY DEF Altered
  <1>2. rows \in Seq(R) /\ \A row \in R : Tells(row)
    BY RowListSeq
  <1>3. rows # <<>> => rows[1] \in R
    BY <1>2
  <1>4. rows # <<>> => Tells(first)
    BY <1>2, <1>3, SettledLater
  <1> HIDE DEF first, R
  <1>5. ASSUME rows # <<>> PROVE \A row \in S : Tells(row)
    BY <1>2, <1>4, <1>5
  <1>6. rows \in Seq(S) /\ first \in S
    BY <1>2
  <1> HIDE DEF S
  <1>7. CASE rows # <<>> /\ rs = Front(rows)
    <2>1. rs \in Seq(S)
      BY <1>6, <1>7 DEF Front
    <2> QED
      BY <1>5, <1>7, <2>1, TellingSeq
  <1>8. CASE rows # <<>> /\ rs = <<first>> \o Tail(rows)
    <2>1. rs \in Seq(S)
      BY <1>6, <1>8
    <2> QED
      BY <1>5, <1>8, <2>1, TellingSeq
  <1> QED
    BY <1>1, <1>7, <1>8

LEMMA OfferedAre ==
  ASSUME NEW rows, RowList(rows), NEW rs \in Offered(rows)
  PROVE  RowList(rs)
  <1>1. CASE rs \in Altered(rows)
    BY <1>1, AlteredAre
  <1>2. CASE rs = rows \o rows
    <2> DEFINE R == {rows[i] : i \in 1..Len(rows)}
    <2>1. rows \in Seq(R) /\ \A row \in R : Tells(row)
      BY RowListSeq
    <2> HIDE DEF R
    <2>2. rs \in Seq(R)
      BY <1>2, <2>1
    <2> QED
      BY <2>1, <2>2, TellingSeq
  <1>3. CASE rs \in Invented
    <2> DEFINE R == [cycleId : Texts, committed : Int, committedAt : Int, settledAt : Int,
                     exit : [disposition : STRING, returned : Int, forfeited : Int, payout : Int]]
    <2>1. rs \in Seq(R)
      BY <1>3, PeriodAssumption DEF PeriodAssumption
    <2>2. \A row \in R : Tells(row)
      BY DEF Tells
    <2> HIDE DEF R
    <2> QED
      BY <2>1, <2>2, TellingSeq
  <1> QED
    BY <1>1, <1>2, <1>3 DEF Offered

LEMMA KnownAre ==
  ASSUME History(ledger), NEW p \in Period
  PROVE  RowList(PeriodRows(p))
  <1> DEFINE rows == PeriodRows(p)
  <1>1. /\ IsList(rows)
        /\ \A i \in 1..Len(rows) : \E s \in ReportedIn(p) : rows[i] = LedgerRow(s)
        /\ \A s \in ReportedIn(p) : s \in Joinable
    BY PeriodRowsAre
  <1> HIDE DEF rows
  <1>2. RowList(rows)
    BY <1>1, RowSays DEF RowList
  <1> QED
    BY <1>2 DEF rows

-----------------------------------------------------------------------------
(* Every anchor is of the rows it was declared with, and what is published  *)
(* of a period, altered or not, is a list of rows held to the first anchor  *)
(* of the period.                                                           *)
Anchored(x) ==
  /\ x.anchor.periodId \in Period
  /\ RowList(x.rows) /\ NoCycleTwice(x.rows)
  /\ x.anchor.totals = TotalsOf(x.rows) /\ x.anchor.merkleRoot = MerkleRoot(Leaves(x.rows))
  /\ \E ds : RowList(ds) /\ x.anchor.reportDigest = ReportBytes(x.anchor.periodId, ds, "anchored")
  /\ x.anchorDigest = AnchorDigest(x.anchor)

AnchorsInv == IsList(anchors) /\ \A i \in 1..Len(anchors) : Anchored(anchors[i])

AnchoredPeriod(p) == \E i \in 1..Len(anchors) : anchors[i].anchor.periodId = p

Held(meta) ==
  LET a == FirstAnchor(anchors, meta.periodId).anchor
  IN  /\ AnchoredPeriod(meta.periodId)
      /\ IsList(meta.bytes.rows)
      /\ meta.anchoredDigest = a.reportDigest
      /\ meta.anchoredRoot \in {a.merkleRoot, MerkleRoot(Leaves(meta.bytes.rows))}

\* The archive is of periods that were anchored, in their order.
Archive(reports) ==
  /\ IsList(reports)
  /\ \A k \in 1..Len(reports) : Held(reports[k])
  /\ \A j, k \in 1..Len(reports) : j < k => reports[j].periodId < reports[k].periodId

ArchiveInv == ReaderInv /\ AnchorsInv /\ Archive(site.reports)

\* A period that was anchored has a first anchor, and one.
LEMMA FirstOfIs ==
  ASSUME AnchorsInv, NEW p, AnchoredPeriod(p)
  PROVE  \E i \in 1..Len(anchors) :
            /\ FirstOf(anchors, p) = {i} /\ anchors[i].anchor.periodId = p
            /\ FirstAnchor(anchors, p) = anchors[i] /\ Anchored(anchors[i])
  <1> DEFINE n == Len(anchors)
             T == {i \in 1..n : anchors[i].anchor.periodId = p}
  <1>1. n \in Nat /\ DOMAIN anchors = 1..n
    BY DEF AnchorsInv, IsList
  <1>2. T \subseteq Nat /\ T # {}
    BY DEF AnchoredPeriod
  <1> HIDE DEF n, T
  <1>3. PICK i \in T : \A j \in T : i <= j
    BY <1>2, LeastNat
  <1>4. i \in 1..n /\ anchors[i].anchor.periodId = p /\ \A j \in 1..n : anchors[j].anchor.periodId = p => i <= j
    BY <1>3 DEF T
  <1>5. ASSUME NEW j PROVE j \in FirstOf(anchors, p) <=> j = i
    <2>1. j \in FirstOf(anchors, p) <=> /\ j \in 1..n /\ anchors[j].anchor.periodId = p
                                        /\ \A m \in 1..(j - 1) : anchors[m].anchor.periodId # p
      BY <1>1 DEF FirstOf
    <2>2. ASSUME j = i PROVE j \in FirstOf(anchors, p)
      <3>1. \A m \in 1..(i - 1) : m \in 1..n /\ m < i
        BY <1>1, <1>4
      <3>2. \A m \in 1..(i - 1) : anchors[m].anchor.periodId # p
        <4> SUFFICES ASSUME NEW m \in 1..(i - 1), anchors[m].anchor.periodId = p PROVE FALSE
          OBVIOUS
        <4> QED
          BY <1>1, <1>4, <3>1
      <3> QED
        BY <1>4, <2>1, <2>2, <3>2
    <2>3. ASSUME j \in FirstOf(anchors, p) PROVE j = i
      <3>1. j \in 1..n /\ i <= j
        BY <1>4, <2>1, <2>3
      <3>2. ~(i \in 1..(j - 1))
        BY <1>4, <2>1, <2>3
      <3> QED
        BY <1>1, <1>4, <3>1, <3>2
    <2> QED
      BY <2>2, <2>3
  <1>6. FirstOf(anchors, p) = {i}
    BY <1>5
  <1>7. FirstAnchor(anchors, p) = anchors[i]
    BY <1>6 DEF FirstAnchor
  <1>8. Anchored(anchors[i])
    BY <1>4 DEF AnchorsInv, n
  <1> QED
    BY <1>4, <1>6, <1>7, <1>8 DEF n

\* The entries as they are written, field by field.
LEMMA MetaHas ==
  ASSUME NEW p, NEW report, NEW anchored
  PROVE  LET e == Meta(p, report, anchored)
         IN  /\ e.periodId = p /\ e.bytes = report /\ e.servedDigest = report
             /\ e.anchoredDigest = anchored.reportDigest /\ e.anchoredRoot = anchored.merkleRoot
             /\ {"periodId", "bytes", "servedDigest", "anchoredDigest", "anchoredRoot"} \subseteq DOMAIN e
  BY DEF Meta

LEMMA RootPut ==
  ASSUME NEW p, NEW report, NEW anchored, NEW root
  PROVE  LET e == [Meta(p, report, anchored) EXCEPT !.anchoredRoot = root]
         IN  /\ e.periodId = p /\ e.bytes = report
             /\ e.anchoredDigest = anchored.reportDigest /\ e.anchoredRoot = root
  BY DEF Meta

LEMMA BytesPut ==
  ASSUME NEW p, NEW report, NEW anchored, NEW bytes
  PROVE  LET e == [Meta(p, report, anchored) EXCEPT !.bytes = bytes]
         IN  /\ e.periodId = p /\ e.bytes = bytes
             /\ e.anchoredDigest = anchored.reportDigest /\ e.anchoredRoot = anchored.merkleRoot
  BY DEF Meta

LEMMA RowsPut ==
  ASSUME NEW r, NEW rs, "rows" \in DOMAIN r.bytes,
         {"periodId", "bytes", "servedDigest", "anchoredDigest", "anchoredRoot"} \subseteq DOMAIN r
  PROVE  LET e == [r EXCEPT !.bytes.rows = rs, !.servedDigest.rows = rs]
         IN  /\ e.periodId = r.periodId /\ e.bytes.rows = rs
             /\ e.anchoredDigest = r.anchoredDigest /\ e.anchoredRoot = r.anchoredRoot
  OBVIOUS

LEMMA ReportHas ==
  ASSUME NEW p, NEW rows, NEW format
  PROVE  LET r == ReportBytes(p, rows, format)
         IN  /\ r.rows = rows /\ "rows" \in DOMAIN r /\ r.leaves = Leaves(rows)
             /\ r.merkleRoot = MerkleRoot(Leaves(rows)) /\ r.format = format
  BY DEF ReportBytes

LEMMA ListOfRows ==
  ASSUME NEW rows, RowList(rows)
  PROVE  IsList(rows)
  BY DEF RowList

\* However an entry is altered, it is held to the anchor of its period.
LEMMA EntryHeld ==
  ASSUME AnchorsInv, NEW p, AnchoredPeriod(p), NEW entry \in Entries(p)
  PROVE  Held(entry) /\ entry.periodId = p
  <1> DEFINE x == FirstAnchor(anchors, p)
             a == x.anchor
             report == a.reportDigest
             root == a.merkleRoot
  <1>1. PICK rs \in Shown(p) : entry \in Written(p, rs)
    BY DEF Entries
  <1> DEFINE own == MerkleRoot(Leaves(rs))
             pretty == ReportBytes(p, rs, "pretty")
             plain == ReportBytes(p, rs, "anchored")
  <1>2. \/ entry = Meta(p, plain, a) \/ entry = Meta(p, pretty, a)
        \/ entry = [Meta(p, plain, a) EXCEPT !.anchoredRoot = own]
        \/ entry = [Meta(p, report, a) EXCEPT !.bytes = pretty]
        \/ entry = [Meta(p, report, a) EXCEPT !.bytes.rows = rs, !.servedDigest.rows = rs]
    BY <1>1 DEF Written
  <1>3. Anchored(x) /\ a.periodId = p
    BY FirstOfIs
  <1>4. PICK ds : RowList(ds) /\ report = ReportBytes(p, ds, "anchored")
    BY <1>3 DEF Anchored
  <1>5. report.rows = ds /\ "rows" \in DOMAIN report
    BY <1>4, ReportHas
  <1>6. rs \in Altered(x.rows) \/ rs = report.rows
    BY <1>1 DEF Shown
  <1>7. IsList(rs)
    BY <1>3, <1>4, <1>5, <1>6, AlteredAre, ListOfRows DEF Anchored
  <1>8. plain.rows = rs /\ pretty.rows = rs
    BY ReportHas
  <1>9. a.reportDigest = report /\ a.merkleRoot = root
    OBVIOUS
  <1> HIDE DEF a, report, plain, pretty, own, root
  <1>10. /\ entry.periodId = p /\ entry.bytes.rows = rs /\ entry.anchoredDigest = report
         /\ entry.anchoredRoot = root \/ entry.anchoredRoot = own
    <2>1. CASE entry = Meta(p, plain, a) \/ entry = Meta(p, pretty, a)
      BY <1>8, <1>9, <2>1, MetaHas
    <2>2. CASE entry = [Meta(p, plain, a) EXCEPT !.anchoredRoot = own]
      BY <1>8, <1>9, <2>2, RootPut
    <2>3. CASE entry = [Meta(p, report, a) EXCEPT !.bytes = pretty]
      BY <1>8, <1>9, <2>3, BytesPut
    <2>4. CASE entry = [Meta(p, report, a) EXCEPT !.bytes.rows = rs, !.servedDigest.rows = rs]
      <3> DEFINE e == Meta(p, report, a)
      <3>1. /\ e.periodId = p /\ e.bytes = report
            /\ e.anchoredDigest = report /\ e.anchoredRoot = root
            /\ {"periodId", "bytes", "servedDigest", "anchoredDigest", "anchoredRoot"} \subseteq DOMAIN e
        BY <1>9, MetaHas
      <3> HIDE DEF e
      <3> QED
        BY <1>5, <2>4, <3>1, RowsPut DEF e
    <2> QED
      BY <1>2, <2>1, <2>2, <2>3, <2>4
  <1> QED
    BY <1>7, <1>10 DEF Held, own, root, report, a, x

LEMMA HonestHeld ==
  ASSUME AnchorsInv, NEW p, AnchoredPeriod(p)
  PROVE  LET a == FirstAnchor(anchors, p).anchor
             e == Meta(p, a.reportDigest, a)
         IN  Held(e) /\ e.periodId = p
  <1> DEFINE x == FirstAnchor(anchors, p)
             a == x.anchor
             report == a.reportDigest
             e == Meta(p, report, a)
  <1>1. Anchored(x) /\ a.periodId = p
    BY FirstOfIs
  <1>2. PICK ds : RowList(ds) /\ report = ReportBytes(p, ds, "anchored")
    BY <1>1 DEF Anchored
  <1>3. IsList(report.rows)
    BY <1>2, ReportHas, ListOfRows
  <1>4. e.periodId = p /\ e.bytes = report /\ e.anchoredDigest = a.reportDigest /\ e.anchoredRoot = a.merkleRoot
    BY MetaHas
  <1> HIDE DEF e, report
  <1>5. Held(e)
    BY <1>3, <1>4 DEF Held
  <1> QED
    BY <1>4, <1>5 DEF e, report

LEMMA NothingArchived ==
  ASSUME site.reports = <<>>
  PROVE  Archive(site.reports)
  BY EmptyList DEF Archive

LEMMA ArchiveStarts == AuditInit => ArchiveInv
  <1> SUFFICES ASSUME AuditInit PROVE ArchiveInv
    OBVIOUS
  <1>1. ReaderInv /\ anchors = <<>> /\ site.reports = <<>>
    BY ReaderStarts DEF AuditInit
  <1> QED
    BY <1>1, EmptyList, NothingArchived DEF ArchiveInv, AnchorsInv

LEMMA AnchorIsOf ==
  ASSUME NEW p, NEW rows, NEW totals, NEW digest, NEW prev
  PROVE  LET x == VenuePeriodAnchor(p, rows, totals, digest, prev)
         IN  /\ x.anchor.periodId = p /\ x.rows = rows
             /\ x.anchor.totals = totals /\ x.anchor.merkleRoot = MerkleRoot(Leaves(rows))
             /\ x.anchor.reportDigest = digest
             /\ x.anchorDigest = AnchorDigest(x.anchor)
  BY DEF VenuePeriodAnchor

LEMMA ArchiveAnchor == ArchiveInv /\ AnchorPeriod => AnchorsInv'
  <1> SUFFICES ASSUME ArchiveInv, AnchorPeriod PROVE AnchorsInv'
    OBVIOUS
  <1>1. PICK p \in Period : LET known == PeriodRows(p) IN
          \E rows \in Offered(known) : \E totals \in AnchorTotals(rows) : \E declared \in Offered(known) :
            \E prev \in {<<>>} \cup {anchors[i].anchorDigest : i \in DOMAIN anchors} :
              anchors' = Append(anchors, VenuePeriodAnchor(p, rows, totals, ReportBytes(p, declared, "anchored"), prev))
    BY DEF AnchorPeriod
  <1> DEFINE known == PeriodRows(p)
             links == {<<>>} \cup {anchors[i].anchorDigest : i \in DOMAIN anchors}
             Anchors(rows, totals, declared, prev) ==
               anchors' = Append(anchors, VenuePeriodAnchor(p, rows, totals, ReportBytes(p, declared, "anchored"), prev))
  <1>2. PICK rows \in Offered(known) : \E totals \in AnchorTotals(rows) : \E declared \in Offered(known) :
          \E prev \in links : Anchors(rows, totals, declared, prev)
    BY <1>1
  <1>3. PICK totals \in AnchorTotals(rows) : \E declared \in Offered(known) :
          \E prev \in links : Anchors(rows, totals, declared, prev)
    BY <1>2
  <1>4. PICK declared \in Offered(known) : \E prev \in links : Anchors(rows, totals, declared, prev)
    BY <1>3
  <1>5. PICK prev \in links : Anchors(rows, totals, declared, prev)
    BY <1>4
  <1> DEFINE digest == ReportBytes(p, declared, "anchored")
             x == VenuePeriodAnchor(p, rows, totals, digest, prev)
             n == Len(anchors)
             bs == anchors'
  <1>6. NoCycleTwice(rows) /\ totals = TotalsOf(rows)
    BY <1>3 DEF AnchorTotals
  <1>7. RowList(PeriodRows(p))
    BY KnownAre DEF ArchiveInv, ReaderInv
  <1>8. RowList(rows) /\ RowList(declared)
    BY <1>7, <1>2, <1>4, OfferedAre
  <1>9. /\ x.anchor.periodId = p /\ x.rows = rows
        /\ x.anchor.totals = totals /\ x.anchor.merkleRoot = MerkleRoot(Leaves(rows))
        /\ x.anchor.reportDigest = digest
        /\ x.anchorDigest = AnchorDigest(x.anchor)
    BY AnchorIsOf
  <1>10. bs = Append(anchors, x)
    BY <1>5
  <1> HIDE DEF x
  <1>11. Anchored(x)
    BY <1>6, <1>8, <1>9 DEF Anchored
  <1>12. IsList(anchors) /\ \A i \in 1..n : Anchored(anchors[i])
    BY DEF ArchiveInv, AnchorsInv
  <1>13. IsList(bs) /\ Len(bs) = n + 1 /\ n \in Nat /\ (\A i \in 1..n : bs[i] = anchors[i]) /\ bs[n + 1] = x
    BY <1>10, <1>12, AppendList DEF IsList
  <1> HIDE DEF bs, n
  <1>14. ASSUME NEW i \in 1..(n + 1) PROVE Anchored(bs[i])
    <2>1. i \in 1..n \/ i = n + 1
      BY <1>13
    <2> QED
      BY <1>11, <1>12, <1>13, <2>1
  <1> QED
    BY <1>13, <1>14 DEF AnchorsInv, bs

LEMMA ArchivePublish == ArchiveInv /\ Publish => Archive(site.reports)'
  <1> SUFFICES ASSUME ArchiveInv, Publish PROVE Archive(site.reports)'
    OBVIOUS
  <1> DEFINE honest(p) == Meta(p, FirstAnchor(anchors, p).anchor.reportDigest, FirstAnchor(anchors, p).anchor)
             periods == {anchors[i].anchor.periodId : i \in DOMAIN anchors}
  <1>1. PICK n \in DOMAIN anchors : \E order \in [1..n -> periods] :
          /\ \A i, j \in 1..n : i < j => order[i] < order[j]
          /\ \E k \in 1..n : \E entry \in Entries(order[k]) :
             \E seen \in {<<>>, anchors, [anchors EXCEPT ![1].anchor.totals.payout = @ + 1]} :
               site' = [reports |-> [i \in 1..n |-> IF i = k THEN entry ELSE honest(order[i])],
                        seen |-> seen]
    BY DEF Publish
  <1>2. PICK order \in [1..n -> periods] :
          /\ \A i, j \in 1..n : i < j => order[i] < order[j]
          /\ \E k \in 1..n : \E entry \in Entries(order[k]) :
             \E seen \in {<<>>, anchors, [anchors EXCEPT ![1].anchor.totals.payout = @ + 1]} :
               site' = [reports |-> [i \in 1..n |-> IF i = k THEN entry ELSE honest(order[i])],
                        seen |-> seen]
    BY <1>1
  <1>3. PICK k \in 1..n : \E entry \in Entries(order[k]) :
             \E seen \in {<<>>, anchors, [anchors EXCEPT ![1].anchor.totals.payout = @ + 1]} :
               site' = [reports |-> [i \in 1..n |-> IF i = k THEN entry ELSE honest(order[i])],
                        seen |-> seen]
    BY <1>2
  <1>4. PICK entry \in Entries(order[k]) :
             \E seen \in {<<>>, anchors, [anchors EXCEPT ![1].anchor.totals.payout = @ + 1]} :
               site' = [reports |-> [i \in 1..n |-> IF i = k THEN entry ELSE honest(order[i])],
                        seen |-> seen]
    BY <1>3
  <1> DEFINE rs == [i \in 1..n |-> IF i = k THEN entry ELSE honest(order[i])]
             news == site'.reports
  <1>5. news = rs
    BY <1>4
  <1>6. AnchorsInv /\ DOMAIN anchors = 1..Len(anchors) /\ Len(anchors) \in Nat
    BY DEF ArchiveInv, AnchorsInv, IsList
  <1>7. ASSUME NEW i \in 1..n PROVE AnchoredPeriod(order[i])
    <2>1. order[i] \in periods
      BY <1>2
    <2>2. PICK j \in DOMAIN anchors : order[i] = anchors[j].anchor.periodId
      BY <2>1
    <2> QED
      BY <1>6, <2>2 DEF AnchoredPeriod
  <1>8. Held(entry) /\ entry.periodId = order[k]
    BY <1>4, <1>6, <1>7, EntryHeld
  <1>9. \A i \in 1..n : Held(honest(order[i])) /\ honest(order[i]).periodId = order[i]
    BY <1>6, <1>7, HonestHeld
  <1> HIDE DEF honest, periods
  <1>10. \A i \in 1..n : Held(rs[i]) /\ rs[i].periodId = order[i]
    BY <1>8, <1>9
  <1>11. rs = [i \in 1..n |-> rs[i]] /\ n \in Nat
    BY <1>1, <1>6
  <1> HIDE DEF rs
  <1>12. IsList(rs) /\ Len(rs) = n
    BY <1>11, ListIs
  <1>13. anchors' = anchors
    BY DEF Publish
  <1>14. \A meta : Held(meta) => Held(meta)'
    BY <1>13 DEF Held, AnchoredPeriod
  <1> HIDE DEF news
  <1>15. /\ IsList(news) /\ \A i \in 1..Len(news) : Held(news[i])
         /\ \A i, j \in 1..Len(news) : i < j => news[i].periodId < news[j].periodId
    BY <1>2, <1>5, <1>10, <1>12
  <1> QED
    BY <1>14, <1>15 DEF Archive, news

LEMMA ArchiveStays == ArchiveInv /\ [AuditNext]_auditVars => ArchiveInv'
  <1> SUFFICES ASSUME ArchiveInv, [AuditNext]_auditVars PROVE ArchiveInv'
    OBVIOUS
  <1>1. ReaderInv'
    BY ReaderStays DEF ArchiveInv
  <1>2. CASE AnchorPeriod
    <2>1. AnchorsInv'
      BY <1>2, ArchiveAnchor
    <2>2. site'.reports = <<>>
      BY <1>2 DEF AnchorPeriod
    <2>3. Archive(site.reports)'
      BY <2>2, EmptyList DEF Archive
    <2> QED
      BY <1>1, <2>1, <2>3 DEF ArchiveInv
  <1>3. CASE Publish
    <2>1. Archive(site.reports)'
      BY <1>3, ArchivePublish
    <2>2. AnchorsInv'
      BY <1>3 DEF Publish, ArchiveInv, AnchorsInv
    <2> QED
      BY <1>1, <2>1, <2>2 DEF ArchiveInv
  <1>4. CASE ReaderStep \/ UNCHANGED auditVars
    <2>1. anchors' = anchors /\ site' = site
      BY <1>4 DEF ReaderStep, auditVars
    <2>2. \A meta : Held(meta) => Held(meta)'
      BY <2>1 DEF Held, AnchoredPeriod
    <2>3. AnchorsInv' /\ Archive(site.reports)'
      BY <2>1, <2>2 DEF ArchiveInv, AnchorsInv, Archive
    <2> QED
      BY <1>1, <2>3 DEF ArchiveInv
  <1> QED
    BY <1>2, <1>3, <1>4 DEF AuditNext

LEMMA ArchiveInvariant == AuditSpec => []ArchiveInv
  BY ArchiveStarts, ArchiveStays, PTL DEF AuditSpec


-----------------------------------------------------------------------------
(* What the verifier makes of it, given the ledger's anchors.               *)
LeavesSame == \A rows : Leaves(rows) = LeavesOf(rows)

LEMMA LeavesAlike == LeavesSame
  BY DEF LeavesSame, Leaves, LeavesOf

\* The anchor the verifier takes for an anchored period is its first.
LEMMA AnchorForIs ==
  ASSUME AnchorsInv, site.seen = anchors, NEW p, AnchoredPeriod(p)
  PROVE  \E i \in 1..Len(anchors) :
            /\ AnchorFor(p) = {i} /\ anchors[i].anchor.periodId = p
            /\ FirstAnchor(anchors, p) = anchors[i] /\ Anchored(anchors[i])
            /\ i \in DOMAIN anchors
  <1>1. AnchorFor(p) = FirstOf(anchors, p)
    BY DEF AnchorFor
  <1>2. DOMAIN anchors = 1..Len(anchors)
    BY DEF AnchorsInv, IsList
  <1>3. PICK i \in 1..Len(anchors) :
            /\ FirstOf(anchors, p) = {i} /\ anchors[i].anchor.periodId = p
            /\ FirstAnchor(anchors, p) = anchors[i] /\ Anchored(anchors[i])
    BY FirstOfIs
  <1> QED
    BY <1>1, <1>2, <1>3

\* What a published report is, altered or not.
LEMMA PublishedIs ==
  ASSUME ArchiveInv
  PROVE  /\ DOMAIN site.reports = 1..Len(site.reports) /\ Len(site.reports) \in Nat
         /\ \A k \in DOMAIN site.reports :
              LET p == site.reports[k].periodId
              IN  Held(site.reports[k]) /\ AnchoredPeriod(p) /\ p \in Period /\ p \in Nat /\ p >= 1
         /\ \A j, k \in DOMAIN site.reports : j < k => site.reports[j].periodId < site.reports[k].periodId
  <1> DEFINE reports == site.reports
             n == Len(reports)
  <1>1. DOMAIN reports = 1..n /\ n \in Nat
    BY DEF ArchiveInv, Archive, IsList
  <1>2. /\ \A k \in 1..n : Held(reports[k])
        /\ \A j, k \in 1..n : j < k => reports[j].periodId < reports[k].periodId
    BY DEF ArchiveInv, Archive
  <1>3. ASSUME NEW q \in Period PROVE q \in Nat /\ q >= 1
    BY <1>3, PeriodAssumption DEF PeriodAssumption, Period
  <1>4. ASSUME NEW k \in 1..n
        PROVE  LET p == reports[k].periodId
               IN  Held(reports[k]) /\ AnchoredPeriod(p) /\ p \in Period /\ p \in Nat /\ p >= 1
    <2> DEFINE meta == reports[k]
               q == meta.periodId
    <2>1. Held(meta)
      BY <1>2
    <2> HIDE DEF meta
    <2>2. AnchoredPeriod(q)
      BY <2>1 DEF Held
    <2>3. PICK i \in 1..Len(anchors) : anchors[i].anchor.periodId = q
      BY <2>2 DEF AnchoredPeriod
    <2>4. q \in Period
      BY <2>3 DEF ArchiveInv, AnchorsInv, Anchored
    <2>5. q \in Nat /\ q >= 1
      BY <1>3, <2>4
    <2> QED
      BY <2>1, <2>2, <2>4, <2>5 DEF meta
  <1> QED
    BY <1>1, <1>2, <1>4

\* A report that does not fail shows the rows of the first anchor.
LEMMA AcceptedRows ==
  ASSUME ArchiveInv, site.seen = anchors, NEW k \in DOMAIN site.reports, ~Fails(k)
  PROVE  LET x == FirstAnchor(anchors, site.reports[k].periodId)
         IN  site.reports[k].bytes.rows = x.rows /\ NoCycleTwice(x.rows)
  <1> DEFINE meta == site.reports[k]
             p == meta.periodId
             rows == meta.bytes.rows
             x == FirstAnchor(anchors, p)
  <1>1. Held(meta) /\ AnchoredPeriod(p) /\ AnchorsInv
    BY PublishedIs DEF ArchiveInv
  <1>2. IsList(rows)
    BY <1>1 DEF Held
  <1>3. PICK i \in 1..Len(anchors) : AnchorFor(p) = {i} /\ x = anchors[i] /\ Anchored(anchors[i])
    BY <1>1, AnchorForIs
  <1>4. AnchorReproduces(meta, anchors[i])
    BY <1>3 DEF Fails
  <1>5. MerkleRoot(Leaves(x.rows)) = MerkleRoot(Leaves(rows))
    BY <1>3, <1>4 DEF Anchored, AnchorReproduces
  <1>6. IsList(x.rows) /\ NoCycleTwice(x.rows)
    BY <1>3, ListOfRows DEF Anchored
  <1> HIDE DEF rows, x
  <1>7. MerkleRoot(LeavesOf(x.rows)) = MerkleRoot(LeavesOf(rows))
    BY <1>5, LeavesAlike DEF LeavesSame
  <1>8. rows = x.rows
    BY <1>2, <1>6, <1>7, RootTellsRows
  <1> QED
    BY <1>6, <1>8 DEF rows, x

LEMMA AcceptedIsAnchored == ArchiveInv => AcceptedReportMisstatesNothing
  <1> SUFFICES ASSUME ArchiveInv, site.seen = anchors, ExitCode # 1, NEW k \in DOMAIN site.reports
               PROVE  LET rows == site.reports[k].bytes.rows
                      IN  rows = FirstAnchor(anchors, site.reports[k].periodId).rows /\ NoCycleTwice(rows)
    BY DEF AcceptedReportMisstatesNothing
  <1>1. ~Fails(k)
    BY DEF ExitCode
  <1> QED
    BY <1>1, AcceptedRows

LEMMA AcceptedIsLedger ==
  ASSUME MaxHalves = 1
  PROVE  ArchiveInv => AcceptedReportIsTheLedger
  <1> SUFFICES ASSUME ArchiveInv, site.seen = anchors, ExitCode # 1,
                      \A p \in Published : FirstAnchor(anchors, p).rows = PeriodRows(p),
                      NEW k \in DOMAIN site.reports
               PROVE  LET rows == site.reports[k].bytes.rows
                          p == site.reports[k].periodId
                      IN  /\ Range(rows) = {LedgerRow(s) : s \in ClosedIn(p)}
                          /\ Len(rows) = Cardinality(ClosedIn(p))
    BY DEF AcceptedReportIsTheLedger
  <1> DEFINE p == site.reports[k].periodId
             rows == site.reports[k].bytes.rows
  <1>1. ~Fails(k)
    BY DEF ExitCode
  <1>2. rows = PeriodRows(p)
    <2>1. rows = FirstAnchor(anchors, p).rows
      BY <1>1, AcceptedRows
    <2>2. p \in Published
      BY DEF Published
    <2> QED
      BY <2>1, <2>2
  <1>3. p \in Period
    BY PublishedIs
  <1>4. /\ IsList(rows) /\ Len(rows) = Cardinality(ClosedIn(p))
        /\ \A i \in 1..Len(rows) : \E s \in ClosedIn(p) : rows[i] = LedgerRow(s)
        /\ \A s \in ClosedIn(p) : \E i \in 1..Len(rows) : rows[i] = LedgerRow(s)
    <2>1. History(ledger)
      BY DEF ArchiveInv, ReaderInv
    <2>2. \A s : s \in ReportedIn(p) <=> s \in ClosedIn(p)
      BY <2>1, ClosedIsJoinable DEF ReportedIn, ClosedIn, Joinable
    <2>3. ReportedIn(p) = ClosedIn(p)
      BY <2>2
    <2> HIDE DEF rows, p
    <2> QED
      BY <1>2, <1>3, <2>1, <2>3, PeriodRowsAre
  <1> HIDE DEF rows, p
  <1> DEFINE A == Range(rows)
             B == {LedgerRow(s) : s \in ClosedIn(p)}
  <1>5. \A x : x \in A <=> \E i \in 1..Len(rows) : x = rows[i]
    BY <1>4 DEF Range, IsList
  <1>6. \A x : x \in B <=> \E s \in ClosedIn(p) : x = LedgerRow(s)
    OBVIOUS
  <1> HIDE DEF A, B
  <1>7. ASSUME NEW x \in A PROVE x \in B
    <2>1. PICK i \in 1..Len(rows) : x = rows[i]
      BY <1>5
    <2> QED
      BY <1>4, <1>6, <2>1
  <1>8. ASSUME NEW x \in B PROVE x \in A
    <2>1. PICK s \in ClosedIn(p) : x = LedgerRow(s)
      BY <1>6
    <2>2. PICK i \in 1..Len(rows) : rows[i] = LedgerRow(s)
      BY <1>4
    <2> QED
      BY <1>5, <2>1, <2>2
  <1>9. A = B
    BY <1>7, <1>8
  <1> QED
    BY <1>4, <1>9 DEF A, B, rows, p

-----------------------------------------------------------------------------
(* The chain of the anchors.                                                *)
LEMMA DigestsTellPeriods ==
  ASSUME NEW a, NEW b, AnchorDigest(a) = AnchorDigest(b)
  PROVE  a.periodId = b.periodId
  <1>1. AnchorDigest(a)[2] = a.periodId /\ AnchorDigest(b)[2] = b.periodId
    BY DEF AnchorDigest
  <1> QED
    BY <1>1

\* A published period is held to the one published before it.
LEMMA PreviousIs ==
  ASSUME ArchiveInv, site.seen = anchors, NEW k \in DOMAIN site.reports, k > 1
  PROVE  PreviousDigest(k) = {anchors[i].anchorDigest : i \in AnchorFor(site.reports[k - 1].periodId)}
  <1> DEFINE before == {j \in 1..(k - 1) : AnchorFor(site.reports[j].periodId) # {}}
             last == CHOOSE j \in before : \A l \in before : l <= j
             h == k - 1
  <1>0. k \in Nat /\ \A j \in 1..(k - 1) : j \in DOMAIN site.reports
    BY PublishedIs
  <1>1. ASSUME NEW j \in 1..(k - 1) PROVE AnchorFor(site.reports[j].periodId) # {}
    <2>1. AnchoredPeriod(site.reports[j].periodId)
      BY <1>0, PublishedIs
    <2>2. \E i \in 1..Len(anchors) : AnchorFor(site.reports[j].periodId) = {i}
      BY <2>1, AnchorForIs DEF ArchiveInv
    <2> QED
      BY <2>2
  <1>2. before = 1..(k - 1)
    BY <1>1
  <1>3. PreviousDigest(k) = IF before = {} THEN {} ELSE
          {site.seen[i].anchorDigest : i \in AnchorFor(site.reports[last].periodId)}
    BY DEF PreviousDigest
  <1> HIDE DEF before
  <1>4. h \in before /\ \A l \in before : l <= h
    BY <1>0, <1>2
  <1>5. last \in before /\ \A l \in before : l <= last
    BY <1>4
  <1> HIDE DEF last
  <1>6. last = h
    BY <1>0, <1>2, <1>4, <1>5
  <1> QED
    BY <1>3, <1>4, <1>6

LEMMA GapIsFound == ArchiveInv => MissingPeriodBreaksChain
  <1> SUFFICES ASSUME ArchiveInv, site.seen = anchors, LinkedToThePeriodBefore,
                      NEW p \in Period, p \notin Published,
                      NEW ql \in Published, ql < p, NEW qg \in Published, qg > p
               PROVE  ExitCode = 1
    BY DEF MissingPeriodBreaksChain
  <1> DEFINE n == Len(site.reports)
             id(i) == site.reports[i].periodId
             T == {i \in 1..n : id(i) > p}
  <1>1. DOMAIN site.reports = 1..n /\ n \in Nat
    BY PublishedIs
  <1>2. \A i \in 1..n : AnchoredPeriod(id(i)) /\ id(i) \in Nat
    BY PublishedIs, <1>1
  <1>3. \A i, j \in 1..n : i < j => id(i) < id(j)
    BY PublishedIs, <1>1
  <1>4. \A q : q \in Published <=> \E i \in 1..n : id(i) = q
    BY <1>1 DEF Published
  <1>5. p \in Nat /\ p >= 1
    BY PeriodAssumption DEF PeriodAssumption, Period
  <1> HIDE DEF n, id
  <1>6. T \subseteq Nat /\ T # {}
    BY <1>4
  <1> HIDE DEF T
  <1>7. PICK k \in T : \A j \in T : k <= j
    BY <1>6, LeastNat
  <1>8. k \in 1..n /\ id(k) > p /\ \A j \in 1..n : id(j) > p => k <= j
    BY <1>7 DEF T
  <1>9. k > 1
    <2>1. PICK j \in 1..n : id(j) = ql
      BY <1>4
    <2>2. id(j) < id(k)
      BY <1>2, <1>5, <1>8, <2>1
    <2>3. ~(k < j) /\ k # j
      BY <1>2, <1>3, <1>8, <2>2
    <2> QED
      BY <1>1, <1>8, <2>1, <2>3
  <1> DEFINE h == k - 1
  <1>10. h \in 1..n /\ h < k
    BY <1>1, <1>8, <1>9
  <1> HIDE DEF h
  <1>11. id(h) < p
    <2>1. ~(id(h) > p)
      BY <1>1, <1>8, <1>10
    <2>2. id(h) # p
      BY <1>4, <1>10
    <2> QED
      BY <1>2, <1>5, <1>10, <2>1, <2>2
  <1>12. AnchorsInv
    BY DEF ArchiveInv
  <1>13. PICK b \in 1..Len(anchors) :
            AnchorFor(id(h)) = {b} /\ anchors[b].anchor.periodId = id(h) /\ Anchored(anchors[b])
    BY <1>2, <1>10, <1>12, AnchorForIs
  <1>14. PICK c \in 1..Len(anchors) :
            AnchorFor(id(k)) = {c} /\ anchors[c].anchor.periodId = id(k) /\ c \in DOMAIN anchors
    BY <1>2, <1>8, <1>12, AnchorForIs
  <1>15. PICK a \in DOMAIN anchors : /\ anchors[a].anchor.periodId = id(k) - 1
                                     /\ anchors[c].anchor.prevAnchorDigest = anchors[a].anchorDigest
    <2>1. anchors[c].anchor.periodId > 1
      BY <1>2, <1>5, <1>8, <1>14
    <2> QED
      BY <1>14, <2>1 DEF LinkedToThePeriodBefore
  <1>16. anchors[a].anchorDigest # anchors[b].anchorDigest
    <2>1. a \in 1..Len(anchors)
      BY <1>12, <1>15 DEF AnchorsInv, IsList
    <2>2. /\ anchors[a].anchorDigest = AnchorDigest(anchors[a].anchor)
          /\ anchors[b].anchorDigest = AnchorDigest(anchors[b].anchor)
      BY <1>12, <1>13, <2>1 DEF AnchorsInv, Anchored
    <2>3. anchors[a].anchor.periodId # anchors[b].anchor.periodId
      BY <1>2, <1>5, <1>8, <1>10, <1>11, <1>13, <1>15
    <2> QED
      BY <2>2, <2>3, DigestsTellPeriods
  <1>17. anchors[b].anchorDigest \in PreviousDigest(k)
    <2>1. PreviousDigest(k) = {anchors[i].anchorDigest : i \in AnchorFor(site.reports[k - 1].periodId)}
      BY <1>1, <1>8, <1>9, PreviousIs
    <2>2. AnchorFor(site.reports[k - 1].periodId) = {b}
      BY <1>13 DEF id, h
    <2> QED
      BY <2>1, <2>2
  <1>18. ~ChainHolds(k, site.seen[c])
    BY <1>15, <1>16, <1>17 DEF ChainHolds
  <1>19. c \in AnchorFor(site.reports[k].periodId)
    BY <1>14 DEF id
  <1>20. Fails(k)
    BY <1>18, <1>19 DEF Fails
  <1> QED
    BY <1>1, <1>8, <1>20 DEF ExitCode

\* Without a gap, the k-th report is of period k.
LEMMA NoGapIs ==
  ASSUME ArchiveInv, NoGap, NEW k \in DOMAIN site.reports
  PROVE  site.reports[k].periodId = k
  <1> DEFINE n == Len(site.reports)
             f == [i \in 1..n |-> site.reports[i].periodId]
  <1>1. DOMAIN site.reports = 1..n /\ n \in Nat
    BY PublishedIs
  <1>2. \A i, j \in 1..n : i < j => site.reports[i].periodId < site.reports[j].periodId
    BY <1>1, PublishedIs
  <1>3. \A q : q \in 1..n <=> \E i \in 1..n : site.reports[i].periodId = q
    BY <1>1 DEF NoGap, Published
  <1> HIDE DEF n
  <1>4. /\ f \in [1..n -> 1..n] /\ (\A i, j \in 1..n : i < j => f[i] < f[j])
        /\ \A q \in 1..n : \E i \in 1..n : f[i] = q
    <2>1. f \in [1..n -> 1..n]
      BY <1>3
    <2>2. ASSUME NEW q \in 1..n PROVE \E i \in 1..n : f[i] = q
      <3>1. PICK i \in 1..n : site.reports[i].periodId = q
        BY <1>3
      <3> QED
        BY <3>1
    <2> QED
      BY <1>2, <2>1, <2>2
  <1>5. \A i \in 1..n : f[i] = site.reports[i].periodId
    OBVIOUS
  <1> HIDE DEF f
  <1>6. \A i \in 1..n : f[i] = i
    BY <1>1, <1>4, Counted
  <1> QED
    BY <1>1, <1>5, <1>6

\* The links of the anchors hold from each report to the next.
LEMMA LinkHolds ==
  ASSUME ArchiveInv, site.seen = anchors, OneAnchorPerPeriod, LinkedToThePeriodBefore, NoGap,
         NEW k \in DOMAIN site.reports, NEW c \in AnchorFor(site.reports[k].periodId)
  PROVE  ChainHolds(k, site.seen[c])
  <1>1. /\ k \in Nat /\ k >= 1 /\ \A j \in 1..k : j \in DOMAIN site.reports
    BY PublishedIs
  <1>2. AnchorsInv /\ \A j \in 1..k : AnchoredPeriod(j) /\ site.reports[j].periodId = j
    <2>1. ASSUME NEW j \in 1..k PROVE AnchoredPeriod(j) /\ site.reports[j].periodId = j
      <3>1. AnchoredPeriod(site.reports[j].periodId)
        BY <1>1, PublishedIs
      <3>2. site.reports[j].periodId = j
        BY <1>1, NoGapIs
      <3> QED
        BY <3>1, <3>2
    <2> QED
      BY <2>1 DEF ArchiveInv
  <1>3. CASE k = 1
    <2>1. PreviousDigest(k) = {}
      BY <1>3 DEF PreviousDigest
    <2> QED
      BY <2>1 DEF ChainHolds
  <1>4. CASE k > 1
    <2> DEFINE h == k - 1
    <2>1. h \in 1..k /\ k \in 1..k
      BY <1>1, <1>4
    <2>2. PreviousDigest(k) = {anchors[m].anchorDigest : m \in AnchorFor(site.reports[h].periodId)}
      BY <1>4, PreviousIs
    <2>3. h = k - 1
      OBVIOUS
    <2> HIDE DEF h
    <2>4. PICK b \in 1..Len(anchors) :
             AnchorFor(h) = {b} /\ anchors[b].anchor.periodId = h /\ b \in DOMAIN anchors
      BY <1>2, <2>1, AnchorForIs
    <2>5. PICK d \in 1..Len(anchors) :
             AnchorFor(k) = {d} /\ anchors[d].anchor.periodId = k /\ d \in DOMAIN anchors
      BY <1>2, <2>1, AnchorForIs
    <2>6. c = d
      BY <1>2, <2>1, <2>5
    <2>7. PICK a \in DOMAIN anchors : /\ anchors[a].anchor.periodId = k - 1
                                      /\ anchors[d].anchor.prevAnchorDigest = anchors[a].anchorDigest
      BY <1>4, <2>5 DEF LinkedToThePeriodBefore
    <2>8. anchors[a] = anchors[b]
      BY <2>3, <2>4, <2>7 DEF OneAnchorPerPeriod
    <2>9. PreviousDigest(k) = {anchors[b].anchorDigest}
      BY <1>2, <2>1, <2>2, <2>4
    <2> QED
      BY <2>6, <2>7, <2>8, <2>9 DEF ChainHolds
  <1> QED
    BY <1>1, <1>3, <1>4

-----------------------------------------------------------------------------
(* A report that shows the rows of its anchor.                              *)
Faithful(meta, rows) ==
  /\ meta.bytes = meta.servedDigest /\ meta.bytes.rows = rows
  /\ meta.bytes.leaves = Leaves(rows) /\ meta.bytes.merkleRoot = MerkleRoot(Leaves(rows))
  /\ meta.anchoredRoot = MerkleRoot(Leaves(rows))

LEMMA FaithfulReproduces ==
  ASSUME NEW rows, RowList(rows), NEW meta, Faithful(meta, rows)
  PROVE  ReportReproduces(meta)
  <1> DEFINE leaves == Leaves(rows)
             root == MerkleRoot(leaves)
  <1>1. IsList(rows) /\ \A i \in 1..Len(rows) : Tells(rows[i])
    BY DEF RowList
  <1>2. /\ meta.bytes = meta.servedDigest /\ meta.bytes.rows = rows
        /\ meta.bytes.leaves = leaves /\ meta.bytes.merkleRoot = root /\ meta.anchoredRoot = root
    BY DEF Faithful
  <1>3. leaves = LeavesOf(rows) /\ root = MerkleRoot(LeavesOf(rows))
    BY LeavesAlike DEF LeavesSame
  <1> HIDE DEF leaves, root
  <1>4. \A i \in 1..Len(rows) : \A row :
          PeriodRowVerify(row, MerkleProof(i - 1, leaves), root) <=> row = rows[i]
    BY <1>1, <1>3, RowProofExact
  <1>5. DOMAIN rows = 1..Len(rows) /\ Len(rows) \in Nat /\ (rows # <<>> => Len(rows) > 0)
    BY <1>1, EmptyIs DEF IsList
  <1>6. \A i \in DOMAIN rows : PeriodRowVerify(rows[i], MerkleProof(i - 1, leaves), root)
    BY <1>4, <1>5
  <1>7. ASSUME rows # <<>>
        PROVE  ~PeriodRowVerify([rows[1] EXCEPT !.exit.returned = @ - 1], MerkleProof(0, leaves), root)
    <2>1. 1 \in 1..Len(rows) /\ 1 - 1 = 0
      BY <1>5, <1>7
    <2> DEFINE row == rows[1]
               wrong == [row EXCEPT !.exit.returned = @ - 1]
    <2>2. wrong # row
      BY <1>1, <2>1, ReturnedLess
    <2> HIDE DEF wrong
    <2>3. ~PeriodRowVerify(wrong, MerkleProof(0, leaves), root)
      BY <1>4, <2>1, <2>2
    <2> QED
      BY <2>3 DEF wrong
  <1>8. /\ leaves = Leaves(meta.bytes.rows) /\ root = MerkleRoot(Leaves(meta.bytes.rows))
    BY <1>2 DEF leaves, root
  <1> QED
    BY <1>2, <1>6, <1>7, <1>8 DEF ReportReproduces

LEMMA FaithfulPasses ==
  ASSUME ArchiveInv, site.seen = anchors, OneAnchorPerPeriod, LinkedToThePeriodBefore, NoGap,
         NEW k \in DOMAIN site.reports,
         Faithful(site.reports[k], FirstAnchor(anchors, site.reports[k].periodId).rows)
  PROVE  ~Fails(k)
  <1> DEFINE meta == site.reports[k]
             p == meta.periodId
             rows == FirstAnchor(anchors, p).rows
  <1>1. AnchorsInv /\ AnchoredPeriod(p)
    BY PublishedIs DEF ArchiveInv
  <1>2. PICK i \in 1..Len(anchors) :
            AnchorFor(p) = {i} /\ FirstAnchor(anchors, p) = anchors[i] /\ Anchored(anchors[i])
    BY <1>1, AnchorForIs
  <1>3. /\ rows = anchors[i].rows /\ RowList(rows)
        /\ anchors[i].anchorDigest = AnchorDigest(anchors[i].anchor)
        /\ anchors[i].anchor.totals = TotalsOf(rows)
        /\ anchors[i].anchor.merkleRoot = MerkleRoot(Leaves(rows))
    BY <1>2 DEF Anchored
  <1>4. Faithful(meta, rows)
    OBVIOUS
  <1> HIDE DEF rows
  <1>5. ReportReproduces(meta)
    BY <1>3, <1>4, FaithfulReproduces
  <1>6. AnchorReproduces(meta, site.seen[i])
    <2>1. meta.bytes.rows = rows
      BY <1>4 DEF Faithful
    <2> HIDE DEF meta
    <2> QED
      BY <1>3, <2>1 DEF AnchorReproduces
  <1>7. ChainHolds(k, site.seen[i])
    BY <1>2, LinkHolds
  <1> QED
    BY <1>2, <1>5, <1>6, <1>7 DEF Fails

\* The bytes the verifier compares a report with are those first anchored.
LEMMA ByteFindingIs ==
  ASSUME ArchiveInv, site.seen = anchors, NEW k \in DOMAIN site.reports
  PROVE  LET a == FirstAnchor(anchors, site.reports[k].periodId).anchor
         IN  ByteFinding(k) <=> site.reports[k].bytes # a.reportDigest
  <1> DEFINE p == site.reports[k].periodId
  <1>1. AnchorsInv /\ AnchoredPeriod(p)
    BY PublishedIs DEF ArchiveInv
  <1>2. PICK i \in 1..Len(anchors) : AnchorFor(p) = {i} /\ FirstAnchor(anchors, p) = anchors[i]
    BY <1>1, AnchorForIs
  <1>3. (CHOOSE j \in AnchorFor(p) : TRUE) = i /\ AnchorFor(p) # {}
    BY <1>2
  <1> QED
    BY <1>2, <1>3 DEF ByteFinding

\* The digest of the first anchor, when digests are of the anchored rows.
LEMMA FirstDigestIs ==
  ASSUME ArchiveInv, DigestsOfTheirRows, NEW p, AnchoredPeriod(p)
  PROVE  LET x == FirstAnchor(anchors, p)
         IN  /\ x.anchor.reportDigest = ReportBytes(p, x.rows, "anchored")
             /\ x.anchor.merkleRoot = MerkleRoot(Leaves(x.rows))
  <1>1. AnchorsInv /\ DOMAIN anchors = 1..Len(anchors)
    BY DEF ArchiveInv, AnchorsInv, IsList
  <1>2. PICK i \in 1..Len(anchors) :
            /\ anchors[i].anchor.periodId = p
            /\ FirstAnchor(anchors, p) = anchors[i] /\ Anchored(anchors[i])
    BY <1>1, FirstOfIs
  <1>3. anchors[i].anchor.reportDigest = ReportBytes(p, anchors[i].rows, "anchored")
    BY <1>1, <1>2 DEF DigestsOfTheirRows
  <1> QED
    BY <1>2, <1>3 DEF Anchored

LEMMA HonestIsAccepted == ArchiveInv => HonestArchiveAccepted
  <1> SUFFICES ASSUME ArchiveInv, site.seen = anchors, NoGap,
                      OneAnchorPerPeriod, DigestsOfTheirRows, LinkedToThePeriodBefore,
                      \A k \in DOMAIN site.reports :
                         LET a == FirstAnchor(anchors, site.reports[k].periodId).anchor
                         IN  site.reports[k] = Meta(a.periodId, a.reportDigest, a)
               PROVE  ExitCode = 0
    BY DEF HonestArchiveAccepted
  <1>1. ASSUME NEW k \in DOMAIN site.reports
        PROVE  /\ Faithful(site.reports[k], FirstAnchor(anchors, site.reports[k].periodId).rows)
               /\ ~ByteFinding(k)
    <2> DEFINE meta == site.reports[k]
               p == meta.periodId
               x == FirstAnchor(anchors, p)
               rows == x.rows
               report == ReportBytes(p, rows, "anchored")
               a == x.anchor
    <2>1. AnchoredPeriod(p)
      BY PublishedIs
    <2>2. a.reportDigest = report /\ a.merkleRoot = MerkleRoot(Leaves(rows))
      BY <2>1, FirstDigestIs
    <2>3. meta = Meta(a.periodId, a.reportDigest, a)
      OBVIOUS
    <2>4. /\ meta.bytes = a.reportDigest /\ meta.servedDigest = a.reportDigest
          /\ meta.anchoredRoot = a.merkleRoot
      <3> HIDE DEF a, meta
      <3> QED
        BY <2>3, MetaHas
    <2>5. report.rows = rows /\ report.leaves = Leaves(rows) /\ report.merkleRoot = MerkleRoot(Leaves(rows))
      BY ReportHas
    <2>6. ~ByteFinding(k)
      BY <2>4, ByteFindingIs
    <2>7. Faithful(meta, rows)
      <3> HIDE DEF rows, a, report
      <3> QED
        BY <2>2, <2>4, <2>5 DEF Faithful
    <2> QED
      BY <2>6, <2>7
  <1>2. \A k \in DOMAIN site.reports : ~Fails(k) /\ ~ByteFinding(k)
    BY <1>1, FaithfulPasses
  <1> QED
    BY <1>2 DEF ExitCode

LEMMA FormatPut ==
  ASSUME NEW bytes, NEW p, NEW rows, [bytes EXCEPT !.format = "anchored"] = ReportBytes(p, rows, "anchored")
  PROVE  /\ bytes.rows = rows /\ bytes.leaves = Leaves(rows) /\ bytes.merkleRoot = MerkleRoot(Leaves(rows))
  <1> DEFINE root == MerkleRoot(Leaves(rows))
             leaves == Leaves(rows)
             e == [bytes EXCEPT !.format = "anchored"]
  <1>1. /\ e.rows = rows /\ e.leaves = leaves /\ e.merkleRoot = root
        /\ {"rows", "leaves", "merkleRoot"} \subseteq DOMAIN e
    BY DEF ReportBytes
  <1>2. e.rows = bytes.rows /\ e.leaves = bytes.leaves /\ e.merkleRoot = bytes.merkleRoot
    <2>1. DOMAIN e = DOMAIN bytes
      OBVIOUS
    <2>2. {"rows", "leaves", "merkleRoot"} \subseteq DOMAIN bytes
      BY <1>1, <2>1
    <2> QED
      BY <2>2
  <1> QED
    BY <1>1, <1>2

LEMMA RewrittenIsFound == ArchiveInv => RewrittenReportIsAFinding
  <1> DEFINE Complete == OneAnchorPerPeriod /\ DigestsOfTheirRows /\ LinkedToThePeriodBefore /\ NoGap
  <1> SUFFICES ASSUME ArchiveInv, site.seen = anchors,
                      \A k \in DOMAIN site.reports :
                        /\ site.reports[k].bytes = site.reports[k].servedDigest
                        /\ [site.reports[k].bytes EXCEPT !.format = "anchored"] = site.reports[k].anchoredDigest,
                      \E k \in DOMAIN site.reports : site.reports[k].bytes.format = "pretty"
               PROVE  ExitCode # 0 /\ (Complete => ExitCode = 2)
    BY DEF RewrittenReportIsAFinding
  <1>1. PICK r \in DOMAIN site.reports : site.reports[r].bytes.format = "pretty"
    OBVIOUS
  <1>2. ByteFinding(r)
    <2> DEFINE p == site.reports[r].periodId
               x == FirstAnchor(anchors, p)
               report == x.anchor.reportDigest
    <2>1. Anchored(x)
      BY PublishedIs, FirstOfIs DEF ArchiveInv
    <2>2. report.format = "anchored"
      BY <2>1, ReportHas DEF Anchored
    <2>3. site.reports[r].bytes # report
      <3> HIDE DEF report
      <3> QED
        BY <1>1, <2>2
    <2> QED
      BY <2>3, ByteFindingIs
  <1>3. ExitCode # 0
    BY <1>2 DEF ExitCode
  <1>4. ASSUME Complete, NEW k \in DOMAIN site.reports
        PROVE  Faithful(site.reports[k], FirstAnchor(anchors, site.reports[k].periodId).rows)
    <2> DEFINE meta == site.reports[k]
               p == meta.periodId
               x == FirstAnchor(anchors, p)
               rows == x.rows
               root == MerkleRoot(Leaves(rows))
    <2>1. /\ meta.bytes = meta.servedDigest
          /\ [meta.bytes EXCEPT !.format = "anchored"] = meta.anchoredDigest
      OBVIOUS
    <2>2. Held(meta) /\ AnchoredPeriod(p)
      BY PublishedIs
    <2>3. x.anchor.reportDigest = ReportBytes(p, rows, "anchored") /\ x.anchor.merkleRoot = root
      BY <1>4, <2>2, FirstDigestIs
    <2>4. /\ meta.anchoredDigest = x.anchor.reportDigest
          /\ meta.anchoredRoot \in {x.anchor.merkleRoot, MerkleRoot(Leaves(meta.bytes.rows))}
      BY <2>2 DEF Held
    <2> HIDE DEF meta, rows, x
    <2>5. /\ meta.bytes.rows = rows /\ meta.bytes.leaves = Leaves(rows)
          /\ meta.bytes.merkleRoot = MerkleRoot(Leaves(rows))
      BY <2>1, <2>3, <2>4, FormatPut
    <2>6. meta.anchoredRoot = MerkleRoot(Leaves(rows))
      BY <2>3, <2>4, <2>5
    <2>7. Faithful(meta, rows)
      BY <2>1, <2>5, <2>6 DEF Faithful
    <2> QED
      BY <2>7 DEF meta, rows, x
  <1>5. ASSUME Complete PROVE ExitCode = 2
    <2>1. \A k \in DOMAIN site.reports : ~Fails(k)
      BY <1>4, <1>5, FaithfulPasses
    <2> QED
      BY <1>2, <2>1 DEF ExitCode
  <1> QED
    BY <1>3, <1>5

\* Whatever the anchors declare of rows and reports, in whatever order the
\* periods were submitted and however often, and whatever the archive shows: if
\* every anchor is linked to one of the period before, the verifier that is
\* given the ledger's anchors refuses an archive from which a period between
\* two published ones was left out (verify-anchor.mjs 326-336). The ledger does
\* not make the link hold: it is an argument (Cycle.daml 269-287).
THEOREM MissingPeriodFound == AuditSpec => []MissingPeriodBreaksChain
  BY ArchiveInvariant, GapIsFound, PTL

\* Whatever was anchored: a report the verifier accepts against the ledger's
\* anchors shows the rows that were first anchored for its period, none of them
\* changed, left out, added or counted twice since (verify-anchor.mjs 377-382).
\* It says nothing of how those rows came to be declared.
THEOREM AcceptedRowsTrue == AuditSpec => []AcceptedReportMisstatesNothing
  BY ArchiveInvariant, AcceptedIsAnchored, PTL

\* While a transaction holds one half: if the rows first anchored for the
\* published periods were those of a complete read, an accepted report shows
\* exactly the cycles that the ledger closed in its period, each as it was
\* closed (verify-anchor.mjs 377-382).
THEOREM AcceptedReportTrue ==
  ASSUME MaxHalves = 1
  PROVE  AuditSpec => []AcceptedReportIsTheLedger
  BY ArchiveInvariant, AcceptedIsLedger, PTL

\* An archive published as it was anchored, without a gap, passes, when the
\* anchors are of one declaration per period, with the digest of the rows they
\* declare and a link to the period before (verify-anchor.mjs 226-340).
THEOREM HonestArchivePasses == AuditSpec => []HonestArchiveAccepted
  BY ArchiveInvariant, HonestIsAccepted, PTL

\* A report rewritten after it was anchored never passes, whatever the anchors,
\* and over anchors like those it is told apart from one that does not
\* reproduce (verify-anchor.mjs 341-356).
THEOREM RewritingFound == AuditSpec => []RewrittenReportIsAFinding
  BY ArchiveInvariant, RewrittenIsFound, PTL
=============================================================================
