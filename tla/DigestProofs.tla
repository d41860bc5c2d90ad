---------------------------- MODULE DigestProofs ----------------------------
(***************************************************************************)
(* What digests are taken of.  Texts: what is put together can be taken    *)
(* apart.  The canonical encoding: a value, a list, the fields of a record *)
(* and a document are each told from whatever follows them.  The tree over *)
(* a period's rows, for any rows and any number of them: a proof made for  *)
(* a row proves that row under the root and no other, and the root tells   *)
(* the rows.                                                               *)
(***************************************************************************)
EXTENDS Merkle, DocumentValues, NumberProofs

-----------------------------------------------------------------------------
(* Texts: what is put together can be taken apart. *)

LEMMA TextConcat ==
  ASSUME NEW a \in Texts, NEW b \in Texts
  PROVE  /\ a \o b \in Texts /\ Len(a) \in Nat /\ Len(b) \in Nat
         /\ Len(a \o b) = Len(a) + Len(b)
         /\ \A i \in 1..Len(a) : (a \o b)[i] = a[i]
         /\ \A i \in 1..Len(b) : (a \o b)[Len(a) + i] = b[i]
  <1>1. a \in Seq(STRING) /\ b \in Seq(STRING)
    BY DEF Texts
  <1>2. /\ a \o b \in Seq(STRING) /\ Len(a \o b) = Len(a) + Len(b)
        /\ \A i \in 1..(Len(a) + Len(b)) : (a \o b)[i] = IF i <= Len(a) THEN a[i] ELSE b[i - Len(a)]
    BY <1>1, ConcatProperties, Zenon
  <1>3. Len(a) \in Nat /\ Len(b) \in Nat
    BY <1>1
  <1>4. \A i \in 1..Len(a) : (a \o b)[i] = a[i]
    BY <1>2, <1>3
  <1>5. ASSUME NEW i \in 1..Len(b) PROVE (a \o b)[Len(a) + i] = b[i]
    <2>1. Len(a) + i \in 1..(Len(a) + Len(b)) /\ ~(Len(a) + i <= Len(a)) /\ (Len(a) + i) - Len(a) = i
      BY <1>3
    <2> QED
      BY <2>1, <1>2
  <1> QED
    BY <1>2, <1>3, <1>4, <1>5 DEF Texts

LEMMA TextLen ==
  ASSUME NEW a \in Texts, NEW b \in Texts
  PROVE  /\ a \o b \in Texts /\ Len(a) \in Nat /\ Len(b) \in Nat
         /\ Len(a \o b) = Len(a) + Len(b)
  BY TextConcat

LEMMA TextLeft ==
  ASSUME NEW a \in Texts, NEW b \in Texts, NEW i \in 1..Len(a)
  PROVE  (a \o b)[i] = a[i]
  BY TextConcat

LEMMA TextRight ==
  ASSUME NEW a \in Texts, NEW b \in Texts, NEW i \in 1..Len(b)
  PROVE  (a \o b)[Len(a) + i] = b[i]
  BY TextConcat

LEMMA TextAssoc ==
  ASSUME NEW a \in Texts, NEW b \in Texts, NEW c \in Texts
  PROVE  (a \o b) \o c = a \o (b \o c)
  BY ConcatAssociative DEF Texts

LEMMA TextEmpty ==
  ASSUME NEW a \in Texts
  PROVE  /\ <<>> \in Texts /\ a \o <<>> = a /\ <<>> \o a = a
         /\ (a = <<>> <=> Len(a) = 0)
  <1>1. <<>> \in Texts /\ a \o <<>> = a /\ <<>> \o a = a
    BY ConcatEmptySeq, EmptySeq DEF Texts
  <1>2. a = <<>> <=> Len(a) = 0
    BY EmptySeq, LenProperties DEF Texts
  <1> QED
    BY <1>1, <1>2

LEMMA OneOf ==
  ASSUME NEW S, NEW c \in S
  PROVE  <<c>> \in Seq(S) /\ Len(<<c>>) = 1 /\ <<c>>[1] = c
  OBVIOUS

LEMMA FourOf ==
  ASSUME NEW S, NEW a \in S, NEW b \in S, NEW c \in S, NEW d \in S
  PROVE  <<a, b, c, d>> \in Seq(S) /\ Len(<<a, b, c, d>>) = 4
  OBVIOUS

LEMMA MarkIs ==
  ASSUME NEW c \in Marks
  PROVE  c \in STRING
  BY MarksAssumption

LEMMA CharText ==
  ASSUME NEW c \in STRING
  PROVE  <<c>> \in Texts /\ Len(<<c>>) = 1 /\ <<c>>[1] = c
  BY OneOf, Zenon DEF Texts

LEMMA TextCancel ==
  ASSUME NEW a \in Texts, NEW r \in Texts, NEW s \in Texts, a \o r = a \o s
  PROVE  r = s
  BY ConcatSimplifications, Zenon DEF Texts

LEMMA TextEqual ==
  ASSUME NEW a \in Texts, NEW b \in Texts, Len(a) = Len(b), \A i \in 1..Len(a) : a[i] = b[i]
  PROVE  a = b
  BY SeqEqual DEF Texts

\* Two texts that start alike, in parts of one length, are alike in their parts.
LEMMA TextParts ==
  ASSUME NEW a \in Texts, NEW b \in Texts, NEW r \in Texts, NEW s \in Texts,
         Len(a) = Len(b), a \o r = b \o s
  PROVE  a = b /\ r = s
  <1>1. \A i \in 1..Len(a) : a[i] = (a \o r)[i] /\ b[i] = (b \o s)[i]
    BY TextConcat
  <1>2. a = b
    BY <1>1, TextEqual
  <1> QED
    BY <1>2, TextCancel

\* What comes before the first of a character, and after it.
LEMMA TextOne ==
  ASSUME NEW c \in STRING, NEW r \in Texts
  PROVE  /\ <<c>> \o r \in Texts /\ (<<c>> \o r)[1] = c
         /\ Len(<<c>> \o r) = Len(r) + 1
  <1>1. <<c>> \in Texts /\ Len(<<c>>) = 1 /\ <<c>>[1] = c
    BY CharText
  <1> DEFINE d == <<c>>
  <1>2. d \in Texts /\ Len(d) = 1 /\ d[1] = c
    BY <1>1
  <1> HIDE DEF d
  <1>3. d \o r \in Texts /\ (d \o r)[1] = c /\ Len(d \o r) = Len(r) + 1
    <2>1. 1 \in 1..Len(d)
      BY <1>2
    <2>2. (d \o r)[1] = c
      BY <1>2, <2>1, TextLeft
    <2>3. d \o r \in Texts /\ Len(d \o r) = Len(d) + Len(r) /\ Len(r) \in Nat
      BY <1>2, TextLen
    <2>4. Len(d \o r) = Len(r) + 1
      BY <1>2, <2>3
    <2> QED
      BY <2>2, <2>3, <2>4
  <1> QED
    BY <1>3 DEF d

\* Words none of which starts another tell two texts apart.
LEMMA TextStart ==
  ASSUME NEW words, Apart(words), NEW v \in words, NEW w \in words,
         Spell(v) \in Texts, Spell(w) \in Texts, NEW r \in Texts, NEW s \in Texts,
         Spell(v) \o r = Spell(w) \o s
  PROVE  v = w
  <1>1. ASSUME v # w PROVE FALSE
    <2>1. PICK i \in 1..Len(Spell(v)) : i <= Len(Spell(w)) /\ Spell(v)[i] # Spell(w)[i]
      BY <1>1 DEF Apart
    <2>2. i \in 1..Len(Spell(w))
      BY <2>1, TextConcat
    <2>3. (Spell(v) \o r)[i] = Spell(v)[i] /\ (Spell(w) \o s)[i] = Spell(w)[i]
      BY <2>2, TextConcat
    <2> QED
      BY <2>1, <2>3
  <1> QED
    BY <1>1

-----------------------------------------------------------------------------
(* Numbers in decimal. *)
Digits == {"0", "1", "2", "3", "4", "5", "6", "7", "8", "9"}

IsDigits(n, f) ==
  f = [k \in 0..n |->
         IF k < 10 THEN <<Digit[k + 1]>> ELSE f[k \div 10] \o <<Digit[(k % 10) + 1]>>]

LEMMA DigitIs ==
  ASSUME NEW i \in 1..10
  PROVE  Digit[i] \in Digits /\ \A j \in 1..10 : Digit[i] = Digit[j] => i = j
  BY DEF Digit, Digits

LEMMA DigitMark ==
  ASSUME NEW c \in Digits
  PROVE  c \in STRING /\ c # ":" /\ c # "-"
  <1>1. c \in Marks
    BY DEF Digits, Marks
  <1> QED
    BY <1>1, MarkIs DEF Digits

LEMMA TenthSmaller ==
  ASSUME NEW k \in Nat, 10 <= k
  PROVE  k \div 10 \in 1..(k - 1) /\ (k % 10) + 1 \in 1..10
  OBVIOUS

LEMMA TenthsTell ==
  ASSUME NEW j \in Nat, NEW k \in Nat, j \div 10 = k \div 10, j % 10 = k % 10
  PROVE  j = k
  BY SMTT(60)

LEMMA DigitsExist ==
  ASSUME NEW n \in Nat
  PROVE  \E f : IsDigits(n, f)
  <1> DEFINE N == {k \in Nat : \E f : IsDigits(k, f)}
  <1>1. 0 \in N
    <2> DEFINE f == [k \in 0..0 |-> <<Digit[k + 1]>>]
    <2>1. IsDigits(0, f)
      <3>1. \A k \in 0..0 : k < 10
        OBVIOUS
      <3> QED
        BY <3>1 DEF IsDigits
    <2> HIDE DEF f
    <2> QED
      BY <2>1
  <1>2. ASSUME NEW m \in Nat, m \in N PROVE m + 1 \in N
    <2>1. PICK f : IsDigits(m, f)
      BY <1>2
    <2> DEFINE g == [k \in 0..(m + 1) |->
                       IF k < 10 THEN <<Digit[k + 1]>> ELSE f[k \div 10] \o <<Digit[(k % 10) + 1]>>]
    <2>2. \A k \in 0..m : g[k] = f[k]
      <3> SUFFICES ASSUME NEW k \in 0..m PROVE g[k] = f[k]
        OBVIOUS
      <3>1. f[k] = IF k < 10 THEN <<Digit[k + 1]>> ELSE f[k \div 10] \o <<Digit[(k % 10) + 1]>>
        BY <2>1 DEF IsDigits
      <3>2. k \in 0..(m + 1)
        OBVIOUS
      <3> QED
        BY <3>1, <3>2
    <2>3. \A k \in 0..(m + 1) : ~(k < 10) => k \div 10 \in 0..m
      <3> SUFFICES ASSUME NEW k \in 0..(m + 1), ~(k < 10) PROVE k \div 10 \in 0..m
        OBVIOUS
      <3>1. k \in Nat /\ 10 <= k
        OBVIOUS
      <3>2. k \div 10 \in 1..(k - 1)
        BY <3>1, TenthSmaller
      <3> QED
        BY <3>2
    <2>4. g = [k \in 0..(m + 1) |->
                 IF k < 10 THEN <<Digit[k + 1]>> ELSE g[k \div 10] \o <<Digit[(k % 10) + 1]>>]
      <3>1. \A k \in 0..(m + 1) : ~(k < 10) => g[k \div 10] = f[k \div 10]
        BY <2>2, <2>3
      <3> QED
        BY <3>1
    <2> HIDE DEF g
    <2>5. IsDigits(m + 1, g)
      BY <2>4 DEF IsDigits
    <2> QED
      BY <2>5
  <1> HIDE DEF N
  <1>3. n \in N
    BY <1>1, <1>2, NatInductionSet
  <1> QED
    BY <1>3 DEF N

LEMMA DigitsAgree ==
  ASSUME NEW m \in Nat, NEW n \in Nat, NEW f, NEW g, IsDigits(m, f), IsDigits(n, g)
  PROVE  \A k \in Nat : k <= m /\ k <= n => f[k] = g[k]
  <1> DEFINE T == {k \in Nat : k <= m /\ k <= n /\ f[k] # g[k]}
  <1> SUFFICES ASSUME T # {} PROVE FALSE
    OBVIOUS
  <1>1. PICK k \in T : \A j \in T : k <= j
    BY LeastNat
  <1>2. k \in 0..m /\ k \in 0..n /\ k \in Nat
    BY <1>1
  <1>3. /\ f[k] = IF k < 10 THEN <<Digit[k + 1]>> ELSE f[k \div 10] \o <<Digit[(k % 10) + 1]>>
        /\ g[k] = IF k < 10 THEN <<Digit[k + 1]>> ELSE g[k \div 10] \o <<Digit[(k % 10) + 1]>>
    BY <1>2 DEF IsDigits
  <1>4. CASE k < 10
    BY <1>1, <1>3, <1>4
  <1>5. CASE ~(k < 10)
    <2>1. k \div 10 \in 1..(k - 1)
      BY <1>2, <1>5, TenthSmaller
    <2>2. f[k \div 10] = g[k \div 10]
      BY <1>1, <1>2, <2>1
    <2> QED
      BY <1>1, <1>3, <1>5, <2>2
  <1> QED
    BY <1>4, <1>5

LEMMA DecimalsIs ==
  ASSUME NEW n \in Nat
  PROVE  Decimals(n) = IF n < 10 THEN <<Digit[n + 1]>>
                       ELSE Decimals(n \div 10) \o <<Digit[(n % 10) + 1]>>
  <1>1. ASSUME NEW m \in Nat PROVE \E f : IsDigits(m, f) /\ Decimals(m) = f[m]
    <2> DEFINE f == CHOOSE f : IsDigits(m, f)
    <2>1. IsDigits(m, f)
      BY DigitsExist
    <2>2. Decimals(m) = f[m]
      BY DEF Decimals, IsDigits
    <2> QED
      BY <2>1, <2>2
  <1>2. PICK f : IsDigits(n, f) /\ Decimals(n) = f[n]
    BY <1>1
  <1>3. f[n] = IF n < 10 THEN <<Digit[n + 1]>> ELSE f[n \div 10] \o <<Digit[(n % 10) + 1]>>
    <2>1. n \in 0..n
      OBVIOUS
    <2> QED
      BY <1>2, <2>1 DEF IsDigits
  <1>4. ASSUME ~(n < 10) PROVE Decimals(n \div 10) = f[n \div 10]
    <2>1. n \div 10 \in 1..(n - 1)
      BY <1>4, TenthSmaller
    <2>2. PICK g : IsDigits(n \div 10, g) /\ Decimals(n \div 10) = g[n \div 10]
      BY <1>1, <2>1
    <2> DEFINE k == n \div 10
    <2>3. k \in Nat /\ k <= n
      BY <2>1
    <2> HIDE DEF k
    <2>4. IsDigits(k, g) /\ Decimals(k) = g[k]
      BY <2>2 DEF k
    <2>5. f[k] = g[k]
      BY <1>2, <2>3, <2>4, DigitsAgree
    <2> QED
      BY <2>4, <2>5 DEF k
  <1> QED
    BY <1>2, <1>3, <1>4

\* Where the last character is cut off.
LEMMA TextLast ==
  ASSUME NEW a \in Texts, NEW b \in Texts, NEW c \in STRING, NEW d \in STRING,
         a \o <<c>> = b \o <<d>>
  PROVE  a = b
  <1> DEFINE x == <<c>>
             y == <<d>>
  <1>1. x \in Texts /\ Len(x) = 1 /\ x[1] = c /\ y \in Texts /\ Len(y) = 1 /\ y[1] = d
    BY CharText
  <1>2. a \o x = b \o y
    OBVIOUS
  <1> HIDE DEF x, y
  <1>3. Len(a \o x) = Len(a) + Len(x) /\ Len(b \o y) = Len(b) + Len(y) /\ Len(a) \in Nat /\ Len(b) \in Nat
    BY <1>1, TextLen
  <1>4. Len(a) = Len(b)
    BY <1>1, <1>2, <1>3
  <1> QED
    BY <1>1, <1>2, <1>4, TextParts

IsDecimal(s) == s \in Texts /\ Len(s) >= 1 /\ \A i \in 1..Len(s) : s[i] \in Digits

LEMMA DecimalsType ==
  ASSUME NEW n \in Nat
  PROVE  IsDecimal(Decimals(n))
  <1> DEFINE T == {k \in Nat : ~IsDecimal(Decimals(k))}
  <1> SUFFICES ASSUME T # {} PROVE FALSE
    OBVIOUS
  <1>1. PICK k \in T : \A j \in T : k <= j
    BY LeastNat
  <1>2. CASE k < 10
    <2>1. Decimals(k) = <<Digit[k + 1]>>
      BY <1>1, <1>2, DecimalsIs
    <2>2. Digit[k + 1] \in Digits
      <3>1. k + 1 \in 1..10
        BY <1>1, <1>2
      <3> QED
        BY <3>1, DigitIs
    <2> DEFINE c == Digit[k + 1]
    <2>3. c \in Digits
      BY <2>2
    <2> HIDE DEF c
    <2>4. <<c>> \in Texts /\ Len(<<c>>) = 1 /\ <<c>>[1] = c
      BY <2>3, DigitMark, CharText
    <2>5. IsDecimal(<<c>>)
      BY <2>3, <2>4 DEF IsDecimal
    <2> QED
      BY <1>1, <2>1, <2>5 DEF c
  <1>3. CASE ~(k < 10)
    <2>1. k \div 10 \in 1..(k - 1) /\ (k % 10) + 1 \in 1..10
      BY <1>1, <1>3, TenthSmaller
    <2> DEFINE c == Digit[(k % 10) + 1]
               s == Decimals(k \div 10)
    <2>2. c \in Digits
      BY <2>1, DigitIs
    <2>3. Decimals(k) = s \o <<c>>
      BY <1>1, <1>3, DecimalsIs
    <2>4. IsDecimal(s)
      BY <1>1, <2>1
    <2> HIDE DEF c, s
    <2> DEFINE x == <<c>>
    <2>5. x \in Texts /\ Len(x) = 1 /\ x[1] = c
      BY <2>2, DigitMark, CharText
    <2> HIDE DEF x
    <2>6. /\ s \o x \in Texts /\ Len(s \o x) = Len(s) + 1 /\ Len(s) \in Nat
          /\ \A i \in 1..Len(s) : (s \o x)[i] = s[i]
      <3>1. s \in Texts
        BY <2>4 DEF IsDecimal
      <3>2. s \o x \in Texts /\ Len(s \o x) = Len(s) + Len(x) /\ Len(s) \in Nat
        BY <2>5, <3>1, TextLen
      <3>3. \A i \in 1..Len(s) : (s \o x)[i] = s[i]
        BY <2>5, <3>1, TextLeft
      <3> QED
        BY <2>5, <3>2, <3>3
    <2>7. (s \o x)[Len(s) + 1] = c
      <3>1. 1 \in 1..Len(x)
        BY <2>5
      <3> QED
        BY <2>4, <2>5, <3>1, TextRight DEF IsDecimal
    <2>8. IsDecimal(s \o x)
      <3>1. \A i \in 1..(Len(s) + 1) : i \in 1..Len(s) \/ i = Len(s) + 1
        BY <2>6
      <3> QED
        BY <2>2, <2>4, <2>6, <2>7, <3>1 DEF IsDecimal
    <2> QED
      BY <1>1, <2>3, <2>8 DEF x
  <1> QED
    BY <1>2, <1>3

LEMMA DecimalsTell ==
  ASSUME NEW m \in Nat, NEW n \in Nat, Decimals(m) = Decimals(n)
  PROVE  m = n
  <1> DEFINE T == {k \in Nat : \E j \in Nat : j # k /\ Decimals(j) = Decimals(k)}
  <1> SUFFICES ASSUME T # {} PROVE FALSE
    OBVIOUS
  <1>1. PICK k \in T : \A i \in T : k <= i
    BY LeastNat
  <1>2. PICK j \in Nat : j # k /\ Decimals(j) = Decimals(k)
    BY <1>1
  <1>3. j \in T /\ k \in Nat
    BY <1>1, <1>2
  <1>4. k < j
    BY <1>1, <1>2, <1>3
  <1>5. CASE j < 10
    <2>1. Decimals(j) = <<Digit[j + 1]>> /\ Decimals(k) = <<Digit[k + 1]>>
      <3>1. j \in Nat /\ j < 10 /\ k \in Nat /\ k < 10
        BY <1>3, <1>4, <1>5
      <3>2. Decimals(j) = <<Digit[j + 1]>>
        BY <3>1, DecimalsIs
      <3>3. Decimals(k) = <<Digit[k + 1]>>
        BY <3>1, DecimalsIs
      <3> QED
        BY <3>2, <3>3
    <2>2. Digit[j + 1] = Digit[k + 1]
      <3> DEFINE c == Digit[j + 1]
                 d == Digit[k + 1]
      <3>1. <<c>> = <<d>>
        BY <1>2, <2>1
      <3> HIDE DEF c, d
      <3>2. c = d
        BY <3>1
      <3> QED
        BY <3>2 DEF c, d
    <2>3. j + 1 \in 1..10 /\ k + 1 \in 1..10
      BY <1>3, <1>4, <1>5
    <2>4. j + 1 = k + 1
      BY <2>2, <2>3, DigitIs
    <2> QED
      BY <1>2, <1>3, <2>4
  <1>6. CASE ~(j < 10)
    <2>1. j \div 10 \in 1..(j - 1) /\ (j % 10) + 1 \in 1..10
      BY <1>6, TenthSmaller
    <2> DEFINE c == Digit[(j % 10) + 1]
               s == Decimals(j \div 10)
    <2>2. c \in Digits /\ IsDecimal(s) /\ Decimals(j) = s \o <<c>>
      <3>1. c \in Digits
        BY <2>1, DigitIs
      <3>2. IsDecimal(s)
        <4>1. j \div 10 \in Nat
          BY <2>1
        <4> QED
          BY <4>1, DecimalsType
      <3>3. Decimals(j) = s \o <<c>>
        BY <1>6, <1>3, DecimalsIs
      <3> QED
        BY <3>1, <3>2, <3>3
    <2>3. CASE k < 10
      <3>1. Decimals(k) = <<Digit[k + 1]>>
        BY <1>3, <2>3, DecimalsIs
      <3>2. k + 1 \in 1..10
        BY <1>3, <2>3
      <3> DEFINE d == Digit[k + 1]
      <3>3. d \in Digits
        BY <3>2, DigitIs
      <3>4. s \o <<c>> = <<d>>
        BY <1>2, <2>2, <3>1
      <3> HIDE DEF c, s, d
      <3>5. <<c>> \in Texts /\ Len(<<c>>) = 1 /\ Len(<<d>>) = 1
        BY <2>2, <3>3, DigitMark, CharText
      <3>6. Len(s \o <<c>>) = Len(s) + Len(<<c>>) /\ Len(s) \in Nat
        BY <2>2, <3>5, TextLen DEF IsDecimal
      <3> QED
        BY <2>2, <3>4, <3>5, <3>6 DEF IsDecimal
    <2>4. CASE ~(k < 10)
      <3>1. k \div 10 \in 1..(k - 1) /\ (k % 10) + 1 \in 1..10
        BY <1>3, <2>4, TenthSmaller
      <3> DEFINE d == Digit[(k % 10) + 1]
                 t == Decimals(k \div 10)
      <3>2. d \in Digits /\ IsDecimal(t) /\ Decimals(k) = t \o <<d>>
        <4>1. d \in Digits
          BY <3>1, DigitIs
        <4>2. IsDecimal(t)
          <5>1. k \div 10 \in Nat
            BY <3>1
          <5> QED
            BY <5>1, DecimalsType
        <4>3. Decimals(k) = t \o <<d>>
          BY <1>3, <2>4, <1>3, DecimalsIs
        <4> QED
          BY <4>1, <4>2, <4>3
      <3>3. s \o <<c>> = t \o <<d>>
        BY <1>2, <2>2, <3>2
      <3>4. s = t /\ c = d
        <4> HIDE DEF s, c, t, d
        <4>1. c \in STRING /\ d \in STRING /\ s \in Texts /\ t \in Texts
          BY <2>2, <3>2, DigitMark DEF IsDecimal
        <4>2. s \o <<c>> = t \o <<d>>
          BY <3>3
        <4>3. s = t
          BY <4>1, <4>2, TextLast
        <4>4. <<c>> = <<d>>
          <5>1. <<c>> \in Texts /\ <<d>> \in Texts /\ s \o <<c>> = s \o <<d>>
            BY <4>1, <4>2, <4>3, CharText
          <5> DEFINE x == <<c>>
                     y == <<d>>
          <5>2. x \in Texts /\ y \in Texts /\ s \o x = s \o y
            BY <5>1
          <5> HIDE DEF x, y
          <5>3. x = y
            BY <4>1, <5>2, TextCancel
          <5> QED
            BY <5>3 DEF x, y
        <4> QED
          BY <4>3, <4>4
      <3>5. j % 10 = k % 10
        <4>1. (j % 10) + 1 = (k % 10) + 1
          BY <2>1, <3>1, <3>4, DigitIs
        <4> QED
          BY <4>1, <1>3
      <3>6. j \div 10 = k \div 10
        <4>1. k \div 10 \notin T
          BY <1>1, <1>3, <3>1
        <4>2. k \div 10 \in Nat /\ j \div 10 \in Nat
          BY <2>1, <3>1
        <4> QED
          BY <4>1, <4>2, <3>4
      <3>7. j = k
        BY <1>3, <3>5, <3>6, TenthsTell
      <3> QED
        BY <1>2, <3>7
    <2> QED
      BY <2>3, <2>4
  <1> QED
    BY <1>5, <1>6

LEMMA NumeralType ==
  ASSUME NEW n \in Int
  PROVE  Numeral(n) \in Texts /\ ~Includes(Numeral(n), ":")
  <1>1. CASE ~(n < 0)
    <2>1. IsDecimal(Decimals(n)) /\ Numeral(n) = Decimals(n)
      BY <1>1, DecimalsType DEF Numeral
    <2> QED
      BY <2>1, DigitMark DEF IsDecimal, Includes
  <1>2. CASE n < 0
    <2> DEFINE s == Decimals(-n)
    <2>1. IsDecimal(s) /\ Numeral(n) = <<"-">> \o s
      BY <1>2, DecimalsType DEF Numeral
    <2> HIDE DEF s
    <2>2. "-" \in STRING
      BY MarkIs DEF Marks
    <2>3. <<"-">> \in Texts /\ Len(<<"-">>) = 1 /\ <<"-">>[1] = "-"
      BY <2>2, CharText
    <2> DEFINE x == <<"-">>
    <2>4. x \in Texts /\ Len(x) = 1 /\ x[1] = "-"
      BY <2>3
    <2> HIDE DEF x
    <2>5. x \o s \in Texts /\ Len(x \o s) = 1 + Len(s) /\ Len(s) \in Nat
      BY <2>1, <2>4, TextLen DEF IsDecimal
    <2>6. (x \o s)[1] = "-"
      <3>1. 1 \in 1..Len(x)
        BY <2>4
      <3> QED
        BY <2>1, <2>4, <3>1, TextLeft DEF IsDecimal
    <2>7. \A i \in 1..Len(s) : (x \o s)[1 + i] = s[i]
      <3>1. \A i \in 1..Len(s) : (x \o s)[Len(x) + i] = s[i]
        BY <2>1, <2>4, TextRight DEF IsDecimal
      <3> QED
        BY <2>4, <3>1
    <2>8. ASSUME NEW i \in 1..Len(x \o s) PROVE (x \o s)[i] # ":"
      <3>1. CASE i = 1
        BY <3>1, <2>6
      <3>2. CASE i # 1
        <4>1. i - 1 \in 1..Len(s) /\ 1 + (i - 1) = i
          BY <2>5, <3>2
        <4>2. (x \o s)[i] = s[i - 1]
          BY <4>1, <2>7
        <4> QED
          BY <2>1, <4>1, <4>2, DigitMark DEF IsDecimal
      <3> QED
        BY <3>1, <3>2
    <2> QED
      BY <2>1, <2>5, <2>8 DEF Includes, x
  <1> QED
    BY <1>1, <1>2

LEMMA NumeralsTell ==
  ASSUME NEW m \in Int, NEW n \in Int, Numeral(m) = Numeral(n)
  PROVE  m = n
  <1>1. ASSUME NEW a \in Int, NEW b \in Int, a < 0, ~(b < 0), Numeral(a) = Numeral(b) PROVE FALSE
    <2> DEFINE s == Decimals(-a)
               t == Decimals(b)
    <2>1. IsDecimal(s) /\ IsDecimal(t) /\ <<"-">> \o s = t
      BY <1>1, DecimalsType DEF Numeral
    <2> HIDE DEF s, t
    <2>2. "-" \in STRING
      BY MarkIs DEF Marks
    <2>3. (<<"-">> \o s)[1] = "-"
      BY <2>1, <2>2, TextOne DEF IsDecimal
    <2>4. t[1] \in Digits
      <3>1. 1 \in 1..Len(t)
        BY <2>1, TextLen DEF IsDecimal
      <3> QED
        BY <2>1, <3>1 DEF IsDecimal
    <2> QED
      BY <2>1, <2>3, <2>4, DigitMark
  <1>2. CASE m < 0 /\ n < 0
    <2> DEFINE s == Decimals(-m)
               t == Decimals(-n)
    <2>1. IsDecimal(s) /\ IsDecimal(t) /\ <<"-">> \o s = <<"-">> \o t
      BY <1>2, DecimalsType DEF Numeral
    <2>2. s = t
      <3> HIDE DEF s, t
      <3>1. "-" \in STRING
        BY MarkIs DEF Marks
      <3>2. <<"-">> \in Texts
        BY <3>1, CharText
      <3> QED
        BY <2>1, <3>2, TextCancel DEF IsDecimal
    <2>3. -m \in Nat /\ -n \in Nat
      BY <1>2
    <2>4. -m = -n
      BY <2>2, <2>3, DecimalsTell
    <2> QED
      BY <2>4
  <1>3. CASE ~(m < 0) /\ ~(n < 0)
    <2>1. Decimals(m) = Decimals(n) /\ m \in Nat /\ n \in Nat
      BY <1>3 DEF Numeral
    <2> QED
      BY <2>1, DecimalsTell
  <1> QED
    BY <1>1, <1>2, <1>3

-----------------------------------------------------------------------------
(* One text after another, by a name the provers take as it is. *)
Cat(a, b) == a \o b

LEMMA CatType ==
  ASSUME NEW a, NEW b,
         a \in Texts, b \in Texts
  PROVE  /\ Cat(a, b) \in Texts /\ Len(Cat(a, b)) = Len(a) + Len(b)
         /\ Len(a) \in Nat /\ Len(b) \in Nat
  BY TextLen DEF Cat

LEMMA CatEmpty ==
  ASSUME NEW a \in Texts
  PROVE  /\ <<>> \in Texts /\ Cat(a, <<>>) = a /\ Cat(<<>>, a) = a
  BY TextEmpty DEF Cat

LEMMA CatAssoc ==
  ASSUME NEW a, NEW b, NEW c,
         a \in Texts, b \in Texts, c \in Texts
  PROVE  Cat(Cat(a, b), c) = Cat(a, Cat(b, c))
  BY TextAssoc, Zenon DEF Cat

LEMMA CatFour ==
  ASSUME NEW a, NEW b, NEW c, NEW d, a \in Texts, b \in Texts, c \in Texts, d \in Texts
  PROVE  /\ Cat(Cat(Cat(a, b), c), d) = Cat(a, Cat(b, Cat(c, d)))
         /\ Cat(c, d) \in Texts /\ Cat(b, Cat(c, d)) \in Texts /\ Cat(a, Cat(b, Cat(c, d))) \in Texts
  <1>1. Cat(c, d) \in Texts /\ Cat(a, b) \in Texts
    BY CatType
  <1>2. Cat(b, Cat(c, d)) \in Texts
    BY <1>1, CatType
  <1>3. Cat(a, Cat(b, Cat(c, d))) \in Texts
    BY <1>2, CatType
  <1>4. Cat(Cat(Cat(a, b), c), d) = Cat(Cat(a, b), Cat(c, d))
    BY <1>1, CatAssoc
  <1>5. Cat(Cat(a, b), Cat(c, d)) = Cat(a, Cat(b, Cat(c, d)))
    BY <1>1, CatAssoc
  <1> QED
    BY <1>1, <1>2, <1>3, <1>4, <1>5

LEMMA CatCancel ==
  ASSUME NEW a, NEW r, NEW s,
         a \in Texts, r \in Texts, s \in Texts, Cat(a, r) = Cat(a, s)
  PROVE  r = s
  BY TextCancel, Zenon DEF Cat

LEMMA CatParts ==
  ASSUME NEW a, NEW b, NEW r, NEW s,
         a \in Texts, b \in Texts, r \in Texts, s \in Texts, Len(a) = Len(b),
         Cat(a, r) = Cat(b, s)
  PROVE  a = b /\ r = s
  <1>1. a \o r = b \o s
    BY DEF Cat
  <1>2. a = b
    BY <1>1, TextParts, Zenon
  <1>3. r = s
    BY <1>1, TextParts, Zenon
  <1> QED
    BY <1>2, <1>3

\* A text of one character.
Characters == STRING
One(c) == <<c>>

LEMMA OneIs ==
  ASSUME NEW c \in Characters
  PROVE  One(c) \in Texts /\ Len(One(c)) = 1 /\ One(c)[1] = c
  BY CharText, Zenon DEF One, Characters

LEMMA CatAt ==
  ASSUME NEW a, NEW c, NEW r,
         a \in Texts, c \in Characters, r \in Texts
  PROVE  /\ Cat(a, Cat(One(c), r))[Len(a) + 1] = c
         /\ Len(Cat(a, Cat(One(c), r))) = Len(a) + (Len(r) + 1)
  <1> DEFINE m == <<c>> \o r
  <1>1. m \in Texts /\ m[1] = c /\ Len(m) = Len(r) + 1
    BY TextOne, Zenon DEF Characters
  <1>2. Cat(a, Cat(One(c), r)) = a \o m
    BY DEF Cat, One
  <1> HIDE DEF m
  <1>3. 1 \in 1..Len(m)
    BY <1>1, TextLen
  <1>4. (a \o m)[Len(a) + 1] = m[1]
    BY <1>1, <1>3, TextRight
  <1>5. Len(a \o m) = Len(a) + Len(m)
    BY <1>1, TextLen
  <1> QED
    BY <1>1, <1>2, <1>4, <1>5

LEMMA CatLeft ==
  ASSUME NEW a, NEW b, NEW i \in 1..Len(a),
         a \in Texts, b \in Texts
  PROVE  Cat(a, b)[i] = a[i]
  BY TextLeft, Zenon DEF Cat

LEMMA CatNotBefore ==
  ASSUME NEW a, NEW b, NEW r, NEW s, NEW c,
         a \in Texts, b \in Texts, r \in Texts, s \in Texts, c \in Characters,
         ~Includes(b, c), Cat(a, Cat(One(c), r)) = Cat(b, s)
  PROVE  Len(b) <= Len(a)
  <1>1. Len(a) \in Nat /\ Len(b) \in Nat
    BY CatType
  <1>2. ASSUME Len(a) < Len(b) PROVE FALSE
    <2>1. Len(a) + 1 \in 1..Len(b)
      BY <1>1, <1>2
    <2>2. Cat(a, Cat(One(c), r))[Len(a) + 1] = c
      BY CatAt
    <2>3. Cat(b, s)[Len(a) + 1] = b[Len(a) + 1]
      BY <2>1, CatLeft
    <2> QED
      BY <2>1, <2>2, <2>3 DEF Includes
  <1> QED
    BY <1>1, <1>2

\* A text up to the first of a character, and what comes after it.
LEMMA CatCut ==
  ASSUME NEW a, NEW b, NEW r, NEW s, NEW c,
         a \in Texts, b \in Texts, r \in Texts, s \in Texts, c \in Characters,
         ~Includes(a, c), ~Includes(b, c),
         Cat(a, Cat(One(c), r)) = Cat(b, Cat(One(c), s))
  PROVE  a = b /\ r = s
  <1>1. One(c) \in Texts
    BY OneIs
  <1>2. Cat(One(c), r) \in Texts /\ Cat(One(c), s) \in Texts
    BY <1>1, CatType
  <1>3. Len(b) <= Len(a) /\ Len(a) <= Len(b)
    BY <1>2, CatNotBefore
  <1>4. Len(a) = Len(b)
    BY <1>3, CatType
  <1>5. a = b /\ Cat(One(c), r) = Cat(One(c), s)
    <2>1. a = b
      BY <1>2, <1>4, CatParts
    <2>2. Cat(One(c), r) = Cat(One(c), s)
      BY <1>2, <1>4, CatParts
    <2> QED
      BY <2>1, <2>2
  <1> QED
    BY <1>1, <1>5, CatCancel

LEMMA CatStart ==
  ASSUME NEW words, NEW v \in words, NEW w \in words, NEW r, NEW s,
         Apart(words), Spell(v) \in Texts, Spell(w) \in Texts, r \in Texts, s \in Texts,
         Cat(Spell(v), r) = Cat(Spell(w), s)
  PROVE  v = w /\ r = s
  <1>1. Spell(v) \o r = Spell(w) \o s
    BY DEF Cat
  <1>2. v = w
    BY <1>1, TextStart, Zenon
  <1>3. r = s
    <2>1. Cat(Spell(v), r) = Cat(Spell(v), s)
      BY <1>2
    <2> QED
      BY <2>1, CatCancel
  <1> QED
    BY <1>2, <1>3

-----------------------------------------------------------------------------
(* A value with its tag and its size is told from whatever follows it. *)
Tags == {"t", "i", "b", "m", "p", "d", "o", "l", "r", "k"}

LEMMA SeparatorTexts ==
  \A c \in {":", "|", "=", ";", "/", ">"} : c \in Characters /\ One(c) \in Texts /\ Len(One(c)) = 1
  <1>1. \A c \in {":", "|", "=", ";", "/", ">"} : c \in Characters
    BY MarkIs DEF Marks, Characters
  <1> QED
    BY <1>1, OneIs

LEMMA TagMark ==
  ASSUME NEW tag \in Tags
  PROVE  tag \in Characters
  <1>1. tag \in Marks
    BY DEF Tags, Marks
  <1> QED
    BY <1>1, MarkIs DEF Characters

LEMMA TwoOf ==
  ASSUME NEW S, NEW a \in S, NEW b \in S
  PROVE  <<a, b>> \in Seq(S) /\ Len(<<a, b>>) = 2 /\ <<a, b>>[1] = a /\ <<a, b>>[2] = b
  OBVIOUS

LEMMA PairText ==
  ASSUME NEW c, NEW d,
         c \in Characters, d \in Characters
  PROVE  <<c, d>> \in Texts /\ Len(<<c, d>>) = 2 /\ <<c, d>>[1] = c /\ <<c, d>>[2] = d
  BY TwoOf, Zenon DEF Texts, Characters

\* What is after the tag.
Sized(value) == Cat(Numeral(Len(value)), Cat(One(":"), value))

LEMMA SizedType ==
  ASSUME NEW v \in Texts
  PROVE  Sized(v) \in Texts /\ Numeral(Len(v)) \in Texts /\ Cat(One(":"), v) \in Texts
  <1>1. Len(v) \in Int
    BY TextLen
  <1>2. Numeral(Len(v)) \in Texts
    BY <1>1, NumeralType
  <1>3. Cat(One(":"), v) \in Texts
    BY SeparatorTexts, CatType
  <1> QED
    BY <1>2, <1>3, CatType DEF Sized

LEMMA CanonIs ==
  ASSUME NEW tag, NEW v,
         tag \in Characters, v \in Texts
  PROVE  /\ Canon(tag, v) = Cat(<<tag, ":">>, Sized(v))
         /\ Canon(tag, v) \in Texts /\ Len(Canon(tag, v)) >= 2
  <1> DEFINE p == <<tag, ":">>
             n == Numeral(Len(v))
             c == One(":")
  <1>1. p \in Texts /\ n \in Texts /\ c \in Texts /\ Len(p) = 2
    BY PairText, SeparatorTexts, SizedType
  <1>2. Canon(tag, v) = Cat(Cat(Cat(p, n), c), v) /\ Sized(v) = Cat(n, Cat(c, v))
    BY DEF Canon, Sized, Cat, One
  <1> HIDE DEF p, n, c
  <1>3. Cat(p, n) \in Texts /\ Cat(c, v) \in Texts
    BY <1>1, CatType
  <1>6. Canon(tag, v) = Cat(p, Sized(v))
    BY <1>1, <1>2, <1>3, CatAssoc
  <1>7. Sized(v) \in Texts
    BY SizedType
  <1>8. Canon(tag, v) \in Texts /\ Len(Canon(tag, v)) = 2 + Len(Sized(v)) /\ Len(Sized(v)) \in Nat
    <2>1. /\ Cat(p, Sized(v)) \in Texts /\ Len(Cat(p, Sized(v))) = Len(p) + Len(Sized(v))
          /\ Len(Sized(v)) \in Nat
      BY <1>1, <1>7, CatType
    <2> QED
      BY <1>1, <1>6, <2>1
  <1> QED
    BY <1>6, <1>8 DEF p

LEMMA SizedTells ==
  ASSUME NEW v, NEW w, NEW r, NEW s,
         v \in Texts, w \in Texts, r \in Texts, s \in Texts,
         Cat(Sized(v), r) = Cat(Sized(w), s)
  PROVE  v = w /\ r = s
  <1> DEFINE m == Numeral(Len(v))
             n == Numeral(Len(w))
             x == Cat(v, r)
             y == Cat(w, s)
  <1>1. /\ Len(v) \in Int /\ Len(w) \in Int /\ x \in Texts /\ y \in Texts
        /\ m \in Texts /\ n \in Texts /\ ~Includes(m, ":") /\ ~Includes(n, ":")
    BY CatType, NumeralType
  <1>2. ASSUME NEW a \in Texts, NEW b \in Texts
        PROVE  Cat(Sized(a), b) = Cat(Numeral(Len(a)), Cat(One(":"), Cat(a, b)))
    <2> DEFINE k == Numeral(Len(a))
               c == One(":")
    <2>1. k \in Texts /\ c \in Texts /\ Cat(c, a) \in Texts /\ Sized(a) = Cat(k, Cat(c, a))
      BY SizedType, SeparatorTexts DEF Sized
    <2> HIDE DEF k, c
    <2> QED
      BY <2>1, CatAssoc DEF k, c
  <1>3. Cat(m, Cat(One(":"), x)) = Cat(n, Cat(One(":"), y))
    BY <1>2
  <1> HIDE DEF m, n, x, y
  <1>4. m = n /\ x = y
    <2>1. ":" \in Characters
      BY SeparatorTexts
    <2> QED
      BY <1>1, <1>3, <2>1, CatCut
  <1>5. Len(v) = Len(w)
    BY <1>1, <1>4, NumeralsTell DEF m, n
  <1> QED
    BY <1>4, <1>5, CatParts DEF x, y

LEMMA CanonTells ==
  ASSUME NEW t, NEW u, NEW v, NEW w, NEW r, NEW s,
         t \in Characters, u \in Characters, v \in Texts, w \in Texts, r \in Texts, s \in Texts,
         Cat(Canon(t, v), r) = Cat(Canon(u, w), s)
  PROVE  t = u /\ v = w /\ r = s
  <1> DEFINE p == <<t, ":">>
             q == <<u, ":">>
  <1>1. /\ p \in Texts /\ q \in Texts /\ Len(p) = Len(q)
        /\ p[1] = t /\ q[1] = u /\ Sized(v) \in Texts /\ Sized(w) \in Texts
    BY PairText, SeparatorTexts, SizedType
  <1>2. Canon(t, v) = Cat(p, Sized(v)) /\ Canon(u, w) = Cat(q, Sized(w))
    BY CanonIs
  <1> HIDE DEF p, q
  <1> DEFINE x == Cat(Sized(v), r)
             y == Cat(Sized(w), s)
  <1>4. x \in Texts /\ y \in Texts /\ Cat(p, x) = Cat(q, y)
    BY <1>1, <1>2, CatAssoc, CatType
  <1> HIDE DEF x, y
  <1>5. p = q /\ x = y
    BY <1>1, <1>4, CatParts
  <1>6. v = w /\ r = s
    BY <1>5, SizedTells DEF x, y
  <1> QED
    BY <1>1, <1>5, <1>6

\* ... and so from another value, when nothing follows.
LEMMA CanonSame ==
  ASSUME NEW t, NEW u, NEW v, NEW w,
         t \in Characters, u \in Characters, v \in Texts, w \in Texts,
         Canon(t, v) = Canon(u, w)
  PROVE  t = u /\ v = w
  <1> DEFINE e == <<>>
  <1>1. Cat(Canon(t, v), e) = Cat(Canon(u, w), e) /\ e \in Texts
    BY CatEmpty, CanonIs
  <1> HIDE DEF e
  <1>2. t = u /\ v = w
    <2>1. t = u
      BY <1>1, CanonTells
    <2>2. v = w
      BY <1>1, CanonTells
    <2> QED
      BY <2>1, <2>2
  <1> QED
    BY <1>2

\* The encoded values.
CanonTexts == {Canon(t, v) : t \in Tags, v \in Texts}

\* Texts of which none can be taken for the start of another.
IsCode(C) ==
  /\ C \subseteq Texts /\ <<>> \notin C
  /\ \A x, y \in C : \A r, s \in Texts : Cat(x, r) = Cat(y, s) => x = y

LEMMA CanonTextsCode == IsCode(CanonTexts)
  <1>1. ASSUME NEW x \in CanonTexts PROVE x \in Texts /\ x # <<>>
    <2>1. PICK t \in Tags, v \in Texts : x = Canon(t, v)
      BY DEF CanonTexts
    <2>2. x \in Texts /\ Len(x) >= 2
      BY <2>1, TagMark, CanonIs
    <2>3. Len(<<>>) = 0
      BY EmptySeq
    <2> QED
      BY <2>2, <2>3
  <1>2. ASSUME NEW x \in CanonTexts, NEW y \in CanonTexts, NEW r \in Texts, NEW s \in Texts, Cat(x, r) = Cat(y, s)
        PROVE  x = y
    <2>1. PICK t \in Tags, v \in Texts : x = Canon(t, v)
      BY DEF CanonTexts
    <2>2. PICK u \in Tags, w \in Texts : y = Canon(u, w)
      BY DEF CanonTexts
    <2>3. t \in Characters /\ u \in Characters /\ Cat(Canon(t, v), r) = Cat(Canon(u, w), s)
      BY <1>2, <2>1, <2>2, TagMark
    <2>4. t = u /\ v = w
      <3>1. t = u
        BY <2>3, CanonTells
      <3>2. v = w
        BY <2>3, CanonTells
      <3> QED
        BY <3>1, <3>2
    <2> QED
      BY <2>1, <2>2, <2>4
  <1> QED
    BY <1>1, <1>2 DEF IsCode

-----------------------------------------------------------------------------
(* Texts joined: items one after the other, each told from what follows. *)
IsChain(n, x, f) == f[0] = <<>> /\ \A i \in 1..n : f[i] = Cat(f[i-1], x[i])

LEMMA ChainType ==
  ASSUME NEW n \in Nat, NEW x, NEW f, IsChain(n, x, f), \A i \in 1..n : x[i] \in Texts
  PROVE  \A i \in 0..n : f[i] \in Texts
  <1> DEFINE N == {k \in Nat : k <= n => f[k] \in Texts}
  <1>1. 0 \in N
    <2>1. <<>> \in Texts
      BY EmptySeq DEF Texts
    <2> QED
      BY <2>1 DEF IsChain
  <1>2. ASSUME NEW k \in Nat, k \in N PROVE k + 1 \in N
    <2> SUFFICES ASSUME k + 1 <= n PROVE f[k + 1] \in Texts
      OBVIOUS
    <2>1. k + 1 \in 1..n /\ (k + 1) - 1 = k /\ f[k] \in Texts
      BY <1>2
    <2>2. f[k + 1] = Cat(f[k], x[k + 1])
      BY <2>1 DEF IsChain
    <2> QED
      BY <2>1, <2>2, CatType
  <1> HIDE DEF N
  <1>3. Nat \subseteq N
    BY <1>1, <1>2, NatInductionSet
  <1> QED
    BY <1>3 DEF N

LEMMA ChainRest ==
  ASSUME NEW n \in Nat, NEW x, NEW f, IsChain(n, x, f), \A i \in 1..n : x[i] \in Texts,
         NEW k \in Nat, k < n
  PROVE  \E rest \in Texts : f[n] = Cat(f[k], Cat(x[k + 1], rest))
  <1> DEFINE N == {d \in Nat : k + 1 + d <= n =>
                     \E rest \in Texts : f[k + 1 + d] = Cat(f[k], Cat(x[k + 1], rest))}
  <1>1. \A i \in 0..n : f[i] \in Texts
    BY ChainType
  <1>2. k + 1 \in 1..n /\ (k + 1) - 1 = k /\ x[k + 1] \in Texts /\ f[k] \in Texts
    BY <1>1
  <1>3. 0 \in N
    <2>1. f[k + 1] = Cat(f[k], x[k + 1])
      BY <1>2 DEF IsChain
    <2> DEFINE e == <<>>
    <2>2. e \in Texts /\ x[k + 1] = Cat(x[k + 1], e)
      BY <1>2, CatEmpty
    <2> HIDE DEF e
    <2>3. f[k + 1 + 0] = Cat(f[k], Cat(x[k + 1], e))
      BY <2>1, <2>2
    <2> QED
      BY <2>2, <2>3
  <1>4. ASSUME NEW d \in Nat, d \in N PROVE d + 1 \in N
    <2> SUFFICES ASSUME k + 1 + (d + 1) <= n
                 PROVE  \E rest \in Texts : f[k + 1 + (d + 1)] = Cat(f[k], Cat(x[k + 1], rest))
      OBVIOUS
    <2> DEFINE j == k + 1 + (d + 1)
    <2>1. j \in 1..n /\ j - 1 = k + 1 + d /\ k + 1 + d <= n
      OBVIOUS
    <2>2. PICK r \in Texts : f[j - 1] = Cat(f[k], Cat(x[k + 1], r))
      BY <1>4, <2>1
    <2>3. f[j] = Cat(f[j - 1], x[j]) /\ x[j] \in Texts
      BY <2>1 DEF IsChain
    <2> HIDE DEF j
    <2> DEFINE p == f[k]
               u == x[k + 1]
               v == x[j]
    <2>4. p \in Texts /\ u \in Texts /\ v \in Texts /\ Cat(u, r) \in Texts /\ Cat(r, v) \in Texts
      BY <1>2, <2>3, CatType
    <2>5. f[j] = Cat(Cat(p, Cat(u, r)), v)
      BY <2>2, <2>3
    <2> HIDE DEF p, u, v
    <2>6. Cat(Cat(p, Cat(u, r)), v) = Cat(p, Cat(u, Cat(r, v)))
      BY <2>4, CatAssoc
    <2>7. f[j] = Cat(p, Cat(u, Cat(r, v)))
      BY <2>5, <2>6
    <2> QED
      BY <2>4, <2>7 DEF p, u, j
  <1> HIDE DEF N
  <1>5. Nat \subseteq N
    BY <1>3, <1>4, NatInductionSet
  <1>6. n - (k + 1) \in N /\ k + 1 + (n - (k + 1)) = n
    BY <1>5
  <1> QED
    BY <1>6 DEF N

LEMMA ChainsAgree ==
  ASSUME NEW C, IsCode(C), NEW n \in Nat, NEW m \in Nat, NEW x, NEW y, NEW f, NEW g,
         IsChain(n, x, f), IsChain(m, y, g), \A i \in 1..n : x[i] \in C, \A i \in 1..m : y[i] \in C,
         f[n] = g[m], n <= m
  PROVE  n = m /\ \A i \in 1..n : x[i] = y[i]
  <1>0. \A i \in 1..n : x[i] \in Texts
    BY DEF IsCode
  <1>00. \A i \in 1..m : y[i] \in Texts
    BY DEF IsCode
  <1> DEFINE N == {k \in Nat : k <= n => f[k] = g[k] /\ \A i \in 1..k : x[i] = y[i]}
  <1>1. 0 \in N
    BY DEF IsChain
  <1>2. ASSUME NEW k \in Nat, k \in N PROVE k + 1 \in N
    <2> SUFFICES ASSUME k + 1 <= n PROVE f[k + 1] = g[k + 1] /\ \A i \in 1..(k + 1) : x[i] = y[i]
      OBVIOUS
    <2>1. k < n /\ k < m /\ k + 1 \in 1..n /\ k + 1 \in 1..m /\ (k + 1) - 1 = k
      OBVIOUS
    <2>2. f[k] = g[k] /\ \A i \in 1..k : x[i] = y[i]
      BY <1>2, <2>1
    <2>3. PICK r \in Texts : f[n] = Cat(f[k], Cat(x[k + 1], r))
      BY <1>0, <2>1, ChainRest
    <2>4. PICK s \in Texts : g[m] = Cat(g[k], Cat(y[k + 1], s))
      BY <1>00, <2>1, ChainRest
    <2> DEFINE u == x[k + 1]
               v == y[k + 1]
               p == f[k]
    <2>5. u \in C /\ v \in C /\ u \in Texts /\ v \in Texts
      BY <1>0, <1>00, <2>1
    <2>6. p \in Texts
      <3>1. k \in 0..n
        BY <2>1
      <3> QED
        BY <1>0, <3>1, ChainType
    <2>7. Cat(p, Cat(u, r)) = Cat(p, Cat(v, s))
      BY <2>2, <2>3, <2>4
    <2> HIDE DEF u, v, p
    <2>8. Cat(u, r) \in Texts /\ Cat(v, s) \in Texts
      BY <2>5, CatType
    <2>9. Cat(u, r) = Cat(v, s)
      BY <2>6, <2>7, <2>8, CatCancel
    <2>10. u = v
      BY <2>5, <2>9 DEF IsCode
    <2>11. f[k + 1] = g[k + 1]
      BY <2>1, <2>2, <2>10 DEF IsChain, u, v
    <2>12. \A i \in 1..(k + 1) : i \in 1..k \/ i = k + 1
      OBVIOUS
    <2> QED
      BY <2>2, <2>10, <2>11, <2>12 DEF u, v
  <1> HIDE DEF N
  <1>3. n \in N
    BY <1>1, <1>2, NatInductionSet
  <1>4. f[n] = g[n] /\ \A i \in 1..n : x[i] = y[i]
    BY <1>3 DEF N
  <1>5. ASSUME n < m PROVE FALSE
    <2>1. PICK s \in Texts : g[m] = Cat(g[n], Cat(y[n + 1], s))
      BY <1>00, <1>5, ChainRest
    <2> DEFINE p == g[n]
               v == y[n + 1]
    <2>2. p \in Texts
      <3>1. n \in 0..m
        OBVIOUS
      <3> QED
        BY <1>00, <3>1, ChainType
    <2>3. v \in C
      <3>1. n + 1 \in 1..m
        BY <1>5
      <3> QED
        BY <3>1
    <2>4. p = Cat(p, Cat(v, s))
      BY <1>4, <2>1
    <2> HIDE DEF p, v
    <2>5. v \in Texts /\ v # <<>>
      BY <2>3 DEF IsCode
    <2>6. Len(v) # 0
      BY <2>5, TextEmpty
    <2>7. /\ Len(Cat(v, s)) = Len(v) + Len(s) /\ Len(v) \in Nat /\ Len(s) \in Nat
          /\ Cat(v, s) \in Texts
      BY <2>5, CatType
    <2>8. Len(Cat(p, Cat(v, s))) = Len(p) + Len(Cat(v, s)) /\ Len(p) \in Nat
      BY <2>2, <2>7, CatType
    <2> QED
      BY <2>4, <2>6, <2>7, <2>8
  <1> QED
    BY <1>4, <1>5

LEMMA ChainsTell ==
  ASSUME NEW C, IsCode(C), NEW n \in Nat, NEW m \in Nat, NEW x, NEW y, NEW f, NEW g,
         IsChain(n, x, f), IsChain(m, y, g), \A i \in 1..n : x[i] \in C, \A i \in 1..m : y[i] \in C,
         f[n] = g[m]
  PROVE  n = m /\ \A i \in 1..n : x[i] = y[i]
  <1>1. CASE n <= m
    BY <1>1, ChainsAgree
  <1>2. CASE m <= n
    <2>1. m = n /\ \A i \in 1..m : y[i] = x[i]
      BY <1>2, ChainsAgree
    <2> QED
      BY <2>1
  <1> QED
    BY <1>1, <1>2

IsJoin(xs, separator, n, f) ==
  f = [k \in 0..n |-> IF k = 0 THEN <<>> ELSE f[k-1] \o (IF k > 1 THEN separator ELSE <<>>) \o xs[k]]

LEMMA JoinExists ==
  ASSUME NEW xs, NEW separator, NEW n \in Nat
  PROVE  \E f : IsJoin(xs, separator, n, f)
  <1> DEFINE N == {k \in Nat : \E f : IsJoin(xs, separator, k, f)}
  <1>1. 0 \in N
    <2> DEFINE f == [k \in 0..0 |-> <<>>]
    <2>1. IsJoin(xs, separator, 0, f)
      <3>1. \A k \in 0..0 : k = 0
        OBVIOUS
      <3> QED
        BY <3>1 DEF IsJoin
    <2> HIDE DEF f
    <2> QED
      BY <2>1
  <1>2. ASSUME NEW m \in Nat, m \in N PROVE m + 1 \in N
    <2>1. PICK f : IsJoin(xs, separator, m, f)
      BY <1>2
    <2> DEFINE g == [k \in 0..(m + 1) |-> IF k = 0 THEN <<>>
                       ELSE f[k-1] \o (IF k > 1 THEN separator ELSE <<>>) \o xs[k]]
    <2>2. \A k \in 0..m : g[k] = f[k]
      <3> SUFFICES ASSUME NEW k \in 0..m PROVE g[k] = f[k]
        OBVIOUS
      <3>1. f[k] = IF k = 0 THEN <<>> ELSE f[k-1] \o (IF k > 1 THEN separator ELSE <<>>) \o xs[k]
        BY <2>1 DEF IsJoin
      <3>2. k \in 0..(m + 1)
        OBVIOUS
      <3> QED
        BY <3>1, <3>2
    <2>3. \A k \in 0..(m + 1) : k # 0 => k - 1 \in 0..m
      OBVIOUS
    <2>4. g = [k \in 0..(m + 1) |-> IF k = 0 THEN <<>>
                 ELSE g[k-1] \o (IF k > 1 THEN separator ELSE <<>>) \o xs[k]]
      <3>1. \A k \in 0..(m + 1) : k # 0 => g[k-1] = f[k-1]
        BY <2>2, <2>3
      <3> QED
        BY <3>1
    <2> HIDE DEF g
    <2>5. IsJoin(xs, separator, m + 1, g)
      BY <2>4 DEF IsJoin
    <2> QED
      BY <2>5
  <1> HIDE DEF N
  <1>3. n \in N
    BY <1>1, <1>2, NatInductionSet
  <1> QED
    BY <1>3 DEF N

LEMMA JoinedIs ==
  ASSUME NEW xs, NEW separator, Len(xs) \in Nat
  PROVE  \E f : /\ Joined(xs, separator) = f[Len(xs)] /\ f[0] = <<>>
                /\ \A k \in 1..Len(xs) :
                     f[k] = f[k-1] \o (IF k > 1 THEN separator ELSE <<>>) \o xs[k]
  <1> DEFINE n == Len(xs)
             f == CHOOSE f : IsJoin(xs, separator, n, f)
  <1>1. IsJoin(xs, separator, n, f)
    BY JoinExists
  <1>2. Joined(xs, separator) = f[n]
    BY DEF Joined, IsJoin
  <1> HIDE DEF f
  <1>3. f[0] = <<>>
    <2>1. 0 \in 0..n
      OBVIOUS
    <2> QED
      BY <1>1, <2>1 DEF IsJoin
  <1>4. ASSUME NEW k \in 1..n PROVE f[k] = f[k-1] \o (IF k > 1 THEN separator ELSE <<>>) \o xs[k]
    <2>1. k \in 0..n /\ k # 0
      OBVIOUS
    <2> QED
      BY <1>1, <2>1 DEF IsJoin
  <1> QED
    BY <1>2, <1>3, <1>4

\* With nothing between them the items are a chain.
LEMMA JoinedPlain ==
  ASSUME NEW xs, Len(xs) \in Nat, \A i \in 1..Len(xs) : xs[i] \in Texts
  PROVE  \E f : IsChain(Len(xs), xs, f) /\ Joined(xs, <<>>) = f[Len(xs)]
  <1> DEFINE e == <<>>
             n == Len(xs)
  <1>1. PICK f : /\ Joined(xs, e) = f[n] /\ f[0] = e
                 /\ \A k \in 1..n : f[k] = f[k-1] \o (IF k > 1 THEN e ELSE e) \o xs[k]
    BY JoinedIs
  <1>2. \A k \in 1..n : f[k] = Cat(Cat(f[k-1], e), xs[k])
    BY <1>1 DEF Cat
  <1> DEFINE N == {k \in Nat : k <= n => f[k] \in Texts /\ (k > 0 => f[k] = Cat(f[k-1], xs[k]))}
  <1>3. 0 \in N
    <2>1. e \in Texts
      BY EmptySeq DEF Texts
    <2>2. f[0] \in Texts
      BY <1>1, <2>1
    <2> QED
      BY <2>2
  <1>4. ASSUME NEW k \in Nat, k \in N PROVE k + 1 \in N
    <2> SUFFICES ASSUME k + 1 <= n PROVE f[k + 1] \in Texts /\ f[k + 1] = Cat(f[k], xs[k + 1])
      OBVIOUS
    <2>1. k + 1 \in 1..n /\ (k + 1) - 1 = k /\ f[k] \in Texts
      BY <1>4
    <2>2. f[k + 1] = Cat(Cat(f[k], e), xs[k + 1]) /\ xs[k + 1] \in Texts
      BY <1>2, <2>1
    <2>3. Cat(f[k], e) = f[k]
      BY <2>1, CatEmpty
    <2> HIDE DEF e
    <2> QED
      BY <2>1, <2>2, <2>3, CatType
  <1> HIDE DEF N
  <1>5. Nat \subseteq N
    BY <1>3, <1>4, NatInductionSet
  <1>6. IsChain(n, xs, f)
    <2>1. \A k \in 1..n : k \in N /\ k <= n /\ k > 0
      BY <1>5
    <2> QED
      BY <1>1, <2>1 DEF IsChain, N
  <1> QED
    BY <1>1, <1>6

\* With a separator between them, each item with the separator after it is one of
\* a chain, once the separator is put at the end.
Ended(xs, c) == [i \in 1..Len(xs) |-> Cat(xs[i], One(c))]

LEMMA JoinedEnded ==
  ASSUME NEW xs, Len(xs) \in Nat, Len(xs) # 0, \A i \in 1..Len(xs) : xs[i] \in Texts,
         NEW c, c \in Characters
  PROVE  /\ \E f : IsChain(Len(xs), Ended(xs, c), f) /\ Cat(Joined(xs, One(c)), One(c)) = f[Len(xs)]
         /\ Joined(xs, One(c)) \in Texts
  <1> DEFINE e == <<>>
             d == One(c)
             n == Len(xs)
  <1>1. PICK f : /\ Joined(xs, d) = f[n] /\ f[0] = e
                 /\ \A k \in 1..n : f[k] = f[k-1] \o (IF k > 1 THEN d ELSE e) \o xs[k]
    BY JoinedIs
  <1>2. \A k \in 1..n : f[k] = Cat(Cat(f[k-1], IF k > 1 THEN d ELSE e), xs[k])
    BY <1>1 DEF Cat
  <1>3. d \in Texts /\ e \in Texts
    BY OneIs, EmptySeq DEF Texts
  <1> HIDE DEF d, e
  <1> DEFINE g == [k \in 0..n |-> IF k = 0 THEN e ELSE Cat(f[k], d)]
             z == Ended(xs, c)
             N == {k \in Nat : k < n => f[k + 1] \in Texts /\ g[k + 1] = Cat(g[k], z[k + 1])}
  <1>4. \A k \in 1..n : z[k] = Cat(xs[k], d) /\ g[k] = Cat(f[k], d)
    BY DEF Ended, d
  <1>5. g[0] = e
    OBVIOUS
  <1> HIDE DEF g, z
  <1>6. 0 \in N
    <2>1. 1 \in 1..n
      OBVIOUS
    <2>2. f[1] = Cat(Cat(e, e), xs[1]) /\ xs[1] \in Texts
      BY <1>1, <1>2, <2>1
    <2>3. Cat(e, e) = e /\ Cat(e, xs[1]) = xs[1]
      BY <1>3, <2>2, CatEmpty DEF e
    <2>4. f[1] = xs[1]
      BY <2>2, <2>3
    <2>5. Cat(xs[1], d) \in Texts
      BY <1>3, <2>2, CatType
    <2>6. Cat(e, Cat(xs[1], d)) = Cat(xs[1], d)
      BY <2>5, CatEmpty DEF e
    <2>7. g[1] = Cat(g[0], z[1])
      BY <1>4, <1>5, <2>1, <2>4, <2>6
    <2> QED
      BY <2>2, <2>4, <2>7
  <1>7. ASSUME NEW k \in Nat, k \in N PROVE k + 1 \in N
    <2> SUFFICES ASSUME k + 1 < n PROVE f[k + 2] \in Texts /\ g[k + 2] = Cat(g[k + 1], z[k + 2])
      OBVIOUS
    <2>1. k + 2 \in 1..n /\ k + 1 \in 1..n /\ (k + 2) - 1 = k + 1 /\ k + 2 > 1 /\ f[k + 1] \in Texts
      BY <1>7
    <2> DEFINE p == f[k + 1]
               q == f[k + 2]
               v == xs[k + 2]
    <2>2. q = Cat(Cat(p, d), v)
      BY <1>2, <2>1
    <2>3. v \in Texts /\ p \in Texts
      BY <2>1
    <2>4. g[k + 2] = Cat(q, d) /\ g[k + 1] = Cat(p, d) /\ z[k + 2] = Cat(v, d)
      BY <1>4, <2>1
    <2> HIDE DEF p, q, v
    <2>5. Cat(p, d) \in Texts /\ q \in Texts
      <3>1. Cat(p, d) \in Texts
        BY <1>3, <2>3, CatType
      <3> QED
        BY <2>2, <2>3, <3>1, CatType
    <2>6. Cat(Cat(Cat(p, d), v), d) = Cat(Cat(p, d), Cat(v, d))
      BY <1>3, <2>3, <2>5, CatAssoc
    <2> QED
      BY <2>2, <2>4, <2>5, <2>6 DEF q
  <1> HIDE DEF N
  <1>8. Nat \subseteq N
    BY <1>6, <1>7, NatInductionSet
  <1>9. \A k \in 1..n : f[k] \in Texts /\ g[k] = Cat(g[k-1], z[k])
    <2> SUFFICES ASSUME NEW k \in 1..n PROVE f[k] \in Texts /\ g[k] = Cat(g[k-1], z[k])
      OBVIOUS
    <2>1. k - 1 \in Nat /\ k - 1 < n /\ (k - 1) + 1 = k
      OBVIOUS
    <2>2. k - 1 \in N
      BY <1>8, <2>1
    <2> QED
      BY <2>1, <2>2 DEF N
  <1>10. IsChain(n, z, g)
    BY <1>5, <1>9 DEF IsChain, e
  <1>11. n \in 1..n
    OBVIOUS
  <1>12. g[n] = Cat(Joined(xs, d), d) /\ Joined(xs, d) \in Texts
    BY <1>1, <1>4, <1>9, <1>11
  <1> QED
    BY <1>10, <1>12 DEF d, z

-----------------------------------------------------------------------------
(* Names in order: two different valid names come one before the other. *)
IsName(a) == a \in Texts /\ ValidFieldName(a)

LEMMA CodePointIs ==
  ASSUME NEW c \in NameAlphabet
  PROVE  CodePoint[c] \in Nat /\ NameCharacters[CodePoint[c]] = c
  <1>1. DOMAIN NameCharacters = 1..Len(NameCharacters) /\ Len(NameCharacters) \in Nat
    BY WordsAssumption DEF Texts
  <1>2. \E i \in DOMAIN NameCharacters : NameCharacters[i] = c
    BY DEF NameAlphabet
  <1> DEFINE k == CHOOSE i \in DOMAIN NameCharacters : NameCharacters[i] = c
  <1>3. k \in DOMAIN NameCharacters /\ NameCharacters[k] = c
    BY <1>2
  <1>4. CodePoint[c] = k
    BY DEF CodePoint
  <1> HIDE DEF k
  <1>5. k \in Nat
    BY <1>1, <1>3
  <1> QED
    BY <1>3, <1>4, <1>5

LEMMA NameIs ==
  ASSUME NEW a, IsName(a)
  PROVE  Len(a) \in Nat /\ Len(a) >= 1 /\ \A i \in 1..Len(a) : CodePoint[a[i]] \in Nat
  <1>1. Len(a) \in Nat /\ a # <<>> /\ a \in Texts
    BY TextLen DEF IsName, ValidFieldName
  <1>2. Len(a) # 0
    BY <1>1, TextEmpty
  <1> QED
    BY <1>1, <1>2, CodePointIs DEF IsName, ValidFieldName

LEMMA NameNotBeforeItself ==
  ASSUME NEW a, IsName(a)
  PROVE  ~NameBefore(a, a)
  <1>1. Len(a) \in Nat /\ \A i \in 1..Len(a) : CodePoint[a[i]] \in Nat
    BY NameIs
  <1> SUFFICES ASSUME NEW i \in 1..Len(a), i <= Len(a) => CodePoint[a[i]] < CodePoint[a[i]] PROVE FALSE
    BY DEF NameBefore
  <1> QED
    BY <1>1

LEMMA NamesTransitive ==
  ASSUME NEW a, NEW b, NEW c, IsName(a), IsName(b), IsName(c), NameBefore(a, b), NameBefore(b, c)
  PROVE  NameBefore(a, c)
  <1>1. /\ Len(a) \in Nat /\ Len(b) \in Nat /\ Len(c) \in Nat
        /\ \A i \in 1..Len(a) : CodePoint[a[i]] \in Nat
        /\ \A i \in 1..Len(b) : CodePoint[b[i]] \in Nat
        /\ \A i \in 1..Len(c) : CodePoint[c[i]] \in Nat
    BY NameIs
  <1>2. PICK i \in 1..Len(b) : /\ i <= Len(a) + 1
                               /\ \A k \in 1..(i-1) : a[k] = b[k]
                               /\ i <= Len(a) => CodePoint[a[i]] < CodePoint[b[i]]
    BY DEF NameBefore
  <1>3. PICK j \in 1..Len(c) : /\ j <= Len(b) + 1
                               /\ \A k \in 1..(j-1) : b[k] = c[k]
                               /\ j <= Len(b) => CodePoint[b[j]] < CodePoint[c[j]]
    BY DEF NameBefore
  <1> DEFINE Witness(m) == /\ m \in 1..Len(c) /\ m <= Len(a) + 1
                           /\ \A k \in 1..(m-1) : a[k] = c[k]
                           /\ m <= Len(a) => CodePoint[a[m]] < CodePoint[c[m]]
  <1>4. CASE i < j
    <2>1. i \in 1..Len(c) /\ i \in 1..(j-1)
      BY <1>1, <1>2, <1>3, <1>4
    <2>2. b[i] = c[i]
      BY <1>3, <2>1
    <2>3. \A k \in 1..(i-1) : k \in 1..(j-1)
      BY <1>4
    <2>4. \A k \in 1..(i-1) : a[k] = c[k]
      BY <1>2, <1>3, <2>3
    <2>5. Witness(i)
      BY <1>2, <2>1, <2>2, <2>4
    <2> QED
      BY <2>5 DEF NameBefore
  <1>5. CASE i = j
    <2>1. \A k \in 1..(i-1) : a[k] = c[k]
      BY <1>2, <1>3, <1>5
    <2>2. ASSUME i <= Len(a) PROVE CodePoint[a[i]] < CodePoint[c[i]]
      <3>1. i \in 1..Len(a) /\ i \in 1..Len(b) /\ i \in 1..Len(c) /\ i <= Len(b)
        BY <1>1, <1>2, <1>3, <1>5, <2>2
      <3>2. CodePoint[a[i]] < CodePoint[b[i]] /\ CodePoint[b[i]] < CodePoint[c[i]]
        BY <1>2, <1>3, <1>5, <2>2, <3>1
      <3>3. CodePoint[a[i]] \in Nat /\ CodePoint[b[i]] \in Nat /\ CodePoint[c[i]] \in Nat
        BY <1>1, <3>1
      <3> QED
        BY <3>2, <3>3
    <2>3. Witness(i)
      BY <1>2, <1>3, <1>5, <2>1, <2>2
    <2> QED
      BY <2>3 DEF NameBefore
  <1>6. CASE j < i
    <2>1. j \in 1..Len(a) /\ j \in 1..Len(b) /\ j <= Len(b) /\ j \in 1..(i-1)
      BY <1>1, <1>2, <1>3, <1>6
    <2>2. a[j] = b[j] /\ CodePoint[b[j]] < CodePoint[c[j]]
      BY <1>2, <1>3, <2>1
    <2>3. \A k \in 1..(j-1) : k \in 1..(i-1)
      BY <1>6
    <2>4. \A k \in 1..(j-1) : a[k] = c[k]
      BY <1>2, <1>3, <2>3
    <2>5. j <= Len(a) + 1
      BY <1>1, <2>1
    <2>6. Witness(j)
      BY <1>3, <2>2, <2>4, <2>5
    <2> QED
      BY <2>6 DEF NameBefore
  <1> QED
    BY <1>4, <1>5, <1>6

LEMMA NamesTotal ==
  ASSUME NEW a, NEW b, IsName(a), IsName(b), a # b
  PROVE  NameBefore(a, b) \/ NameBefore(b, a)
  <1>1. Len(a) \in Nat /\ Len(b) \in Nat /\ a \in Texts /\ b \in Texts
    BY NameIs DEF IsName
  <1> DEFINE D == {k \in Nat : k >= 1 /\ k <= Len(a) /\ k <= Len(b) /\ a[k] # b[k]}
  <1>2. CASE D # {}
    <2>1. PICK i \in D : \A k \in D : i <= k
      BY <1>2, LeastNat
    <2>2. i \in 1..Len(a) /\ i \in 1..Len(b) /\ a[i] # b[i] /\ i \in Nat
      BY <1>1, <2>1
    <2>3. \A k \in 1..(i-1) : a[k] = b[k]
      <3> SUFFICES ASSUME NEW k \in 1..(i-1), a[k] # b[k] PROVE FALSE
        OBVIOUS
      <3>1. k \in D
        BY <1>1, <2>2
      <3> QED
        BY <2>1, <2>2, <3>1
    <2>4. a[i] \in NameAlphabet /\ b[i] \in NameAlphabet
      BY <2>2 DEF IsName, ValidFieldName
    <2>5. CodePoint[a[i]] \in Nat /\ CodePoint[b[i]] \in Nat /\ CodePoint[a[i]] # CodePoint[b[i]]
      BY <2>2, <2>4, CodePointIs
    <2>6. i <= Len(a) + 1 /\ i <= Len(b) + 1
      BY <1>1, <2>2
    <2>7. CASE CodePoint[a[i]] < CodePoint[b[i]]
      BY <2>2, <2>3, <2>6, <2>7 DEF NameBefore
    <2>8. CASE CodePoint[b[i]] < CodePoint[a[i]]
      BY <2>2, <2>3, <2>6, <2>8 DEF NameBefore
    <2> QED
      BY <2>5, <2>7, <2>8
  <1>3. CASE D = {}
    <2>1. \A k \in Nat : k >= 1 /\ k <= Len(a) /\ k <= Len(b) => a[k] = b[k]
      BY <1>3
    <2>2. Len(a) # Len(b)
      <3> SUFFICES ASSUME Len(a) = Len(b) PROVE FALSE
        OBVIOUS
      <3>1. \A k \in 1..Len(a) : a[k] = b[k]
        BY <1>1, <2>1
      <3> QED
        BY <1>1, <3>1, TextEqual
    <2>3. ASSUME NEW x, NEW y, Len(x) \in Nat, Len(y) \in Nat, Len(x) < Len(y),
                 \A k \in Nat : k >= 1 /\ k <= Len(x) /\ k <= Len(y) => x[k] = y[k]
          PROVE  NameBefore(x, y)
      <3>1. Len(x) + 1 \in 1..Len(y) /\ ~(Len(x) + 1 <= Len(x)) /\ Len(x) + 1 <= Len(x) + 1
        BY <2>3
      <3>2. \A k \in 1..((Len(x) + 1) - 1) : x[k] = y[k]
        BY <2>3
      <3> QED
        BY <3>1, <3>2 DEF NameBefore
    <2> QED
      BY <1>1, <2>1, <2>2, <2>3
  <1> QED
    BY <1>2, <1>3

-----------------------------------------------------------------------------
(* Fields in order. *)
AreNamed(kvs) == Len(kvs) \in Nat /\ DOMAIN kvs = 1..Len(kvs) /\ \A i \in 1..Len(kvs) : IsName(kvs[i][1])

LEMMA FieldOrder ==
  ASSUME NEW kvs, AreNamed(kvs)
  PROVE  /\ \A i \in 1..Len(kvs) : FieldBefore(kvs, i, i)
         /\ \A i, j \in 1..Len(kvs) : i # j =>
              /\ FieldBefore(kvs, i, j) \/ FieldBefore(kvs, j, i)
              /\ ~(FieldBefore(kvs, i, j) /\ FieldBefore(kvs, j, i))
         /\ \A i, j, k \in 1..Len(kvs) :
              FieldBefore(kvs, i, j) /\ FieldBefore(kvs, j, k) => FieldBefore(kvs, i, k)
  <1> DEFINE n == Len(kvs)
             name(i) == kvs[i][1]
  <1>1. n \in Nat /\ \A i \in 1..n : IsName(name(i))
    BY DEF AreNamed
  <1>2. \A i, j : FieldBefore(kvs, i, j) <=> NameBefore(name(i), name(j)) \/ (name(i) = name(j) /\ i <= j)
    BY DEF FieldBefore
  <1> HIDE DEF name
  <1>3. \A i \in 1..n : FieldBefore(kvs, i, i)
    BY <1>1, <1>2
  <1>4. ASSUME NEW i \in 1..n, NEW j \in 1..n, i # j
        PROVE  /\ FieldBefore(kvs, i, j) \/ FieldBefore(kvs, j, i)
               /\ ~(FieldBefore(kvs, i, j) /\ FieldBefore(kvs, j, i))
    <2>1. CASE name(i) = name(j)
      <3>1. ~NameBefore(name(i), name(j)) /\ ~NameBefore(name(j), name(i))
        BY <1>1, <2>1, NameNotBeforeItself
      <3> QED
        BY <1>1, <1>2, <1>4, <2>1, <3>1
    <2>2. CASE name(i) # name(j)
      <3>1. NameBefore(name(i), name(j)) \/ NameBefore(name(j), name(i))
        BY <1>1, <2>2, NamesTotal
      <3>2. ~(NameBefore(name(i), name(j)) /\ NameBefore(name(j), name(i)))
        BY <1>1, NamesTransitive, NameNotBeforeItself
      <3> QED
        BY <1>2, <2>2, <3>1, <3>2
    <2> QED
      BY <2>1, <2>2
  <1>5. ASSUME NEW i \in 1..n, NEW j \in 1..n, NEW k \in 1..n, FieldBefore(kvs, i, j), FieldBefore(kvs, j, k)
        PROVE  FieldBefore(kvs, i, k)
    <2>1. CASE NameBefore(name(i), name(j)) /\ NameBefore(name(j), name(k))
      <3>1. NameBefore(name(i), name(k))
        BY <1>1, <2>1, NamesTransitive
      <3> QED
        BY <1>2, <3>1
    <2>2. CASE name(i) = name(j) /\ i <= j
      BY <1>1, <1>2, <1>5, <2>2
    <2>3. CASE name(j) = name(k) /\ j <= k
      BY <1>1, <1>2, <1>5, <2>3
    <2> QED
      BY <1>2, <1>5, <2>1, <2>2, <2>3
  <1> QED
    BY <1>3, <1>4, <1>5

LEMMA FieldRankIs ==
  ASSUME NEW kvs, AreNamed(kvs)
  PROVE  /\ \A i \in 1..Len(kvs) : FieldRank(kvs, i) \in 1..Len(kvs)
         /\ \A i, j \in 1..Len(kvs) : FieldBefore(kvs, i, j) => FieldRank(kvs, i) <= FieldRank(kvs, j)
         /\ \A i, j \in 1..Len(kvs) : FieldRank(kvs, i) = FieldRank(kvs, j) => i = j
         /\ \A r \in 1..Len(kvs) : \E i \in 1..Len(kvs) : FieldRank(kvs, i) = r
  <1> DEFINE n == Len(kvs)
             I == 1..n
             B(i) == {j \in I : FieldBefore(kvs, j, i)}
  <1>1. n \in Nat /\ DOMAIN kvs = I
    BY DEF AreNamed
  <1>2. IsFiniteSet(I) /\ Cardinality(I) = n
    <2>1. n = 0 \/ 1 <= n
      BY <1>1
    <2>2. IsFiniteSet(1..n) /\ Cardinality(1..n) = IF 1 > n THEN 0 ELSE n - 1 + 1
      BY <1>1, FS_Interval
    <2> QED
      BY <1>1, <2>1, <2>2
  <1>3. \A i \in I : FieldRank(kvs, i) = Cardinality(B(i))
    BY <1>1 DEF FieldRank
  <1>4. \A i \in I : B(i) \subseteq I /\ i \in B(i)
    BY FieldOrder
  <1>5. \A i \in I : IsFiniteSet(B(i)) /\ Cardinality(B(i)) \in Nat
    BY <1>2, <1>4, FS_Subset, FS_CardinalityType
  <1>6. ASSUME NEW i \in I PROVE FieldRank(kvs, i) \in 1..n
    <2>1. Cardinality(B(i)) <= n
      BY <1>2, <1>4, FS_Subset
    <2>2. Cardinality(B(i)) # 0
      BY <1>4, <1>5, FS_EmptySet
    <2> DEFINE b == Cardinality(B(i))
    <2>3. b \in Nat /\ b # 0 /\ b <= n /\ FieldRank(kvs, i) = b
      BY <1>3, <1>5, <2>1, <2>2
    <2> HIDE DEF b, B, n
    <2> QED
      BY <1>1, <2>3
  <1>7. ASSUME NEW i \in I, NEW j \in I, FieldBefore(kvs, i, j) PROVE B(i) \subseteq B(j)
    BY <1>7, FieldOrder
  <1>8. ASSUME NEW i \in I, NEW j \in I, FieldBefore(kvs, i, j)
        PROVE  /\ FieldRank(kvs, i) <= FieldRank(kvs, j)
               /\ i # j => FieldRank(kvs, i) < FieldRank(kvs, j)
    <2>1. B(i) \subseteq B(j) /\ IsFiniteSet(B(j))
      BY <1>5, <1>7, <1>8
    <2>2. FieldRank(kvs, i) <= FieldRank(kvs, j)
      <3> DEFINE S == B(i)
                 T == B(j)
      <3>1. S \subseteq T /\ IsFiniteSet(T)
        BY <2>1
      <3>2. FieldRank(kvs, i) = Cardinality(S) /\ FieldRank(kvs, j) = Cardinality(T)
        BY <1>3
      <3> HIDE DEF S, T
      <3>3. Cardinality(S) <= Cardinality(T)
        BY <3>1, FS_Subset
      <3> QED
        BY <3>2, <3>3
    <2>3. ASSUME i # j PROVE FieldRank(kvs, i) < FieldRank(kvs, j)
      <3>1. j \in B(j) /\ j \notin B(i)
        BY <1>4, <1>8, <2>3, FieldOrder
      <3>2. B(i) # B(j)
        BY <3>1
      <3> DEFINE S == B(i)
                 T == B(j)
      <3>3. S \subseteq T /\ S # T /\ IsFiniteSet(T)
        BY <2>1, <3>2
      <3> HIDE DEF S, T
      <3>4. Cardinality(S) < Cardinality(T)
        <4>1. Cardinality(S) <= Cardinality(T) /\ (Cardinality(S) = Cardinality(T) => S = T)
          BY <3>3, FS_Subset
        <4>2. Cardinality(S) \in Nat /\ Cardinality(T) \in Nat
          BY <3>3, FS_Subset, FS_CardinalityType
        <4> QED
          BY <3>3, <4>1, <4>2
      <3> QED
        BY <1>3, <3>4 DEF S, T
    <2> QED
      BY <2>2, <2>3
  <1>9. ASSUME NEW i \in I, NEW j \in I, i # j PROVE FieldRank(kvs, i) # FieldRank(kvs, j)
    <2>1. FieldBefore(kvs, i, j) \/ FieldBefore(kvs, j, i)
      BY <1>9, FieldOrder
    <2>2. FieldRank(kvs, i) \in Nat /\ FieldRank(kvs, j) \in Nat
      BY <1>6
    <2> QED
      BY <1>8, <1>9, <2>1, <2>2
  <1>10. ASSUME NEW r \in I PROVE \E i \in I : FieldRank(kvs, i) = r
    <2> DEFINE s == [i \in I |-> FieldRank(kvs, i)]
    <2>1. s \in [1..Cardinality(I) -> I] /\ \A i, j \in 1..Cardinality(I) : i # j => s[i] # s[j]
      BY <1>2, <1>6, <1>9
    <2> HIDE DEF s, I
    <2>2. \E i \in 1..Cardinality(I) : s[i] = r
      BY <1>2, <2>1, AllListed
    <2> QED
      BY <1>2, <2>2 DEF s, I
  <1> QED
    BY <1>6, <1>8, <1>9, <1>10

LEMMA SortedIs ==
  ASSUME NEW kvs, AreNamed(kvs)
  PROVE  /\ DOMAIN SortedFields(kvs) = 1..Len(kvs)
         /\ \A i \in 1..Len(kvs) : SortedFields(kvs)[FieldRank(kvs, i)] = kvs[i]
         /\ \A r \in 1..Len(kvs) : \E i \in 1..Len(kvs) :
              FieldRank(kvs, i) = r /\ SortedFields(kvs)[r] = kvs[i]
  <1> DEFINE I == 1..Len(kvs)
             at(r) == CHOOSE i \in I : FieldRank(kvs, i) = r
  <1>1. DOMAIN kvs = I
    BY DEF AreNamed
  <1>2. \A r \in I : SortedFields(kvs)[r] = kvs[at(r)] /\ DOMAIN SortedFields(kvs) = I
    BY <1>1 DEF SortedFields
  <1>3. DOMAIN SortedFields(kvs) = I
    BY <1>1 DEF SortedFields
  <1>4. \A r \in I : at(r) \in I /\ FieldRank(kvs, at(r)) = r
    BY FieldRankIs
  <1> HIDE DEF at
  <1>5. ASSUME NEW i \in I PROVE SortedFields(kvs)[FieldRank(kvs, i)] = kvs[i]
    <2> DEFINE r == FieldRank(kvs, i)
    <2>1. r \in I
      BY FieldRankIs
    <2>2. at(r) = i
      BY <1>4, <2>1, FieldRankIs
    <2> QED
      BY <1>2, <2>1, <2>2
  <1> QED
    BY <1>2, <1>3, <1>4, <1>5

-----------------------------------------------------------------------------
(* Encoded values, lists of them, and fields of them. *)

LEMMA TagsAre == {"t", "i", "b", "m", "p", "d", "o", "l", "r", "k"} \subseteq Characters
  BY TagMark DEF Tags

LEMMA EncodedIs ==
  ASSUME NEW tag \in Tags, NEW v, v \in Texts
  PROVE  Canon(tag, v) \in CanonTexts
  BY DEF CanonTexts

LEMMA CanonTextsAre ==
  ASSUME NEW x, x \in CanonTexts
  PROVE  x \in Texts
  BY CanonTextsCode DEF IsCode

\* Texts of a code with a character after them are a code.
EndedTexts(C, c) == {Cat(x, One(c)) : x \in C}

LEMMA EndedCode ==
  ASSUME NEW C, IsCode(C), NEW c, c \in Characters
  PROVE  IsCode(EndedTexts(C, c))
  <1> DEFINE d == One(c)
  <1>1. d \in Texts /\ Len(d) = 1
    BY OneIs
  <1>2. C \subseteq Texts
    BY DEF IsCode
  <1> HIDE DEF d
  <1>3. ASSUME NEW x \in C PROVE Cat(x, d) \in Texts /\ Cat(x, d) # <<>>
    <2>1. Cat(x, d) \in Texts /\ Len(Cat(x, d)) = Len(x) + Len(d) /\ Len(x) \in Nat
      BY <1>1, <1>2, CatType
    <2>2. Len(<<>>) = 0
      BY EmptySeq
    <2> QED
      BY <1>1, <2>1, <2>2
  <1>4. ASSUME NEW x \in C, NEW y \in C, NEW r \in Texts, NEW s \in Texts, Cat(Cat(x, d), r) = Cat(Cat(y, d), s)
        PROVE  x = y
    <2>1. Cat(x, Cat(d, r)) = Cat(y, Cat(d, s))
      BY <1>1, <1>2, <1>4, CatAssoc
    <2>2. Cat(d, r) \in Texts /\ Cat(d, s) \in Texts
      BY <1>1, CatType
    <2> QED
      BY <2>1, <2>2 DEF IsCode
  <1> QED
    BY <1>3, <1>4 DEF IsCode, EndedTexts, d

LEMMA EndedTells ==
  ASSUME NEW a, NEW b, NEW c, a \in Texts, b \in Texts, c \in Characters, Cat(a, One(c)) = Cat(b, One(c))
  PROVE  a = b
  <1> DEFINE d == One(c)
  <1>1. d \in Texts /\ Len(d) = 1
    BY OneIs
  <1>2. Cat(a, d) = Cat(b, d)
    OBVIOUS
  <1> HIDE DEF d
  <1>3. Len(a) + Len(d) = Len(b) + Len(d) /\ Len(a) \in Nat /\ Len(b) \in Nat
    BY <1>1, <1>2, CatType
  <1>4. Len(a) = Len(b)
    BY <1>1, <1>3
  <1> QED
    BY <1>1, <1>2, <1>4, CatParts

\* Items of a code, ended by a character, are told by what they are joined to.
LEMMA JoinedTells ==
  ASSUME NEW C, NEW c, c \in Characters, IsCode(EndedTexts(C, c)), C \subseteq Texts,
         NEW xs, NEW ys, Len(xs) \in Nat, Len(ys) \in Nat, Len(xs) # 0, Len(ys) # 0,
         \A i \in 1..Len(xs) : xs[i] \in C, \A i \in 1..Len(ys) : ys[i] \in C,
         Joined(xs, One(c)) = Joined(ys, One(c))
  PROVE  Len(xs) = Len(ys) /\ \A i \in 1..Len(xs) : xs[i] = ys[i]
  <1> DEFINE X == Ended(xs, c)
             Y == Ended(ys, c)
             E == EndedTexts(C, c)
             u == Cat(Joined(xs, One(c)), One(c))
             v == Cat(Joined(ys, One(c)), One(c))
  <1>1. PICK f : IsChain(Len(xs), X, f) /\ u = f[Len(xs)]
    BY JoinedEnded
  <1>2. PICK g : IsChain(Len(ys), Y, g) /\ v = g[Len(ys)]
    BY JoinedEnded
  <1>3. u = v
    OBVIOUS
  <1>4. (\A i \in 1..Len(xs) : X[i] \in E) /\ (\A i \in 1..Len(ys) : Y[i] \in E)
    BY DEF Ended, EndedTexts
  <1> HIDE DEF X, Y, E, u, v
  <1>5. IsCode(E)
    BY DEF E
  <1>6. Len(xs) = Len(ys) /\ \A i \in 1..Len(xs) : X[i] = Y[i]
    <2>1. f[Len(xs)] = g[Len(ys)]
      BY <1>1, <1>2, <1>3
    <2>2. Len(xs) = Len(ys)
      BY <1>1, <1>2, <1>4, <1>5, <2>1, ChainsTell
    <2>3. \A i \in 1..Len(xs) : X[i] = Y[i]
      BY <1>1, <1>2, <1>4, <1>5, <2>1, ChainsTell
    <2> QED
      BY <2>2, <2>3
  <1>7. ASSUME NEW i \in 1..Len(xs) PROVE xs[i] = ys[i]
    <2>1. Cat(xs[i], One(c)) = Cat(ys[i], One(c))
      BY <1>6 DEF X, Y, Ended
    <2>2. xs[i] \in Texts /\ ys[i] \in Texts
      BY <1>6
    <2> QED
      BY <2>1, <2>2, EndedTells
  <1> QED
    BY <1>6, <1>7

ListBody(items) == Cat(Numeral(Len(items)), Cat(One(":"), Joined(items, One("|"))))

LEMMA ListIsText ==
  ASSUME NEW items, items \in Seq(CanonTexts)
  PROVE  /\ CanonList(items) = Canon("l", ListBody(items)) /\ ListBody(items) \in Texts
         /\ Len(items) \in Nat /\ Joined(items, One("|")) \in Texts
  <1> DEFINE j == Joined(items, One("|"))
             n == Numeral(Len(items))
             c == One(":")
  <1>1. Len(items) \in Nat /\ \A i \in 1..Len(items) : items[i] \in Texts
    BY LenProperties, ElementOfSeq, CanonTextsAre
  <1>2. j \in Texts
    <2>1. CASE Len(items) # 0
      BY <1>1, <2>1, SeparatorTexts, JoinedEnded
    <2>2. CASE Len(items) = 0
      <3> DEFINE e == One("|")
      <3>1. PICK f : Joined(items, e) = f[Len(items)] /\ f[0] = <<>>
        BY <1>1, JoinedIs, Zenon
      <3>2. j = <<>>
        BY <2>2, <3>1
      <3> QED
        BY <3>2, EmptySeq DEF Texts
    <2> QED
      BY <2>1, <2>2
  <1>3. n \in Texts /\ c \in Texts
    <2>1. Len(items) \in Int
      BY <1>1
    <2> QED
      BY <2>1, NumeralType, SeparatorTexts
  <1>4. CanonList(items) = Canon("l", Cat(Cat(n, c), j))
    BY DEF CanonList, Cat, One
  <1> HIDE DEF j, n, c
  <1>5. Cat(Cat(n, c), j) = Cat(n, Cat(c, j)) /\ Cat(n, Cat(c, j)) \in Texts
    BY <1>2, <1>3, CatAssoc, CatType
  <1>6. CanonList(items) = Canon("l", Cat(n, Cat(c, j)))
    BY <1>4, <1>5
  <1> QED
    BY <1>1, <1>2, <1>5, <1>6 DEF ListBody, j, n, c

LEMMA ListType ==
  ASSUME NEW items, items \in Seq(CanonTexts)
  PROVE  CanonList(items) \in CanonTexts
  BY ListIsText, EncodedIs DEF Tags

LEMMA ListsTell ==
  ASSUME NEW a, NEW b, a \in Seq(CanonTexts), b \in Seq(CanonTexts), CanonList(a) = CanonList(b)
  PROVE  a = b
  <1> DEFINE m == Numeral(Len(a))
             n == Numeral(Len(b))
             j == Joined(a, One("|"))
             k == Joined(b, One("|"))
  <1>1. CanonList(a) = Canon("l", ListBody(a)) /\ CanonList(b) = Canon("l", ListBody(b))
    BY ListIsText
  <1>2. ListBody(a) \in Texts /\ ListBody(b) \in Texts /\ j \in Texts /\ k \in Texts
        /\ Len(a) \in Nat /\ Len(b) \in Nat
    BY ListIsText
  <1>3. ListBody(a) = ListBody(b)
    BY <1>1, <1>2, TagsAre, CanonSame
  <1>4. /\ m \in Texts /\ ~Includes(m, ":") /\ n \in Texts /\ ~Includes(n, ":")
        /\ ":" \in Characters
    <2>1. Len(a) \in Int /\ Len(b) \in Int
      BY <1>2
    <2> QED
      BY <2>1, NumeralType, SeparatorTexts
  <1>5. Cat(m, Cat(One(":"), j)) = Cat(n, Cat(One(":"), k))
    BY <1>3 DEF ListBody
  <1> HIDE DEF m, n, j, k
  <1>6. m = n /\ j = k
    BY <1>2, <1>4, <1>5, CatCut
  <1>7. Len(a) = Len(b)
    BY <1>2, <1>6, NumeralsTell DEF m, n
  <1>8. (\A i \in 1..Len(a) : a[i] \in CanonTexts) /\ (\A i \in 1..Len(b) : b[i] \in CanonTexts)
    BY ElementOfSeq
  <1>9. \A i \in 1..Len(a) : a[i] = b[i]
    <2>1. CASE Len(a) = 0
      BY <2>1
    <2>2. CASE Len(a) # 0
      <3>1. "|" \in Characters /\ CanonTexts \subseteq Texts
        BY SeparatorTexts, CanonTextsAre
      <3>2. IsCode(EndedTexts(CanonTexts, "|"))
        BY <3>1, CanonTextsCode, EndedCode
      <3>3. Joined(a, One("|")) = Joined(b, One("|"))
        BY <1>6 DEF j, k
      <3> QED
        BY <1>2, <1>7, <1>8, <2>2, <3>1, <3>2, <3>3, JoinedTells
    <2> QED
      BY <2>1, <2>2
  <1> QED
    BY <1>7, <1>9, SeqEqual

-----------------------------------------------------------------------------
Names == {a \in Texts : ValidFieldName(a)}
FieldPairs == Names \X CanonTexts
FieldText(n, e) == Cat(Canon("k", n), Cat(One("="), Cat(e, One(";"))))
FieldTexts == {FieldText(n, e) : n \in Texts, e \in CanonTexts}

LEMMA FieldIs ==
  ASSUME NEW kv, NEW n, NEW e, kv[1] = n, kv[2] = e, n \in Texts, e \in CanonTexts
  PROVE  Field(kv) = FieldText(n, e) /\ FieldText(n, e) \in Texts
  <1> DEFINE k == Canon("k", n)
             q == One("=")
             z == One(";")
  <1>1. k \in Texts /\ q \in Texts /\ z \in Texts /\ e \in Texts
    BY SeparatorTexts, TagsAre, CanonIs, CanonTextsAre
  <1>2. Field(kv) = Cat(Cat(Cat(k, q), e), z)
    BY DEF Field, Cat, One
  <1>3. FieldText(n, e) = Cat(k, Cat(q, Cat(e, z)))
    BY DEF FieldText
  <1> HIDE DEF k, q, z
  <1>4. /\ Cat(e, z) \in Texts /\ Cat(q, Cat(e, z)) \in Texts
        /\ Cat(k, Cat(q, Cat(e, z))) \in Texts /\ Cat(k, q) \in Texts
    BY <1>1, CatType
  <1>5. Cat(Cat(Cat(k, q), e), z) = Cat(Cat(k, q), Cat(e, z))
    BY <1>1, <1>4, CatAssoc
  <1>6. Cat(Cat(k, q), Cat(e, z)) = Cat(k, Cat(q, Cat(e, z)))
    BY <1>1, <1>4, CatAssoc
  <1> QED
    BY <1>2, <1>3, <1>4, <1>5, <1>6

LEMMA FieldTells ==
  ASSUME NEW n, NEW e, NEW m, NEW f, NEW r, NEW s, n \in Texts, m \in Texts, e \in CanonTexts, f \in CanonTexts,
         r \in Texts, s \in Texts, Cat(FieldText(n, e), r) = Cat(FieldText(m, f), s)
  PROVE  n = m /\ e = f
  <1> DEFINE q == One("=")
             z == One(";")
             k == Canon("k", n)
             l == Canon("k", m)
             x == Cat(q, Cat(e, z))
             y == Cat(q, Cat(f, z))
  <1>1. /\ q \in Texts /\ z \in Texts /\ e \in Texts /\ f \in Texts /\ "k" \in Characters
        /\ k \in Texts /\ l \in Texts
    BY SeparatorTexts, TagsAre, CanonIs, CanonTextsAre
  <1>2. FieldText(n, e) = Cat(k, x) /\ FieldText(m, f) = Cat(l, y)
    BY DEF FieldText
  <1>3. /\ Cat(e, z) \in Texts /\ Cat(f, z) \in Texts /\ x \in Texts /\ y \in Texts
    <2> HIDE DEF q, z
    <2>1. Cat(e, z) \in Texts /\ Cat(f, z) \in Texts
      BY <1>1, CatType
    <2> QED
      BY <1>1, <2>1, CatType
  <1>4. Cat(k, Cat(x, r)) = Cat(l, Cat(y, s)) /\ Cat(x, r) \in Texts /\ Cat(y, s) \in Texts
    <2> HIDE DEF k, l, x, y
    <2>1. Cat(x, r) \in Texts /\ Cat(y, s) \in Texts
      BY <1>3, CatType
    <2>2. k \in Texts /\ l \in Texts /\ x \in Texts /\ y \in Texts
      BY <1>1, <1>3
    <2>5. Cat(Cat(k, x), r) = Cat(k, Cat(x, r))
      BY <2>2, CatAssoc
    <2>3. Cat(Cat(l, y), s) = Cat(l, Cat(y, s))
      BY <2>2, CatAssoc
    <2>4. Cat(Cat(k, x), r) = Cat(Cat(l, y), s)
      BY <1>2
    <2> QED
      BY <2>1, <2>3, <2>4, <2>5
  <1>5. n = m /\ Cat(x, r) = Cat(y, s)
    <2> DEFINE u == Cat(x, r)
               v == Cat(y, s)
    <2>3. /\ "k" \in Characters /\ u \in Texts
          /\ v \in Texts /\ Cat(Canon("k", n), u) = Cat(Canon("k", m), v)
      BY <1>1, <1>4
    <2> HIDE DEF u, v
    <2>1. n = m
      BY <2>3, CanonTells
    <2>2. u = v
      BY <2>3, CanonTells
    <2> QED
      BY <2>1, <2>2 DEF u, v
  <1>6. Cat(e, Cat(z, r)) = Cat(f, Cat(z, s)) /\ Cat(z, r) \in Texts /\ Cat(z, s) \in Texts
    <2> HIDE DEF q, z
    <2>1. Cat(z, r) \in Texts /\ Cat(z, s) \in Texts
      BY <1>1, CatType
    <2>2. Cat(x, r) = Cat(q, Cat(Cat(e, z), r))
      BY <1>1, <1>3, CatAssoc
    <2>3. Cat(y, s) = Cat(q, Cat(Cat(f, z), s))
      BY <1>1, <1>3, CatAssoc
    <2>4. Cat(Cat(e, z), r) \in Texts /\ Cat(Cat(f, z), s) \in Texts
      BY <1>3, CatType
    <2>5. Cat(Cat(e, z), r) = Cat(Cat(f, z), s)
      <3>1. Cat(q, Cat(Cat(e, z), r)) = Cat(q, Cat(Cat(f, z), s))
        BY <1>5, <2>2, <2>3
      <3> QED
        BY <1>1, <2>4, <3>1, CatCancel
    <2>6. Cat(Cat(e, z), r) = Cat(e, Cat(z, r)) /\ Cat(Cat(f, z), s) = Cat(f, Cat(z, s))
      BY <1>1, CatAssoc
    <2> QED
      BY <2>1, <2>5, <2>6
  <1> DEFINE u == Cat(z, r)
             v == Cat(z, s)
  <1>7. Cat(e, u) = Cat(f, v) /\ u \in Texts /\ v \in Texts
    BY <1>6
  <1> HIDE DEF u, v
  <1>8. e = f
    BY <1>7, CanonTextsCode DEF IsCode
  <1> QED
    BY <1>5, <1>8

LEMMA FieldsCode == IsCode(FieldTexts)
  <1>1. ASSUME NEW x \in FieldTexts PROVE x \in Texts /\ x # <<>>
    <2>1. PICK n \in Texts, e \in CanonTexts : x = FieldText(n, e)
      BY DEF FieldTexts
    <2> DEFINE k == Canon("k", n)
               y == Cat(One("="), Cat(e, One(";")))
    <2>2. k \in Texts /\ Len(k) >= 2 /\ One("=") \in Texts /\ One(";") \in Texts /\ e \in Texts
      BY SeparatorTexts, TagsAre, CanonIs, CanonTextsAre
    <2>3. y \in Texts
      BY <2>2, CatType
    <2>4. x = Cat(k, y)
      BY <2>1 DEF FieldText
    <2> HIDE DEF k, y
    <2>5. x \in Texts /\ Len(x) = Len(k) + Len(y) /\ Len(y) \in Nat /\ Len(k) \in Nat
      BY <2>2, <2>3, <2>4, CatType
    <2>6. Len(<<>>) = 0
      BY EmptySeq
    <2>7. Len(x) # 0
      <3>1. Len(k) >= 2
        BY <2>2
      <3> QED
        BY <2>5, <3>1
    <2> QED
      BY <2>5, <2>6, <2>7
  <1>2. ASSUME NEW x \in FieldTexts, NEW y \in FieldTexts, NEW r \in Texts, NEW s \in Texts, Cat(x, r) = Cat(y, s)
        PROVE  x = y
    <2>1. PICK n \in Texts, e \in CanonTexts : x = FieldText(n, e)
      BY DEF FieldTexts
    <2>2. PICK m \in Texts, f \in CanonTexts : y = FieldText(m, f)
      BY DEF FieldTexts
    <2>3. n = m /\ e = f
      BY <1>2, <2>1, <2>2, FieldTells
    <2> QED
      BY <2>1, <2>2, <2>3
  <1> QED
    BY <1>1, <1>2 DEF IsCode

LEMMA PairsNamed ==
  ASSUME NEW kvs, kvs \in Seq(FieldPairs)
  PROVE  /\ AreNamed(kvs) /\ Len(kvs) \in Nat /\ DOMAIN kvs = 1..Len(kvs)
         /\ \A i \in 1..Len(kvs) : kvs[i] \in FieldPairs /\ kvs[i][1] \in Names /\ kvs[i][2] \in CanonTexts
  <1>1. /\ Len(kvs) \in Nat /\ DOMAIN kvs = 1..Len(kvs)
        /\ \A i \in 1..Len(kvs) : kvs[i] \in FieldPairs
    BY LenProperties, ElementOfSeq
  <1>2. \A i \in 1..Len(kvs) : kvs[i][1] \in Names /\ kvs[i][2] \in CanonTexts
    BY <1>1 DEF FieldPairs
  <1>3. \A i \in 1..Len(kvs) : IsName(kvs[i][1])
    BY <1>2 DEF Names, IsName
  <1> QED
    BY <1>1, <1>2, <1>3 DEF AreNamed

\* What the fields are joined to, in the order of their ranks.
LEMMA FieldsBody ==
  ASSUME NEW kvs, kvs \in Seq(FieldPairs)
  PROVE  \E body, x, f :
           /\ CanonFields(kvs) = Canon("r", body) /\ body \in Texts
           /\ IsChain(Len(kvs), x, f) /\ body = f[Len(kvs)]
           /\ \A r \in 1..Len(kvs) :
                /\ SortedFields(kvs)[r] \in FieldPairs
                /\ x[r] = FieldText(SortedFields(kvs)[r][1], SortedFields(kvs)[r][2]) /\ x[r] \in FieldTexts
  <1> DEFINE n == Len(kvs)
             s == SortedFields(kvs)
             x == [i \in DOMAIN s |-> Field(s[i])]
  <1>1. n \in Nat /\ DOMAIN s = 1..n
    BY PairsNamed, SortedIs
  <1>2. ASSUME NEW r \in 1..n
        PROVE  s[r] \in FieldPairs /\ s[r][1] \in Texts /\ s[r][2] \in CanonTexts
    <2>1. PICK i \in 1..n : s[r] = kvs[i]
      BY PairsNamed, SortedIs
    <2> HIDE DEF s
    <2> QED
      BY <2>1, PairsNamed DEF Names
  <1> HIDE DEF s
  <1>3. ASSUME NEW r \in 1..n
        PROVE  x[r] = FieldText(s[r][1], s[r][2]) /\ x[r] \in FieldTexts /\ x[r] \in Texts
    <2> DEFINE a == s[r][1]
               e == s[r][2]
               kv == s[r]
    <2>1. a \in Texts /\ e \in CanonTexts /\ kv[1] = a /\ kv[2] = e
      BY <1>2
    <2>2. x[r] = Field(kv)
      BY <1>1
    <2> HIDE DEF a, e, kv, x
    <2>3. Field(kv) = FieldText(a, e) /\ FieldText(a, e) \in Texts
      BY <2>1, FieldIs
    <2>4. FieldText(a, e) \in FieldTexts
      BY <2>1 DEF FieldTexts
    <2> QED
      BY <2>2, <2>3, <2>4 DEF a, e
  <1>4. x = [i \in 1..n |-> x[i]]
    BY <1>1
  <1>5. CanonFields(kvs) = Canon("r", Joined(x, <<>>))
    BY DEF CanonFields, s
  <1> HIDE DEF x
  <1>6. Len(x) = n
    BY <1>1, <1>4, ListIs
  <1>7. PICK f : IsChain(Len(x), x, f) /\ Joined(x, <<>>) = f[Len(x)]
    BY <1>1, <1>3, <1>6, JoinedPlain
  <1>8. IsChain(n, x, f) /\ Joined(x, <<>>) = f[n]
    BY <1>6, <1>7
  <1>9. f[n] \in Texts
    <2>1. \A i \in 0..n : f[i] \in Texts
      BY <1>1, <1>3, <1>8, ChainType
    <2> QED
      BY <1>1, <2>1
  <1> DEFINE body == Joined(x, <<>>)
  <1>10. /\ CanonFields(kvs) = Canon("r", body) /\ body \in Texts
         /\ IsChain(n, x, f) /\ body = f[n]
    BY <1>5, <1>8, <1>9
  <1> HIDE DEF body
  <1> QED
    BY <1>2, <1>3, <1>10 DEF s

LEMMA FieldsType ==
  ASSUME NEW kvs, kvs \in Seq(FieldPairs)
  PROVE  CanonFields(kvs) \in CanonTexts
  <1>1. PICK body : CanonFields(kvs) = Canon("r", body) /\ body \in Texts
    BY FieldsBody
  <1> QED
    BY <1>1, EncodedIs DEF Tags

\* The same text is of the same fields, in the order of their names.
LEMMA FieldsSorted ==
  ASSUME NEW a, NEW b, a \in Seq(FieldPairs), b \in Seq(FieldPairs), CanonFields(a) = CanonFields(b)
  PROVE  Len(a) = Len(b) /\ \A r \in 1..Len(a) : SortedFields(a)[r] = SortedFields(b)[r]
  <1> DEFINE S == SortedFields(a)
             T == SortedFields(b)
             m == Len(a)
             n == Len(b)
  <1>1. PICK u, x, f :
          /\ CanonFields(a) = Canon("r", u) /\ u \in Texts
          /\ IsChain(m, x, f) /\ u = f[m]
          /\ \A r \in 1..m : S[r] \in FieldPairs /\ x[r] = FieldText(S[r][1], S[r][2]) /\ x[r] \in FieldTexts
    BY FieldsBody
  <1>2. PICK v, y, g :
          /\ CanonFields(b) = Canon("r", v) /\ v \in Texts
          /\ IsChain(n, y, g) /\ v = g[n]
          /\ \A r \in 1..n : T[r] \in FieldPairs /\ y[r] = FieldText(T[r][1], T[r][2]) /\ y[r] \in FieldTexts
    BY FieldsBody
  <1> HIDE DEF S, T
  <1>3. u = v
    <2>1. Canon("r", u) = Canon("r", v) /\ "r" \in Characters
      BY <1>1, <1>2, TagsAre
    <2> QED
      BY <1>1, <1>2, <2>1, CanonSame
  <1>4. m \in Nat /\ n \in Nat
    BY PairsNamed
  <1> HIDE DEF m, n
  <1>5. m = n /\ \A r \in 1..m : x[r] = y[r]
    <2>1. f[m] = g[n]
      BY <1>1, <1>2, <1>3
    <2>2. (\A i \in 1..m : x[i] \in FieldTexts) /\ (\A i \in 1..n : y[i] \in FieldTexts)
      BY <1>1, <1>2
    <2>3. IsChain(m, x, f) /\ IsChain(n, y, g)
      BY <1>1, <1>2
    <2>4. m = n
      BY <1>4, <2>1, <2>2, <2>3, FieldsCode, ChainsTell
    <2>5. \A r \in 1..m : x[r] = y[r]
      BY <1>4, <2>1, <2>2, <2>3, FieldsCode, ChainsTell
    <2> QED
      BY <2>4, <2>5
  <1>6. ASSUME NEW r \in 1..m PROVE S[r] = T[r]
    <2> DEFINE p == S[r]
               q == T[r]
    <2>1. p \in FieldPairs /\ q \in FieldPairs /\ FieldText(p[1], p[2]) = FieldText(q[1], q[2])
      BY <1>1, <1>2, <1>5
    <2> HIDE DEF p, q
    <2>2. /\ p = <<p[1], p[2]>> /\ q = <<q[1], q[2]>> /\ p[1] \in Names /\ q[1] \in Names
          /\ p[2] \in CanonTexts /\ q[2] \in CanonTexts
      BY <2>1 DEF FieldPairs
    <2>3. p[1] \in Texts /\ q[1] \in Texts
      BY <2>2 DEF Names
    <2> DEFINE e == <<>>
    <2>4. e \in Texts
      BY EmptySeq DEF Texts
    <2> HIDE DEF e
    <2>5. Cat(FieldText(p[1], p[2]), e) = Cat(FieldText(q[1], q[2]), e)
      BY <2>1
    <2>6. p[1] = q[1] /\ p[2] = q[2]
      BY <2>2, <2>3, <2>4, <2>5, FieldTells
    <2>7. p = q
      BY <2>2, <2>6
    <2> QED
      BY <2>7 DEF p, q
  <1> QED
    BY <1>5, <1>6 DEF m, n, S, T

\* Fields of the same names in the same places have the same text only if they
\* are the same.
LEMMA FieldsTell ==
  ASSUME NEW a, NEW b, a \in Seq(FieldPairs), b \in Seq(FieldPairs),
         Len(a) = Len(b), \A i \in 1..Len(a) : a[i][1] = b[i][1],
         CanonFields(a) = CanonFields(b)
  PROVE  a = b
  <1> DEFINE n == Len(a)
  <1>1. n \in Nat /\ DOMAIN a = 1..n /\ DOMAIN b = 1..n /\ AreNamed(a) /\ AreNamed(b)
    BY PairsNamed
  <1>2. ASSUME NEW i \in 1..n PROVE FieldRank(a, i) = FieldRank(b, i)
    <2>1. \A j \in 1..n : FieldBefore(a, j, i) <=> FieldBefore(b, j, i)
      BY DEF FieldBefore
    <2>2. {j \in DOMAIN a : FieldBefore(a, j, i)} = {j \in DOMAIN b : FieldBefore(b, j, i)}
      BY <1>1, <2>1
    <2> QED
      BY <2>2 DEF FieldRank
  <1>3. ASSUME NEW i \in 1..n PROVE a[i] = b[i]
    <2> DEFINE r == FieldRank(a, i)
    <2>1. SortedFields(a)[r] = a[i] /\ r \in 1..n
      BY <1>1, SortedIs, FieldRankIs
    <2>2. SortedFields(b)[r] = b[i]
      <3>1. i \in 1..Len(b) /\ r = FieldRank(b, i)
        BY <1>2
      <3>2. \A k \in 1..Len(b) : SortedFields(b)[FieldRank(b, k)] = b[k]
        BY <1>1, SortedIs
      <3> HIDE DEF r
      <3> QED
        BY <3>1, <3>2
    <2> HIDE DEF r
    <2>3. SortedFields(a)[r] = SortedFields(b)[r]
      BY <2>1, FieldsSorted
    <2> QED
      BY <2>1, <2>2, <2>3
  <1> QED
    BY <1>3, SeqEqual

-----------------------------------------------------------------------------
(* Values of each type, and fields of them. *)

LEMMA SequenceIs ==
  ASSUME NEW n \in Nat, NEW g, NEW S, g = [i \in 1..n |-> g[i]], \A i \in 1..n : g[i] \in S
  PROVE  g \in Seq(S) /\ Len(g) = n
  <1>1. g \in [1..n -> S]
    OBVIOUS
  <1> QED
    BY <1>1

LEMMA CanonTextTells ==
  /\ \A v \in Texts : CanonText(v) \in CanonTexts
  /\ \A v, w \in Texts : CanonText(v) = CanonText(w) => v = w
  <1>1. \A v \in Texts : CanonText(v) \in CanonTexts
    BY EncodedIs DEF CanonText, Tags
  <1>2. ASSUME NEW v \in Texts, NEW w \in Texts, CanonText(v) = CanonText(w) PROVE v = w
    BY <1>2, TagsAre, CanonSame DEF CanonText
  <1> QED
    BY <1>1, <1>2

LEMMA CanonPartyTells ==
  /\ \A v \in Texts : CanonParty(v) \in CanonTexts
  /\ \A v, w \in Texts : CanonParty(v) = CanonParty(w) => v = w
  <1>1. \A v \in Texts : CanonParty(v) \in CanonTexts
    BY EncodedIs DEF CanonParty, Tags
  <1>2. ASSUME NEW v \in Texts, NEW w \in Texts, CanonParty(v) = CanonParty(w) PROVE v = w
    BY <1>2, TagsAre, CanonSame DEF CanonParty
  <1> QED
    BY <1>1, <1>2

LEMMA CanonNumeralTells ==
  ASSUME NEW tag \in Tags
  PROVE  /\ \A i \in Int : Canon(tag, Numeral(i)) \in CanonTexts
         /\ \A i, j \in Int : Canon(tag, Numeral(i)) = Canon(tag, Numeral(j)) => i = j
  <1>1. \A i \in Int : Numeral(i) \in Texts
    BY NumeralType
  <1>2. \A i \in Int : Canon(tag, Numeral(i)) \in CanonTexts
    BY <1>1, EncodedIs
  <1>3. ASSUME NEW i \in Int, NEW j \in Int, Canon(tag, Numeral(i)) = Canon(tag, Numeral(j)) PROVE i = j
    <2>1. Numeral(i) = Numeral(j)
      BY <1>1, <1>3, TagMark, CanonSame
    <2> QED
      BY <2>1, NumeralsTell
  <1> QED
    BY <1>2, <1>3

LEMMA CanonNumbersTell ==
  /\ \A i \in Int : CanonInt(i) \in CanonTexts /\ CanonDecimal(i) \in CanonTexts /\ CanonTimeMicros(i) \in CanonTexts
  /\ \A i, j \in Int : CanonInt(i) = CanonInt(j) => i = j
  /\ \A i, j \in Int : CanonDecimal(i) = CanonDecimal(j) => i = j
  /\ \A i, j \in Int : CanonTimeMicros(i) = CanonTimeMicros(j) => i = j
  <1>1. "i" \in Tags /\ "d" \in Tags /\ "m" \in Tags
    BY DEF Tags
  <1> QED
    BY <1>1, CanonNumeralTells DEF CanonInt, CanonDecimal, CanonTimeMicros

LEMMA CanonBoolTells ==
  /\ \A b \in BOOLEAN : CanonBool(b) \in CanonTexts
  /\ \A b, c \in BOOLEAN : CanonBool(b) = CanonBool(c) => b = c
  <1> DEFINE t == Spell("true")
             f == Spell("false")
  <1>1. t \in Texts /\ f \in Texts /\ Apart(Truths)
    BY WordsAssumption DEF Truths
  <1>2. t # f
    <2> SUFFICES ASSUME t = f PROVE FALSE
      OBVIOUS
    <2>1. "true" \in Truths /\ "false" \in Truths /\ "true" # "false"
      BY DEF Truths
    <2>2. Cat(Spell("true"), t) = Cat(Spell("false"), t)
      OBVIOUS
    <2> QED
      BY <1>1, <2>1, <2>2, CatStart
  <1>3. CanonBool(TRUE) = Canon("b", t) /\ CanonBool(FALSE) = Canon("b", f)
    BY DEF CanonBool
  <1> HIDE DEF t, f
  <1>4. CanonBool(TRUE) \in CanonTexts /\ CanonBool(FALSE) \in CanonTexts
    BY <1>1, <1>3, EncodedIs DEF Tags
  <1>5. CanonBool(TRUE) # CanonBool(FALSE)
    BY <1>1, <1>2, <1>3, TagsAre, CanonSame
  <1> QED
    BY <1>4, <1>5

LEMMA FieldNamed ==
  ASSUME NEW name \in FieldNames, NEW e, e \in CanonTexts
  PROVE  Named(name, e) \in FieldPairs
  <1>1. Spell(name) \in Names
    BY WordsAssumption DEF Names
  <1> QED
    BY <1>1 DEF Named, FieldPairs

LEMMA FieldTyped ==
  ASSUME NEW name \in FieldNames
  PROVE  /\ \A v \in Texts : Text(name, v) \in FieldPairs
         /\ \A i \in Int : Whole(name, i) \in FieldPairs /\ Decimal(name, i) \in FieldPairs
  BY FieldNamed, CanonTextTells, CanonNumbersTell DEF Text, Whole, Decimal

-----------------------------------------------------------------------------
(* Documents, told from what follows. *)

DocumentRest(schema, kvs) == Cat(One("|"), Cat(CanonText(schema), Cat(CanonInt(1), CanonFields(kvs))))

LEMMA DocumentIs ==
  ASSUME NEW schema, NEW kvs, schema \in Texts, kvs \in Seq(FieldPairs)
  PROVE  /\ CanonDocument(schema, 1, kvs) = Cat(SCHEME_PREFIX, DocumentRest(schema, kvs))
         /\ SCHEME_PREFIX \in Texts /\ DocumentRest(schema, kvs) \in Texts
         /\ CanonDocument(schema, 1, kvs) \in Texts
  <1> DEFINE p == SCHEME_PREFIX
             b == One("|")
             s == CanonText(schema)
             v == CanonInt(1)
             f == CanonFields(kvs)
  <1>1. p \in Texts
    BY WordsAssumption DEF SCHEME_PREFIX, Starts
  <1>2. s \in Texts /\ v \in Texts /\ f \in Texts /\ b \in Texts
    <2>1. s \in CanonTexts
      BY CanonTextTells
    <2>2. v \in CanonTexts
      BY CanonNumbersTell
    <2>3. f \in CanonTexts
      BY FieldsType
    <2>4. b \in Texts
      BY SeparatorTexts
    <2> HIDE DEF s, v, f, b
    <2> QED
      BY <2>1, <2>2, <2>3, <2>4, CanonTextsAre
  <1>3. CanonDocument(schema, 1, kvs) = Cat(Cat(Cat(Cat(p, b), s), v), f)
    BY DEF CanonDocument, Cat, One
  <1>4. DocumentRest(schema, kvs) = Cat(b, Cat(s, Cat(v, f)))
    BY DEF DocumentRest
  <1> HIDE DEF p, b, s, v, f
  <1>5. /\ Cat(v, f) \in Texts /\ Cat(p, b) \in Texts
        /\ Cat(s, Cat(v, f)) \in Texts /\ Cat(Cat(p, b), s) \in Texts
        /\ Cat(b, Cat(s, Cat(v, f))) \in Texts
        /\ Cat(p, Cat(b, Cat(s, Cat(v, f)))) \in Texts
    <2>1. Cat(v, f) \in Texts /\ Cat(p, b) \in Texts
      BY <1>1, <1>2, CatType
    <2>2. Cat(s, Cat(v, f)) \in Texts /\ Cat(Cat(p, b), s) \in Texts
      BY <1>2, <2>1, CatType
    <2>3. Cat(b, Cat(s, Cat(v, f))) \in Texts
      BY <1>2, <2>2, CatType
    <2>4. Cat(p, Cat(b, Cat(s, Cat(v, f)))) \in Texts
      BY <1>1, <2>3, CatType
    <2> QED
      BY <2>1, <2>2, <2>3, <2>4
  <1>6. Cat(Cat(Cat(Cat(p, b), s), v), f) = Cat(Cat(Cat(p, b), s), Cat(v, f))
    BY <1>2, <1>5, CatAssoc
  <1>7. Cat(Cat(Cat(p, b), s), Cat(v, f)) = Cat(Cat(p, b), Cat(s, Cat(v, f)))
    BY <1>2, <1>5, CatAssoc
  <1>8. Cat(Cat(p, b), Cat(s, Cat(v, f))) = Cat(p, Cat(b, Cat(s, Cat(v, f))))
    BY <1>1, <1>2, <1>5, CatAssoc
  <1>9. CanonDocument(schema, 1, kvs) = Cat(p, Cat(b, Cat(s, Cat(v, f))))
    BY <1>3, <1>6, <1>7, <1>8
  <1>10. /\ CanonDocument(schema, 1, kvs) = Cat(p, DocumentRest(schema, kvs))
         /\ CanonDocument(schema, 1, kvs) \in Texts
         /\ DocumentRest(schema, kvs) \in Texts
    BY <1>4, <1>5, <1>9
  <1> QED
    BY <1>1, <1>10 DEF p

LEMMA CanonCode ==
  ASSUME NEW x, NEW y, NEW r, NEW s, x \in CanonTexts, y \in CanonTexts, r \in Texts, s \in Texts,
         Cat(x, r) = Cat(y, s)
  PROVE  x = y /\ r = s
  <1>1. x = y
    BY CanonTextsCode DEF IsCode
  <1>2. r = s
    BY <1>1, CanonTextsAre, CatCancel
  <1> QED
    BY <1>1, <1>2

LEMMA DocumentTells ==
  ASSUME NEW s, NEW t, NEW a, NEW b, NEW r, NEW q, s \in Texts, t \in Texts,
         a \in Seq(FieldPairs), b \in Seq(FieldPairs), r \in Texts, q \in Texts,
         Cat(CanonDocument(s, 1, a), r) = Cat(CanonDocument(t, 1, b), q)
  PROVE  s = t /\ CanonFields(a) = CanonFields(b) /\ r = q
  <1> DEFINE p == SCHEME_PREFIX
             o == One("|")
             x == CanonText(s)
             y == CanonText(t)
             v == CanonInt(1)
             f == CanonFields(a)
             g == CanonFields(b)
             k == DocumentRest(s, a)
             l == DocumentRest(t, b)
             d == CanonDocument(s, 1, a)
             e == CanonDocument(t, 1, b)
  <1>1. /\ d = Cat(p, k) /\ e = Cat(p, l)
        /\ p \in Texts /\ k \in Texts /\ l \in Texts
    BY DocumentIs
  <1>2. x \in CanonTexts /\ y \in CanonTexts /\ v \in CanonTexts /\ f \in CanonTexts /\ g \in CanonTexts
    BY CanonTextTells, CanonNumbersTell, FieldsType
  <1>3. o \in Texts
    BY SeparatorTexts
  <1>4. k = Cat(o, Cat(x, Cat(v, f))) /\ l = Cat(o, Cat(y, Cat(v, g)))
    BY DEF DocumentRest
  <1>5. Cat(d, r) = Cat(e, q)
    OBVIOUS
  <1>6. x = y => s = t
    BY CanonTextTells
  <1> HIDE DEF p, o, x, y, v, f, g, k, l, d, e
  <1>7. x \in Texts /\ y \in Texts /\ v \in Texts /\ f \in Texts /\ g \in Texts
    BY <1>2, CanonTextsAre
  <1>8. Cat(k, r) = Cat(l, q)
    <2>1. Cat(d, r) = Cat(p, Cat(k, r))
      BY <1>1, CatAssoc
    <2>2. Cat(e, q) = Cat(p, Cat(l, q))
      BY <1>1, CatAssoc
    <2>3. Cat(k, r) \in Texts /\ Cat(l, q) \in Texts
      BY <1>1, CatType
    <2>4. Cat(p, Cat(k, r)) = Cat(p, Cat(l, q))
      BY <1>5, <2>1, <2>2
    <2> QED
      BY <1>1, <2>3, <2>4, CatCancel
  <1>9. ASSUME NEW z \in Texts, NEW h \in Texts, NEW m \in Texts
        PROVE  /\ Cat(Cat(o, Cat(z, Cat(v, h))), m) = Cat(o, Cat(z, Cat(v, Cat(h, m))))
               /\ Cat(h, m) \in Texts /\ Cat(v, Cat(h, m)) \in Texts /\ Cat(z, Cat(v, Cat(h, m))) \in Texts
    <2>1. Cat(v, h) \in Texts /\ Cat(h, m) \in Texts
      BY <1>7, CatType
    <2>2. Cat(v, Cat(h, m)) \in Texts
      BY <1>7, <2>1, CatType
    <2>3. Cat(z, Cat(v, h)) \in Texts /\ Cat(z, Cat(v, Cat(h, m))) \in Texts
      BY <2>1, <2>2, CatType
    <2>4. Cat(Cat(o, Cat(z, Cat(v, h))), m) = Cat(o, Cat(Cat(z, Cat(v, h)), m))
      BY <1>3, <2>3, CatAssoc
    <2>5. Cat(Cat(z, Cat(v, h)), m) = Cat(z, Cat(Cat(v, h), m))
      BY <2>1, CatAssoc
    <2>6. Cat(Cat(v, h), m) = Cat(v, Cat(h, m))
      BY <1>7, CatAssoc
    <2> QED
      BY <2>1, <2>2, <2>3, <2>4, <2>5, <2>6
  <1> DEFINE A == Cat(v, Cat(f, r))
             B == Cat(v, Cat(g, q))
  <1>10. /\ Cat(k, r) = Cat(o, Cat(x, A)) /\ Cat(x, A) \in Texts /\ A \in Texts /\ Cat(f, r) \in Texts
    <2>1. Cat(k, r) = Cat(Cat(o, Cat(x, Cat(v, f))), r)
      BY <1>4
    <2>2. Cat(Cat(o, Cat(x, Cat(v, f))), r) = Cat(o, Cat(x, A))
      BY <1>7, <1>9
    <2>3. Cat(f, r) \in Texts
      BY <1>7, <1>9
    <2>4. A \in Texts
      BY <1>7, <1>9
    <2>5. Cat(x, A) \in Texts
      BY <1>7, <1>9
    <2> HIDE DEF A
    <2> QED
      BY <2>1, <2>2, <2>3, <2>4, <2>5
  <1>11. /\ Cat(l, q) = Cat(o, Cat(y, B)) /\ Cat(y, B) \in Texts /\ B \in Texts /\ Cat(g, q) \in Texts
    <2>1. Cat(l, q) = Cat(Cat(o, Cat(y, Cat(v, g))), q)
      BY <1>4
    <2>2. Cat(Cat(o, Cat(y, Cat(v, g))), q) = Cat(o, Cat(y, B))
      BY <1>7, <1>9
    <2>3. Cat(g, q) \in Texts
      BY <1>7, <1>9
    <2>4. B \in Texts
      BY <1>7, <1>9
    <2>5. Cat(y, B) \in Texts
      BY <1>7, <1>9
    <2> HIDE DEF B
    <2> QED
      BY <2>1, <2>2, <2>3, <2>4, <2>5
  <1>12. A = Cat(v, Cat(f, r)) /\ B = Cat(v, Cat(g, q))
    OBVIOUS
  <1> HIDE DEF A, B
  <1>13. Cat(x, A) = Cat(y, B)
    <2>1. Cat(o, Cat(x, A)) = Cat(o, Cat(y, B))
      BY <1>8, <1>10, <1>11
    <2> QED
      BY <1>3, <1>10, <1>11, <2>1, CatCancel
  <1>14. x = y /\ A = B
    BY <1>2, <1>10, <1>11, <1>13, CanonCode
  <1>15. Cat(f, r) = Cat(g, q)
    <2>1. Cat(v, Cat(f, r)) = Cat(v, Cat(g, q))
      BY <1>12, <1>14
    <2> QED
      BY <1>7, <1>10, <1>11, <2>1, CatCancel
  <1>16. f = g /\ r = q
    BY <1>2, <1>15, CanonCode
  <1> QED
    BY <1>6, <1>14, <1>16 DEF f, g

\* Words none of which starts another are spelled differently.
LEMMA WordsDiffer ==
  ASSUME NEW words, Apart(words), NEW v \in words, NEW w \in words, Spell(v) \in Texts, Spell(w) \in Texts,
         Spell(v) = Spell(w)
  PROVE  v = w
  <1> DEFINE e == <<>>
  <1>1. e \in Texts
    BY EmptySeq DEF Texts
  <1> HIDE DEF e
  <1>2. Cat(Spell(v), e) = Cat(Spell(w), e)
    OBVIOUS
  <1> QED
    BY <1>1, <1>2, CatStart

-----------------------------------------------------------------------------
(* The tree's recursions are rounds, one after the other: one level up, one *)
(* node up, or one step of a proof; and one level up that also tells with   *)
(* which leaf each node's leaves start.                                     *)
Spread(was) ==
  [level |-> MerklePairUp(was.level),
   starts |-> [i \in 1..((Len(was.level) + 1) \div 2 + 1) |->
                 IF 2*i - 1 <= Len(was.level) + 1 THEN was.starts[2*i - 1]
                 ELSE was.starts[Len(was.level) + 1]]]

Round(kind, was, n) ==
  IF kind.round = "level" THEN MerklePairUp(was)
  ELSE IF kind.round = "spread" THEN Spread(was)
  ELSE IF kind.round = "node" THEN MerkleClimb(was)
  ELSE IF kind.steps[n].siblingOnLeft THEN MerkleNode(kind.steps[n].sibling, was)
  ELSE MerkleNode(was, kind.steps[n].sibling)

IsRun(kind, base, m, f) ==
  f = [n \in 0..m |-> IF n = 0 THEN base ELSE Round(kind, f[n-1], n)]

LEMMA RunExists ==
  ASSUME NEW kind, NEW base, NEW m \in Nat
  PROVE  \E f : IsRun(kind, base, m, f)
  <1> DEFINE N == {k \in Nat : \E f : IsRun(kind, base, k, f)}
  <1>1. 0 \in N
    <2> DEFINE f == [n \in 0..0 |-> base]
    <2>1. IsRun(kind, base, 0, f)
      BY DEF IsRun
    <2> QED
      BY <2>1
  <1>2. ASSUME NEW k \in Nat, k \in N PROVE k + 1 \in N
    <2>1. PICK f : IsRun(kind, base, k, f)
      BY <1>2
    <2> DEFINE g == [n \in 0..(k + 1) |-> IF n = 0 THEN base ELSE Round(kind, f[n-1], n)]
    <2>2. \A n \in 0..k : g[n] = f[n]
      BY <2>1 DEF IsRun
    <2>3. \A n \in 1..(k + 1) : n - 1 \in 0..k
      OBVIOUS
    <2>4. g = [n \in 0..(k + 1) |-> IF n = 0 THEN base ELSE Round(kind, g[n-1], n)]
      <3>1. \A n \in 0..(k + 1) : n # 0 => g[n-1] = f[n-1]
        BY <2>2, <2>3
      <3> QED
        BY <3>1
    <2> HIDE DEF g
    <2>5. IsRun(kind, base, k + 1, g)
      BY <2>4 DEF IsRun
    <2> QED
      BY <2>5
  <1> HIDE DEF N
  <1>3. m \in N
    BY <1>1, <1>2, NatInductionSet
  <1> QED
    BY <1>3 DEF N

LEMMA RunIs ==
  ASSUME NEW kind, NEW base, NEW m \in Nat, NEW f, IsRun(kind, base, m, f)
  PROVE  f[0] = base /\ \A n \in 0..(m - 1) : f[n + 1] = Round(kind, f[n], n + 1)
  <1>1. f[0] = base
    BY DEF IsRun
  <1>2. ASSUME NEW n \in 0..(m - 1) PROVE f[n + 1] = Round(kind, f[n], n + 1)
    <2>1. n + 1 \in 0..m /\ n + 1 # 0 /\ (n + 1) - 1 = n
      OBVIOUS
    <2> QED
      BY <2>1 DEF IsRun
  <1> QED
    BY <1>1, <1>2

\* The rounds of the three recursions, one after the other.
LEMMA LevelsAre ==
  ASSUME NEW leaves, IsList(leaves)
  PROVE  LET up == MerkleLevels(leaves)
         IN  up[0] = leaves /\ \A n \in 0..(Len(leaves) - 1) : up[n + 1] = MerklePairUp(up[n])
  <1> DEFINE up == MerkleLevels(leaves)
             m == Len(leaves)
             kind == [round |-> "level"]
  <1>0. m \in Nat
    BY DEF IsList
  <1>1. \A was, n : Round(kind, was, n) = MerklePairUp(was)
    BY DEF Round
  <1> HIDE DEF kind
  <1>2. PICK f : IsRun(kind, leaves, m, f)
    BY <1>0, RunExists
  <1>3. f = [n \in 0..m |-> IF n = 0 THEN leaves ELSE MerklePairUp(f[n-1])]
    BY <1>1, <1>2 DEF IsRun
  <1>4. up = [n \in 0..m |-> IF n = 0 THEN leaves ELSE MerklePairUp(up[n-1])]
    BY <1>3 DEF MerkleLevels
  <1> HIDE DEF up, m
  <1>5. IsRun(kind, leaves, m, up)
    BY <1>1, <1>4 DEF IsRun
  <1>6. up[0] = leaves /\ \A n \in 0..(m - 1) : up[n + 1] = Round(kind, up[n], n + 1)
    BY <1>0, <1>5, RunIs
  <1> QED
    BY <1>1, <1>6 DEF up, m

LEMMA WayIs ==
  ASSUME NEW leaves, IsList(leaves), NEW ix \in 0..(Len(leaves) - 1)
  PROVE  \E way : /\ way[0] = [level |-> leaves, at |-> ix, steps |-> <<>>]
                  /\ \A n \in 0..(Len(leaves) - 1) : way[n + 1] = MerkleClimb(way[n])
                  /\ MerkleProof(ix, leaves) = way[Len(leaves)].steps
  <1> DEFINE start == [level |-> leaves, at |-> ix, steps |-> <<>>]
             way == CHOOSE f : f = [n \in 0..Len(leaves) |-> IF n = 0 THEN start ELSE MerkleClimb(f[n-1])]
             m == Len(leaves)
             kind == [round |-> "node"]
  <1>0. m \in Nat
    BY DEF IsList
  <1>1. \A was, n : Round(kind, was, n) = MerkleClimb(was)
    BY DEF Round
  <1>2. MerkleProof(ix, leaves) = way[Len(leaves)].steps
    <2>1. ~(ix < 0) /\ ~(ix >= Len(leaves))
      BY <1>0
    <2> QED
      BY <2>1 DEF MerkleProof
  <1> HIDE DEF kind, start
  <1>3. PICK f : IsRun(kind, start, m, f)
    BY <1>0, RunExists
  <1>4. f = [n \in 0..m |-> IF n = 0 THEN start ELSE MerkleClimb(f[n-1])]
    BY <1>1, <1>3 DEF IsRun
  <1>5. way = [n \in 0..m |-> IF n = 0 THEN start ELSE MerkleClimb(way[n-1])]
    BY <1>4
  <1> HIDE DEF way, m
  <1>6. IsRun(kind, start, m, way)
    BY <1>1, <1>5 DEF IsRun
  <1>7. way[0] = start /\ \A n \in 0..(m - 1) : way[n + 1] = Round(kind, way[n], n + 1)
    BY <1>0, <1>6, RunIs
  <1> QED
    BY <1>1, <1>2, <1>7 DEF start, m

\* One step of a proof.
Step(s, was) ==
  IF s.siblingOnLeft THEN MerkleNode(s.sibling, was) ELSE MerkleNode(was, s.sibling)

\* Folding the steps from v gives u, one step after the other.
FoldsTo(v, steps, u) ==
  \E acc : /\ acc[0] = v /\ acc[Len(steps)] = u
           /\ \A n \in 0..(Len(steps) - 1) : acc[n + 1] = Step(steps[n + 1], acc[n])

LEMMA FoldIs ==
  ASSUME NEW v, NEW steps, IsList(steps)
  PROVE  FoldsTo(v, steps, MerkleFold(v, steps))
  <1> DEFINE acc == CHOOSE f : f = [n \in 0..Len(steps) |->
                      IF n = 0 THEN v
                      ELSE IF steps[n].siblingOnLeft THEN MerkleNode(steps[n].sibling, f[n-1])
                      ELSE MerkleNode(f[n-1], steps[n].sibling)]
             m == Len(steps)
             kind == [round |-> "step", steps |-> steps]
  <1>0. m \in Nat
    BY DEF IsList
  <1>1. \A was, n : Round(kind, was, n) =
          IF steps[n].siblingOnLeft THEN MerkleNode(steps[n].sibling, was)
          ELSE MerkleNode(was, steps[n].sibling)
    BY DEF Round
  <1>2. MerkleFold(v, steps) = acc[Len(steps)]
    BY DEF MerkleFold
  <1> HIDE DEF kind
  <1>3. PICK f : IsRun(kind, v, m, f)
    BY <1>0, RunExists
  <1>4. f = [n \in 0..m |-> IF n = 0 THEN v
               ELSE IF steps[n].siblingOnLeft THEN MerkleNode(steps[n].sibling, f[n-1])
               ELSE MerkleNode(f[n-1], steps[n].sibling)]
    BY <1>1, <1>3 DEF IsRun
  <1>5. acc = [n \in 0..m |-> IF n = 0 THEN v
                 ELSE IF steps[n].siblingOnLeft THEN MerkleNode(steps[n].sibling, acc[n-1])
                 ELSE MerkleNode(acc[n-1], steps[n].sibling)]
    BY <1>4
  <1> HIDE DEF acc, m
  <1>6. IsRun(kind, v, m, acc)
    BY <1>1, <1>5 DEF IsRun
  <1>7. acc[0] = v /\ \A n \in 0..(m - 1) : acc[n + 1] = Round(kind, acc[n], n + 1)
    BY <1>0, <1>6, RunIs
  <1>8. \A n \in 0..(m - 1) : acc[n + 1] = Step(steps[n + 1], acc[n])
    BY <1>1, <1>7 DEF Step
  <1> QED
    BY <1>2, <1>7, <1>8 DEF FoldsTo, m

\* Two values folded by the same steps to the same value are the same: a node
\* tells its two sides.
LEMMA StepTells ==
  ASSUME NEW s, NEW a, NEW b, Step(s, a) = Step(s, b)
  PROVE  a = b
  BY DEF Step, MerkleNode

LEMMA FoldTells ==
  ASSUME NEW steps, IsList(steps), NEW v, NEW w, NEW u,
         FoldsTo(v, steps, u), FoldsTo(w, steps, u)
  PROVE  v = w
  <1> DEFINE m == Len(steps)
  <1>0. m \in Nat
    BY DEF IsList
  <1>1. PICK a : /\ a[0] = v /\ a[m] = u
                 /\ \A n \in 0..(m - 1) : a[n + 1] = Step(steps[n + 1], a[n])
    BY DEF FoldsTo
  <1>2. PICK b : /\ b[0] = w /\ b[m] = u
                 /\ \A n \in 0..(m - 1) : b[n + 1] = Step(steps[n + 1], b[n])
    BY DEF FoldsTo
  <1> HIDE DEF m
  <1> DEFINE N == {k \in Nat : k <= m => a[m - k] = b[m - k]}
  <1>3. 0 \in N
    BY <1>0, <1>1, <1>2
  <1>4. ASSUME NEW k \in Nat, k \in N PROVE k + 1 \in N
    <2> SUFFICES ASSUME k + 1 <= m PROVE a[m - (k + 1)] = b[m - (k + 1)]
      OBVIOUS
    <2> DEFINE n == m - (k + 1)
    <2>1. n \in 0..(m - 1) /\ n + 1 = m - k
      BY <1>0
    <2>2. a[n + 1] = b[n + 1]
      BY <1>0, <1>4, <2>1
    <2> HIDE DEF n
    <2>3. Step(steps[n + 1], a[n]) = Step(steps[n + 1], b[n])
      BY <1>1, <1>2, <2>1, <2>2
    <2>4. a[n] = b[n]
      BY <2>3, StepTells
    <2> QED
      BY <2>4 DEF n
  <1> HIDE DEF N
  <1>5. Nat \subseteq N
    BY <1>3, <1>4, NatInductionSet
  <1>6. a[m - m] = b[m - m] /\ m - m = 0
    BY <1>0, <1>5 DEF N
  <1> QED
    BY <1>1, <1>2, <1>6

\* ... and forwards, the fold of the same value is one.
LEMMA FoldUnique ==
  ASSUME NEW steps, IsList(steps), NEW v, NEW u, FoldsTo(v, steps, u)
  PROVE  MerkleFold(v, steps) = u
  <1> DEFINE m == Len(steps)
             t == MerkleFold(v, steps)
  <1>0. m \in Nat
    BY DEF IsList
  <1>1. PICK a : /\ a[0] = v /\ a[m] = u
                 /\ \A n \in 0..(m - 1) : a[n + 1] = Step(steps[n + 1], a[n])
    BY DEF FoldsTo
  <1>2. PICK b : /\ b[0] = v /\ b[m] = t
                 /\ \A n \in 0..(m - 1) : b[n + 1] = Step(steps[n + 1], b[n])
    <2>1. FoldsTo(v, steps, t)
      BY FoldIs
    <2> HIDE DEF t
    <2> QED
      BY <2>1 DEF FoldsTo
  <1> HIDE DEF m, t
  <1> DEFINE N == {k \in Nat : k <= m => a[k] = b[k]}
  <1>3. 0 \in N
    BY <1>1, <1>2
  <1>4. ASSUME NEW k \in Nat, k \in N PROVE k + 1 \in N
    <2> SUFFICES ASSUME k + 1 <= m PROVE a[k + 1] = b[k + 1]
      OBVIOUS
    <2>1. k \in 0..(m - 1) /\ k <= m
      BY <1>0
    <2> QED
      BY <1>1, <1>2, <1>4, <2>1
  <1> HIDE DEF N
  <1>5. Nat \subseteq N
    BY <1>3, <1>4, NatInductionSet
  <1>6. a[m] = b[m]
    BY <1>0, <1>5 DEF N
  <1> QED
    BY <1>1, <1>2, <1>6 DEF t

\* One step more.
LEMMA FoldOn ==
  ASSUME NEW steps, IsList(steps), NEW v, NEW u, FoldsTo(v, steps, u), NEW s
  PROVE  FoldsTo(v, Append(steps, s), Step(s, u))
  <1> DEFINE m == Len(steps)
             more == Append(steps, s)
  <1>0. m \in Nat
    BY DEF IsList
  <1>1. PICK a : /\ a[0] = v /\ a[m] = u
                 /\ \A n \in 0..(m - 1) : a[n + 1] = Step(steps[n + 1], a[n])
    BY DEF FoldsTo
  <1>2. /\ IsList(more) /\ Len(more) = m + 1
        /\ \A i \in 1..m : more[i] = steps[i]
        /\ more[m + 1] = s
    BY AppendList
  <1> HIDE DEF m, more
  <1> DEFINE b == [n \in 0..(m + 1) |-> IF n = m + 1 THEN Step(s, u) ELSE a[n]]
  <1>3. b[0] = v /\ b[m + 1] = Step(s, u) /\ \A n \in 0..m : b[n] = a[n]
    BY <1>0, <1>1
  <1> HIDE DEF b
  <1>4. ASSUME NEW n \in 0..((m + 1) - 1) PROVE b[n + 1] = Step(more[n + 1], b[n])
    <2>1. CASE n = m
      BY <1>0, <1>1, <1>2, <1>3, <2>1
    <2>2. CASE n # m
      <3>1. n \in 0..(m - 1) /\ n + 1 \in 1..m /\ n + 1 \in 0..m /\ n \in 0..m
        BY <1>0, <2>2
      <3> QED
        BY <1>1, <1>2, <1>3, <3>1
    <2> QED
      BY <2>1, <2>2
  <1>5. FoldsTo(v, more, Step(s, u))
    BY <1>2, <1>3, <1>4 DEF FoldsTo
  <1> QED
    BY <1>5 DEF more

-----------------------------------------------------------------------------
(* Levels.                                                                  *)

LEMMA PairUpIs ==
  ASSUME NEW level, IsList(level), Len(level) > 0
  PROVE  LET up == MerklePairUp(level)
             n == Len(level)
         IN  /\ IsList(up) /\ Len(up) = (n + 1) \div 2
             /\ \A i \in 1..Len(up) :
                  up[i] = IF 2*i <= n THEN MerkleNode(level[2*i - 1], level[2*i]) ELSE level[2*i - 1]
  <1> DEFINE up == MerklePairUp(level)
             m == (Len(level) + 1) \div 2
  <1>1. m \in Nat
    BY DEF IsList
  <1>2. up = [i \in 1..m |-> IF 2*i <= Len(level) THEN MerkleNode(level[2*i - 1], level[2*i])
                             ELSE level[2*i - 1]]
    BY DEF MerklePairUp
  <1> HIDE DEF up, m
  <1>3. up = [i \in 1..m |-> up[i]]
    BY <1>2
  <1>4. IsList(up) /\ Len(up) = m
    BY <1>1, <1>3, ListIs
  <1>5. \A i \in 1..m :
          up[i] = IF 2*i <= Len(level) THEN MerkleNode(level[2*i - 1], level[2*i]) ELSE level[2*i - 1]
    BY <1>2
  <1> QED
    BY <1>4, <1>5 DEF up, m

LEMMA LevelSizes ==
  ASSUME NEW leaves, IsList(leaves), Len(leaves) > 0
  PROVE  \A k \in 0..Len(leaves) :
           LET level == MerkleLevels(leaves)[k]
           IN  /\ IsList(level) /\ Len(level) > 0
               /\ Len(level) = 1 \/ Len(level) + k <= Len(leaves)
  <1> DEFINE up == MerkleLevels(leaves)
             m == Len(leaves)
             Good(k) == /\ IsList(up[k]) /\ Len(up[k]) > 0
                        /\ Len(up[k]) = 1 \/ Len(up[k]) + k <= m
             N == {k \in Nat : k <= m => Good(k)}
  <1>0. m \in Nat /\ m > 0
    BY DEF IsList
  <1>1. up[0] = leaves /\ \A n \in 0..(m - 1) : up[n + 1] = MerklePairUp(up[n])
    BY LevelsAre
  <1>2. IsList(leaves) /\ Len(leaves) = m
    OBVIOUS
  <1> HIDE DEF up, m
  <1>3. 0 \in N
    BY <1>0, <1>1, <1>2
  <1>4. ASSUME NEW k \in Nat, k \in N PROVE k + 1 \in N
    <2> HIDE DEF Good
    <2> SUFFICES ASSUME k + 1 <= m PROVE Good(k + 1)
      OBVIOUS
    <2>0. k <= m => Good(k)
      BY <1>4
    <2> USE DEF Good
    <2> DEFINE n == Len(up[k])
               l == Len(up[k + 1])
    <2>1. k \in 0..(m - 1) /\ k <= m
      BY <1>0
    <2>2. IsList(up[k]) /\ n > 0 /\ n \in Nat /\ (n = 1 \/ n + k <= m)
      BY <2>0, <2>1 DEF IsList
    <2>3. IsList(up[k + 1]) /\ l = (n + 1) \div 2
      BY <1>1, <2>1, <2>2, PairUpIs
    <2> HIDE DEF n, l
    <2>4. l > 0 /\ (l = 1 \/ l + (k + 1) <= m)
      <3>1. CASE n = 1
        BY <2>3, <3>1
      <3>2. CASE n > 1
        <4>1. l > 0 /\ l <= n - 1
          BY <2>2, <2>3, <3>2
        <4> QED
          BY <1>0, <2>2, <2>3, <3>2, <4>1
      <3> QED
        BY <2>2, <3>1, <3>2
    <2> QED
      BY <2>3, <2>4 DEF l
  <1> HIDE DEF N
  <1>5. Nat \subseteq N
    BY <1>3, <1>4, NatInductionSet
  <1> QED
    BY <1>0, <1>5 DEF N, up, m

\* The last level is the root alone.
LEMMA RootIs ==
  ASSUME NEW leaves, IsList(leaves), Len(leaves) > 0
  PROVE  LET top == MerkleLevels(leaves)[Len(leaves)]
         IN  IsList(top) /\ Len(top) = 1 /\ MerkleRoot(leaves) = top[1]
  <1> DEFINE m == Len(leaves)
             top == MerkleLevels(leaves)[m]
  <1>1. m \in Nat /\ m \in 0..m
    BY DEF IsList
  <1>2. IsList(top) /\ Len(top) > 0 /\ (Len(top) = 1 \/ Len(top) + m <= m)
    BY <1>1, LevelSizes
  <1>3. leaves # <<>>
    BY EmptyIs
  <1>4. MerkleRoot(leaves) = top[1]
    BY <1>3 DEF MerkleRoot
  <1> HIDE DEF top, m
  <1>5. Len(top) \in Nat
    BY <1>2 DEF IsList
  <1>6. Len(top) = 1
    BY <1>1, <1>2, <1>5
  <1> QED
    BY <1>2, <1>4, <1>6 DEF top, m

-----------------------------------------------------------------------------
(* A row's own proof.                                                       *)

LEMMA ClimbKeeps ==
  ASSUME NEW v, NEW way, IsList(way.level), way.at \in 0..(Len(way.level) - 1),
         IsList(way.steps), FoldsTo(v, way.steps, way.level[way.at + 1])
  PROVE  LET on == MerkleClimb(way)
         IN  /\ on.level = MerklePairUp(way.level)
             /\ on.at \in 0..(Len(on.level) - 1)
             /\ IsList(on.steps) /\ FoldsTo(v, on.steps, on.level[on.at + 1])
  <1> DEFINE on == MerkleClimb(way)
             level == way.level
             up == MerklePairUp(level)
             n == Len(level)
             at == way.at
             q == at \div 2
             sibling == IF at % 2 = 0 THEN at + 1 ELSE at - 1
             step == [siblingOnLeft |-> at % 2 = 1, sibling |-> level[sibling + 1]]
             steps == way.steps
  <1>1. /\ on.level = up /\ on.at = q
        /\ on.steps = IF sibling < n THEN Append(steps, step) ELSE steps
    BY DEF MerkleClimb
  <1>2. n \in Nat /\ at \in 0..(n - 1) /\ n > 0
    BY DEF IsList
  <1>3. q \in Nat /\ (at = 2*q \/ at = 2*q + 1)
    <2>0. at \in Nat
      BY <1>2
    <2> HIDE DEF at
    <2> QED
      BY <2>0
  <1>4. /\ IsList(up) /\ Len(up) = (n + 1) \div 2
        /\ \A i \in 1..Len(up) :
             up[i] = IF 2*i <= n THEN MerkleNode(level[2*i - 1], level[2*i]) ELSE level[2*i - 1]
    BY <1>2, PairUpIs
  <1>5. IsList(steps) /\ FoldsTo(v, steps, level[at + 1])
    OBVIOUS
  <1>6. \A s : IsList(Append(steps, s)) /\ FoldsTo(v, Append(steps, s), Step(s, level[at + 1]))
    BY <1>5, FoldOn, AppendList
  <1>7. (at % 2 = 0 <=> at = 2*q) /\ (at % 2 = 1 <=> at = 2*q + 1)
    <2>0. at \in Nat
      BY <1>2
    <2> HIDE DEF at
    <2> QED
      BY <2>0
  <1> HIDE DEF on, up, n, at, q, level, steps
  <1>8. q + 1 \in 1..Len(up) /\ q \in 0..(Len(up) - 1)
    BY <1>2, <1>3, <1>4
  <1>9. up[q + 1] = IF 2*(q + 1) <= n THEN MerkleNode(level[2*(q + 1) - 1], level[2*(q + 1)])
                    ELSE level[2*(q + 1) - 1]
    BY <1>4, <1>8
  <1>10. 2*(q + 1) - 1 = 2*q + 1 /\ 2*(q + 1) = 2*q + 2
    BY <1>3
  <1>11. CASE at = 2*q
    <2>1. sibling = 2*q + 1 /\ sibling + 1 = 2*q + 2 /\ at + 1 = 2*q + 1
      BY <1>3, <1>7, <1>11
    <2>2. CASE 2*q + 2 <= n
      <3>1. sibling < n
        BY <1>2, <1>3, <2>1, <2>2
      <3>2. ~step.siblingOnLeft /\ step.sibling = level[2*q + 2]
        <4>1. ~(at % 2 = 1)
          BY <1>3, <1>7, <1>11
        <4>2. step.siblingOnLeft <=> at % 2 = 1
          OBVIOUS
        <4>3. step.sibling = level[sibling + 1]
          OBVIOUS
        <4> QED
          BY <2>1, <4>1, <4>2, <4>3
      <3> HIDE DEF step, sibling
      <3>3. Step(step, level[at + 1]) = MerkleNode(level[2*q + 1], level[2*q + 2])
        BY <2>1, <3>2 DEF Step
      <3>4. on.steps = Append(steps, step)
        BY <1>1, <3>1
      <3>5. up[q + 1] = MerkleNode(level[2*q + 1], level[2*q + 2])
        BY <1>9, <1>10, <2>2
      <3>6. IsList(on.steps) /\ FoldsTo(v, on.steps, up[q + 1])
        BY <1>6, <3>3, <3>4, <3>5
      <3> QED
        BY <1>1, <1>8, <3>6 DEF on, level, up
    <2>3. CASE ~(2*q + 2 <= n)
      <3>1. ~(sibling < n)
        BY <1>2, <1>3, <2>1, <2>3
      <3> HIDE DEF step, sibling
      <3>2. on.steps = steps
        BY <1>1, <3>1
      <3>3. up[q + 1] = level[at + 1]
        BY <1>9, <1>10, <2>1, <2>3
      <3> QED
        BY <1>1, <1>5, <1>8, <3>2, <3>3 DEF on, level, up
    <2> QED
      BY <2>2, <2>3
  <1>12. CASE at = 2*q + 1
    <2>1. sibling = 2*q /\ sibling + 1 = 2*q + 1 /\ at + 1 = 2*q + 2
      BY <1>3, <1>7, <1>12
    <2>2. 2*q + 2 <= n /\ sibling < n
      BY <1>2, <1>3, <1>12, <2>1
    <2>3. step.siblingOnLeft = TRUE /\ step.sibling = level[2*q + 1]
      BY <1>3, <1>7, <1>12, <2>1
    <2> HIDE DEF step, sibling
    <2>4. Step(step, level[at + 1]) = MerkleNode(level[2*q + 1], level[2*q + 2])
      BY <2>1, <2>3 DEF Step
    <2>5. on.steps = Append(steps, step)
      BY <1>1, <2>2
    <2>6. up[q + 1] = MerkleNode(level[2*q + 1], level[2*q + 2])
      BY <1>9, <1>10, <2>2
    <2>7. IsList(on.steps) /\ FoldsTo(v, on.steps, up[q + 1])
      BY <1>6, <2>4, <2>5, <2>6
    <2> QED
      BY <1>1, <1>8, <2>7 DEF on, level, up
  <1> QED
    BY <1>3, <1>11, <1>12

\* The proof made for a leaf folds from the leaf to the root.
LEMMA OwnProof ==
  ASSUME NEW leaves, IsList(leaves), NEW ix \in 0..(Len(leaves) - 1)
  PROVE  /\ IsList(MerkleProof(ix, leaves))
         /\ FoldsTo(leaves[ix + 1], MerkleProof(ix, leaves), MerkleRoot(leaves))
  <1> DEFINE m == Len(leaves)
             up == MerkleLevels(leaves)
             v == leaves[ix + 1]
  <1>0. m \in Nat /\ m > 0
    BY DEF IsList
  <1>1. PICK way : /\ way[0] = [level |-> leaves, at |-> ix, steps |-> <<>>]
                   /\ \A n \in 0..(m - 1) : way[n + 1] = MerkleClimb(way[n])
                   /\ MerkleProof(ix, leaves) = way[m].steps
    BY WayIs
  <1>2. up[0] = leaves /\ \A n \in 0..(m - 1) : up[n + 1] = MerklePairUp(up[n])
    BY LevelsAre
  <1>3. \A k \in 0..m : IsList(up[k]) /\ Len(up[k]) > 0
    BY <1>0, LevelSizes
  <1>4. IsList(up[m]) /\ Len(up[m]) = 1 /\ MerkleRoot(leaves) = up[m][1]
    BY <1>0, RootIs
  <1>5. FoldsTo(v, <<>>, leaves[ix + 1])
    <2> DEFINE acc == [n \in 0..0 |-> v]
    <2>1. acc[0] = v /\ acc[Len(<<>>)] = v
      BY EmptyList
    <2>2. \A n \in 0..(Len(<<>>) - 1) : acc[n + 1] = Step(<<>>[n + 1], acc[n])
      BY EmptyList
    <2> HIDE DEF acc
    <2>3. FoldsTo(v, <<>>, v)
      BY <2>1, <2>2 DEF FoldsTo
    <2> QED
      BY <2>3
  <1>6. ix \in 0..(m - 1) /\ Len(leaves) = m /\ IsList(leaves)
    OBVIOUS
  <1> HIDE DEF m, up, v
  <1> DEFINE Good(k) == /\ way[k].level = up[k] /\ way[k].at \in 0..(Len(up[k]) - 1)
                        /\ IsList(way[k].steps)
                        /\ FoldsTo(v, way[k].steps, way[k].level[way[k].at + 1])
             N == {k \in Nat : k <= m => Good(k)}
  <1>7. 0 \in N
    <2>1. way[0].level = leaves /\ way[0].at = ix /\ way[0].steps = <<>>
      BY <1>1
    <2>2. Good(0)
      BY <1>2, <1>5, <1>6, <2>1, EmptyList
    <2> QED
      BY <2>2
  <1>8. ASSUME NEW k \in Nat, k \in N PROVE k + 1 \in N
    <2> SUFFICES ASSUME k + 1 <= m PROVE Good(k + 1)
      OBVIOUS
    <2>1. k \in 0..(m - 1) /\ k \in 0..m /\ k <= m
      BY <1>0
    <2>2. Good(k)
      BY <1>8, <2>1
    <2>3. way[k + 1] = MerkleClimb(way[k]) /\ up[k + 1] = MerklePairUp(up[k])
      BY <1>1, <1>2, <2>1
    <2> DEFINE w == way[k]
    <2>4. /\ IsList(w.level) /\ w.at \in 0..(Len(w.level) - 1) /\ IsList(w.steps)
          /\ FoldsTo(v, w.steps, w.level[w.at + 1])
      BY <1>3, <2>1, <2>2
    <2> DEFINE on == MerkleClimb(w)
    <2> HIDE DEF w
    <2>5. /\ on.level = MerklePairUp(w.level) /\ on.at \in 0..(Len(on.level) - 1)
          /\ IsList(on.steps) /\ FoldsTo(v, on.steps, on.level[on.at + 1])
      BY <2>4, ClimbKeeps
    <2>6. way[k + 1] = on
      BY <2>3 DEF w
    <2>7. on.level = up[k + 1]
      BY <2>2, <2>3, <2>5 DEF w
    <2> HIDE DEF on
    <2> QED
      BY <2>5, <2>6, <2>7
  <1> HIDE DEF N
  <1>9. Nat \subseteq N
    BY <1>7, <1>8, NatInductionSet
  <1>10. Good(m)
    BY <1>0, <1>9 DEF N
  <1>11. way[m].at = 0
    BY <1>4, <1>10
  <1>12. way[m].level[way[m].at + 1] = up[m][1]
    BY <1>10, <1>11
  <1> QED
    BY <1>1, <1>4, <1>10, <1>12 DEF v

\* What the auditor may rely on: a leaf passes the proof made for another only
\* if it is that leaf.
LEMMA ProofIsExact ==
  ASSUME NEW leaves, IsList(leaves), NEW ix \in 0..(Len(leaves) - 1), NEW leaf
  PROVE  MerkleVerify(leaf, MerkleProof(ix, leaves), MerkleRoot(leaves)) <=> leaf = leaves[ix + 1]
  <1> DEFINE steps == MerkleProof(ix, leaves)
             root == MerkleRoot(leaves)
             own == leaves[ix + 1]
  <1>1. IsList(steps) /\ FoldsTo(own, steps, root)
    BY OwnProof
  <1> HIDE DEF steps, root, own
  <1>2. MerkleFold(own, steps) = root
    BY <1>1, FoldUnique
  <1>3. ASSUME MerkleFold(leaf, steps) = root PROVE leaf = own
    <2>1. FoldsTo(leaf, steps, root)
      BY <1>1, <1>3, FoldIs
    <2> QED
      BY <1>1, <2>1, FoldTells
  <1>4. MerkleVerify(leaf, steps, root) <=> leaf = own
    BY <1>2, <1>3 DEF MerkleVerify
  <1> QED
    BY <1>4 DEF steps, root, own

-----------------------------------------------------------------------------
(* The root tells the leaves: each node stands for a span of them, and equal *)
(* nodes of two trees for equal spans.                                       *)

\* S[k] has the nodes of level k, each with its first leaf and the leaf after
\* its last one.
Spans(leaves, S) ==
  /\ \A x \in S[0] : \E a \in 1..Len(leaves) : x = <<leaves[a], a, a + 1>>
  /\ \A k \in 0..(Len(leaves) - 1) : \A x \in S[k + 1] :
       \/ x \in S[k]
       \/ \E y, z \in S[k] : y[3] = z[2] /\ x = <<MerkleNode(y[1], z[1]), y[2], z[3]>>
  /\ <<MerkleRoot(leaves), 1, Len(leaves) + 1>> \in S[Len(leaves)]

LEMMA SpreadIs ==
  ASSUME NEW was, IsList(was.level), Len(was.level) > 0,
         NEW i \in 1..((Len(was.level) + 1) \div 2)
  PROVE  LET on == Spread(was)
             n == Len(was.level)
         IN  \/ /\ 2*i <= n /\ on.level[i] = MerkleNode(was.level[2*i - 1], was.level[2*i])
                /\ on.starts[i] = was.starts[2*i - 1] /\ on.starts[i + 1] = was.starts[2*i + 1]
             \/ /\ 2*i - 1 = n /\ on.level[i] = was.level[n]
                /\ on.starts[i] = was.starts[n] /\ on.starts[i + 1] = was.starts[n + 1]
  <1> DEFINE on == Spread(was)
             n == Len(was.level)
             m == (n + 1) \div 2
  <1>0. n \in Nat /\ i \in 1..m
    BY DEF IsList
  <1>1. n \in Nat /\ m \in Nat /\ i \in 1..m /\ i \in 1..(m + 1) /\ i + 1 \in 1..(m + 1)
    <2> HIDE DEF n
    <2>1. m \in Nat
      BY <1>0
    <2> HIDE DEF m
    <2> QED
      BY <1>0, <2>1
  <1>2. 2*i <= n \/ 2*i - 1 = n
    <2> HIDE DEF n
    <2> QED
      BY <1>1
  <1>3. /\ on.level = MerklePairUp(was.level)
        /\ on.starts = [j \in 1..(m + 1) |-> IF 2*j - 1 <= n + 1 THEN was.starts[2*j - 1]
                                              ELSE was.starts[n + 1]]
    BY DEF Spread
  <1>4. on.level[i] = IF 2*i <= n THEN MerkleNode(was.level[2*i - 1], was.level[2*i])
                      ELSE was.level[2*i - 1]
    BY <1>1, <1>3, PairUpIs
  <1> HIDE DEF on, m
  <1>5. /\ on.starts[i] = IF 2*i - 1 <= n + 1 THEN was.starts[2*i - 1] ELSE was.starts[n + 1]
        /\ on.starts[i + 1] = IF 2*(i + 1) - 1 <= n + 1 THEN was.starts[2*(i + 1) - 1]
                              ELSE was.starts[n + 1]
    BY <1>1, <1>3
  <1> HIDE DEF n
  <1>6. 2*(i + 1) - 1 = 2*i + 1
    BY <1>1
  <1>7. CASE 2*i <= n
    <2>1. 2*i - 1 <= n + 1 /\ 2*i + 1 <= n + 1
      BY <1>1, <1>7
    <2> QED
      BY <1>4, <1>5, <1>6, <1>7, <2>1 DEF n, on
  <1>8. CASE 2*i - 1 = n
    <2>1. 2*i - 1 <= n + 1 /\ ~(2*i + 1 <= n + 1) /\ ~(2*i <= n)
      BY <1>1, <1>8
    <2> QED
      BY <1>4, <1>5, <1>6, <1>8, <2>1 DEF n, on
  <1> QED
    BY <1>2, <1>7, <1>8 DEF n, on

LEMMA SpansExist ==
  ASSUME NEW leaves, IsList(leaves), Len(leaves) > 0
  PROVE  \E S : Spans(leaves, S)
  <1> DEFINE N == Len(leaves)
             up == MerkleLevels(leaves)
             kind == [round |-> "spread"]
             start == [level |-> leaves, starts |-> [i \in 1..(N + 1) |-> i]]
  <1>0. N \in Nat /\ N > 0
    BY DEF IsList
  <1>1. \A was, n : Round(kind, was, n) = Spread(was)
    BY DEF Round
  <1>2. up[0] = leaves /\ \A n \in 0..(N - 1) : up[n + 1] = MerklePairUp(up[n])
    BY LevelsAre
  <1>3. \A k \in 0..N : IsList(up[k]) /\ Len(up[k]) > 0
    BY <1>0, LevelSizes
  <1>4. IsList(up[N]) /\ Len(up[N]) = 1 /\ MerkleRoot(leaves) = up[N][1]
    BY <1>0, RootIs
  <1>5. start.level = leaves /\ start.starts = [i \in 1..(N + 1) |-> i] /\ Len(leaves) = N
    OBVIOUS
  <1> HIDE DEF N, up, kind, start
  <1>6. PICK w : IsRun(kind, start, N, w)
    BY <1>0, RunExists
  <1>7. w[0] = start
    BY <1>0, <1>6, RunIs
  <1>8. \A n \in 0..(N - 1) : w[n + 1] = Spread(w[n])
    <2>1. \A n \in 0..(N - 1) : w[n + 1] = Round(kind, w[n], n + 1)
      BY <1>0, <1>6, RunIs
    <2> QED
      BY <1>1, <2>1
  <1> DEFINE Good(k) == /\ w[k].level = up[k] /\ w[k].starts[1] = 1
                        /\ w[k].starts[Len(up[k]) + 1] = N + 1
             L == {k \in Nat : k <= N => Good(k)}
  <1>9. 0 \in L
    <2>1. start.starts[1] = 1 /\ start.starts[N + 1] = N + 1
      BY <1>0, <1>5
    <2>2. Good(0)
      BY <1>2, <1>5, <1>7, <2>1
    <2> QED
      BY <2>2
  <1>10. ASSUME NEW k \in Nat, k \in L PROVE k + 1 \in L
    <2> HIDE DEF Good
    <2> SUFFICES ASSUME k + 1 <= N PROVE Good(k + 1)
      OBVIOUS
    <2>1. k \in 0..(N - 1) /\ k \in 0..N /\ k <= N
      BY <1>0
    <2>2. Good(k)
      BY <1>10, <2>1
    <2> DEFINE was == w[k]
               n == Len(was.level)
               m == (n + 1) \div 2
    <2>3. was.level = up[k] /\ was.starts[1] = 1 /\ was.starts[n + 1] = N + 1
      BY <2>2 DEF Good
    <2>4. IsList(was.level) /\ n > 0 /\ n \in Nat /\ w[k + 1] = Spread(was)
          /\ up[k + 1] = MerklePairUp(was.level)
      <3>1. IsList(up[k]) /\ Len(up[k]) > 0 /\ up[k + 1] = MerklePairUp(up[k])
        BY <1>2, <1>3, <2>1
      <3>2. w[k + 1] = Spread(was)
        BY <1>8, <2>1
      <3> HIDE DEF was
      <3>3. IsList(was.level) /\ n > 0 /\ up[k + 1] = MerklePairUp(was.level)
        BY <2>3, <3>1
      <3>4. n \in Nat
        BY <3>3 DEF IsList
      <3> QED
        BY <3>2, <3>3, <3>4
    <2>5. w[k + 1].level = up[k + 1] /\ Len(up[k + 1]) = m
      <3>1. w[k + 1].level = MerklePairUp(was.level)
        BY <2>4 DEF Spread
      <3> HIDE DEF was
      <3>2. Len(MerklePairUp(was.level)) = m
        BY <2>4, PairUpIs
      <3> QED
        BY <2>4, <3>1, <3>2
    <2>6. w[k + 1].starts = [i \in 1..(m + 1) |-> IF 2*i - 1 <= n + 1 THEN was.starts[2*i - 1]
                                                  ELSE was.starts[n + 1]]
      BY <2>4 DEF Spread
    <2> HIDE DEF was
    <2>7. n \in Nat /\ n > 0
      BY <2>4
    <2> HIDE DEF n
    <2>8. m \in Nat /\ 2*1 - 1 = 1 /\ (2*(m + 1) - 1 = n + 1 \/ 2*(m + 1) - 1 > n + 1)
      BY <2>7
    <2> HIDE DEF m
    <2>9. w[k + 1].starts[1] = 1
      BY <2>3, <2>6, <2>7, <2>8
    <2>10. w[k + 1].starts[m + 1] = N + 1
      <3>1. m + 1 \in 1..(m + 1)
        BY <2>8
      <3>2. w[k + 1].starts[m + 1] = IF 2*(m + 1) - 1 <= n + 1 THEN was.starts[2*(m + 1) - 1]
                                     ELSE was.starts[n + 1]
        BY <2>6, <3>1
      <3>3. CASE 2*(m + 1) - 1 = n + 1
        BY <2>3, <3>2, <3>3
      <3>4. CASE 2*(m + 1) - 1 > n + 1
        <4>1. ~(2*(m + 1) - 1 <= n + 1)
          BY <2>7, <2>8, <3>4
        <4> QED
          BY <2>3, <3>2, <4>1
      <3> QED
        BY <2>8, <3>3, <3>4
    <2> QED
      BY <2>5, <2>9, <2>10 DEF Good
  <1> HIDE DEF L
  <1>11. Nat \subseteq L
    BY <1>9, <1>10, NatInductionSet
  <1>12. \A k \in 0..N : Good(k)
    BY <1>0, <1>11 DEF L
  <1> DEFINE Span(k, i) == <<w[k].level[i], w[k].starts[i], w[k].starts[i + 1]>>
             S == [k \in 0..N |-> {Span(k, i) : i \in 1..Len(up[k])}]
  <1>13. \A k \in 0..N : \A x : x \in S[k] <=> \E i \in 1..Len(up[k]) : x = Span(k, i)
    OBVIOUS
  <1> HIDE DEF S
  <1>14. ASSUME NEW x \in S[0] PROVE \E a \in 1..N : x = <<leaves[a], a, a + 1>>
    <2> HIDE DEF Span
    <2>0. 0 \in 0..N
      BY <1>0
    <2>1. PICK i \in 1..Len(up[0]) : x = Span(0, i)
      BY <1>13, <2>0
    <2> USE DEF Span
    <2>2. i \in 1..N /\ i \in 1..(N + 1) /\ i + 1 \in 1..(N + 1)
      BY <1>0, <1>2, <1>5, <2>1
    <2> QED
      BY <1>5, <1>7, <2>1, <2>2
  <1>15. ASSUME NEW k \in 0..(N - 1), NEW x \in S[k + 1]
         PROVE  \/ x \in S[k]
                \/ \E y, z \in S[k] : y[3] = z[2] /\ x = <<MerkleNode(y[1], z[1]), y[2], z[3]>>
    <2>0. k \in 0..N /\ k + 1 \in 0..N
      BY <1>0
    <2>1. PICK i \in 1..Len(up[k + 1]) : x = Span(k + 1, i)
      BY <1>13, <2>0
    <2> DEFINE was == w[k]
               n == Len(up[k])
    <2>2. was.level = up[k] /\ IsList(up[k]) /\ n > 0 /\ n \in Nat
      BY <1>3, <1>12, <2>0 DEF IsList
    <2>3. up[k + 1] = MerklePairUp(up[k]) /\ w[k + 1] = Spread(was)
      BY <1>2, <1>8
    <2>4. Len(up[k + 1]) = (n + 1) \div 2
      BY <2>2, <2>3, PairUpIs
    <2>5. i \in 1..((n + 1) \div 2)
      BY <2>1, <2>4
    <2> DEFINE on == Spread(was)
    <2> HIDE DEF was
    <2>10. IsList(was.level) /\ Len(was.level) = n
      BY <2>2
    <2>6. \/ /\ 2*i <= n /\ on.level[i] = MerkleNode(was.level[2*i - 1], was.level[2*i])
             /\ on.starts[i] = was.starts[2*i - 1] /\ on.starts[i + 1] = was.starts[2*i + 1]
          \/ /\ 2*i - 1 = n /\ on.level[i] = was.level[n]
             /\ on.starts[i] = was.starts[n] /\ on.starts[i + 1] = was.starts[n + 1]
      <3> HIDE DEF n
      <3>1. i \in 1..((Len(was.level) + 1) \div 2) /\ Len(was.level) > 0
        BY <2>2, <2>5, <2>10
      <3> QED
        BY <2>10, <3>1, SpreadIs
    <2>7. x = <<on.level[i], on.starts[i], on.starts[i + 1]>>
      BY <2>1, <2>3
    <2> HIDE DEF on, n
    <2>8. CASE /\ 2*i <= n /\ on.level[i] = MerkleNode(was.level[2*i - 1], was.level[2*i])
               /\ on.starts[i] = was.starts[2*i - 1] /\ on.starts[i + 1] = was.starts[2*i + 1]
      <3> DEFINE y == Span(k, 2*i - 1)
                 z == Span(k, 2*i)
      <3>1. 2*i - 1 \in 1..n /\ 2*i \in 1..n /\ (2*i - 1) + 1 = 2*i
        BY <2>2, <2>5, <2>8
      <3>2. y \in S[k] /\ z \in S[k]
        BY <1>13, <2>0, <3>1 DEF n
      <3>3. /\ y[1] = was.level[2*i - 1] /\ y[2] = was.starts[2*i - 1] /\ y[3] = was.starts[2*i]
            /\ z[1] = was.level[2*i] /\ z[2] = was.starts[2*i] /\ z[3] = was.starts[2*i + 1]
        BY <3>1 DEF was
      <3> HIDE DEF y, z
      <3>4. y[3] = z[2] /\ x = <<MerkleNode(y[1], z[1]), y[2], z[3]>>
        BY <2>7, <2>8, <3>3
      <3> QED
        BY <3>2, <3>4
    <2>9. CASE /\ 2*i - 1 = n /\ on.level[i] = was.level[n]
               /\ on.starts[i] = was.starts[n] /\ on.starts[i + 1] = was.starts[n + 1]
      <3>1. x = Span(k, n)
        BY <2>7, <2>9 DEF was
      <3>2. n \in 1..n
        BY <2>2
      <3> QED
        BY <1>13, <2>0, <3>1, <3>2 DEF n
    <2> QED
      BY <2>6, <2>8, <2>9
  <1>16. <<MerkleRoot(leaves), 1, N + 1>> \in S[N]
    <2>1. Good(N) /\ N \in 0..N
      BY <1>0, <1>12
    <2>2. Span(N, 1) = <<MerkleRoot(leaves), 1, N + 1>> /\ 1 \in 1..Len(up[N])
      BY <1>4, <2>1
    <2> QED
      BY <1>13, <2>1, <2>2
  <1>17. Spans(leaves, S)
    BY <1>5, <1>14, <1>15, <1>16 DEF Spans
  <1> QED
    BY <1>17

\* Two spans of leaves are alike: as long, and of the same leaves.
Alike(p, a, b, q, c, d) ==
  b - a = d - c /\ \A e \in 0..(b - a - 1) : p[a + e] = q[c + e]

LEMMA AlikeJoined ==
  ASSUME NEW p, NEW q, NEW a \in Int, NEW m \in Int, NEW b \in Int,
         NEW c \in Int, NEW o \in Int, NEW d \in Int,
         Alike(p, a, m, q, c, o), Alike(p, m, b, q, o, d)
  PROVE  Alike(p, a, b, q, c, d)
  <1>1. m - a = o - c /\ b - m = d - o
    BY DEF Alike
  <1>2. ASSUME NEW e \in 0..(b - a - 1) PROVE p[a + e] = q[c + e]
    <2>1. CASE e < m - a
      <3>1. e \in 0..(m - a - 1)
        BY <2>1
      <3> QED
        BY <3>1 DEF Alike
    <2>2. CASE e >= m - a
      <3> DEFINE f == e - (m - a)
      <3>1. f \in 0..(b - m - 1) /\ m + f = a + e /\ o + f = c + e
        BY <1>1, <2>2
      <3> HIDE DEF f
      <3>2. p[m + f] = q[o + f]
        BY <3>1 DEF Alike
      <3> QED
        BY <3>1, <3>2
    <2> QED
      BY <2>1, <2>2
  <1> QED
    BY <1>1, <1>2 DEF Alike

\* What a span is of: a leaf, or two spans, one after the other, of a level
\* below, whose nodes its node joins.
LEMMA SpanIs ==
  ASSUME NEW leaves, IsList(leaves), NEW S, Spans(leaves, S)
  PROVE  \A k \in 0..Len(leaves) : \A x \in S[k] :
           /\ x[2] \in Int /\ x[3] \in Int
           /\ \/ \E a \in 1..Len(leaves) : x = <<leaves[a], a, a + 1>>
              \/ \E h \in 0..(k - 1) : \E y, z \in S[h] :
                   y[3] = z[2] /\ x = <<MerkleNode(y[1], z[1]), y[2], z[3]>>
  <1> DEFINE n == Len(leaves)
             Good(k, x) ==
               /\ x[2] \in Int /\ x[3] \in Int
               /\ \/ \E a \in 1..n : x = <<leaves[a], a, a + 1>>
                  \/ \E h \in 0..(k - 1) : \E y, z \in S[h] :
                       y[3] = z[2] /\ x = <<MerkleNode(y[1], z[1]), y[2], z[3]>>
             N == {k \in Nat : k <= n => \A x \in S[k] : Good(k, x)}
  <1>0. n \in Nat
    BY DEF IsList
  <1>1. \A x \in S[0] : \E a \in 1..n : x = <<leaves[a], a, a + 1>>
    BY DEF Spans
  <1>2. \A k \in 0..(n - 1) : \A x \in S[k + 1] :
           \/ x \in S[k]
           \/ \E y, z \in S[k] : y[3] = z[2] /\ x = <<MerkleNode(y[1], z[1]), y[2], z[3]>>
    BY DEF Spans
  <1> HIDE DEF n
  <1>3. 0 \in N
    <2>1. ASSUME NEW x \in S[0] PROVE Good(0, x)
      <3>1. PICK a \in 1..n : x = <<leaves[a], a, a + 1>>
        BY <1>1
      <3>2. x[2] = a /\ x[3] = a + 1
        BY <3>1
      <3> QED
        BY <3>1, <3>2
    <2> QED
      BY <2>1
  <1>4. ASSUME NEW k \in Nat, k \in N PROVE k + 1 \in N
    <2> HIDE DEF Good
    <2> SUFFICES ASSUME k + 1 <= n, NEW x \in S[k + 1] PROVE Good(k + 1, x)
      OBVIOUS
    <2>1. k \in 0..(n - 1) /\ k <= n
      BY <1>0
    <2>2. \A y \in S[k] : Good(k, y)
      BY <1>4, <2>1
    <2>3. CASE x \in S[k]
      <3>1. Good(k, x)
        BY <2>2, <2>3
      <3>2. \A h \in 0..(k - 1) : h \in 0..((k + 1) - 1)
        OBVIOUS
      <3> QED
        BY <3>1, <3>2 DEF Good
    <2>4. CASE \E y, z \in S[k] : y[3] = z[2] /\ x = <<MerkleNode(y[1], z[1]), y[2], z[3]>>
      <3>1. PICK y \in S[k], z \in S[k] : y[3] = z[2] /\ x = <<MerkleNode(y[1], z[1]), y[2], z[3]>>
        BY <2>4
      <3>2. y[2] \in Int /\ z[3] \in Int
        BY <2>2, <3>1 DEF Good
      <3>3. x[2] = y[2] /\ x[3] = z[3]
        BY <3>1
      <3>4. k \in 0..((k + 1) - 1)
        OBVIOUS
      <3> QED
        BY <3>1, <3>2, <3>3, <3>4 DEF Good
    <2> QED
      BY <1>2, <2>1, <2>3, <2>4
  <1> HIDE DEF N
  <1>5. Nat \subseteq N
    BY <1>3, <1>4, NatInductionSet
  <1>6. \A k \in 0..n : k \in N /\ k <= n
    BY <1>0, <1>5
  <1> QED
    BY <1>6 DEF N, n

\* The leaves of rows.
AreLeaves(leaves) == IsList(leaves) /\ \A i \in 1..Len(leaves) : \E row : leaves[i] = PeriodLeaf(row)

LEMMA KindsDiffer ==
  /\ \A row, l, r : PeriodLeaf(row) # MerkleNode(l, r)
  /\ \A row : PeriodLeaf(row) # MerkleEmpty
  /\ \A l, r : MerkleNode(l, r) # MerkleEmpty
  /\ \A l, r, m, s : MerkleNode(l, r) = MerkleNode(m, s) => l = m /\ r = s
  /\ \A row, other : PeriodLeaf(row) = PeriodLeaf(other) => row = other
  BY DEF PeriodLeaf, MerkleNode, MerkleEmpty

LEMMA SpansTell ==
  ASSUME NEW p, AreLeaves(p), NEW S, Spans(p, S), NEW q, AreLeaves(q), NEW T, Spans(q, T)
  PROVE  \A k \in 0..Len(p), l \in 0..Len(q) : \A x \in S[k], y \in T[l] :
            x[1] = y[1] => Alike(p, x[2], x[3], q, y[2], y[3])
  <1> DEFINE Told(k, l) == \A x \in S[k], y \in T[l] : x[1] = y[1] => Alike(p, x[2], x[3], q, y[2], y[3])
             m == Len(p)
             n == Len(q)
             N == {j \in Nat : \A k \in 0..m, l \in 0..n : k <= j => Told(k, l)}
  <1>0. m \in Nat /\ n \in Nat
    BY DEF AreLeaves, IsList
  <1>1. \A k \in 0..m : \A x \in S[k] :
           /\ x[2] \in Int /\ x[3] \in Int
           /\ \/ \E a \in 1..m : x = <<p[a], a, a + 1>>
              \/ \E h \in 0..(k - 1) : \E y, z \in S[h] :
                   y[3] = z[2] /\ x = <<MerkleNode(y[1], z[1]), y[2], z[3]>>
    BY SpanIs DEF AreLeaves
  <1>2. \A l \in 0..n : \A x \in T[l] :
           /\ x[2] \in Int /\ x[3] \in Int
           /\ \/ \E a \in 1..n : x = <<q[a], a, a + 1>>
              \/ \E h \in 0..(l - 1) : \E y, z \in T[h] :
                   y[3] = z[2] /\ x = <<MerkleNode(y[1], z[1]), y[2], z[3]>>
    BY SpanIs DEF AreLeaves
  <1>3. (\A a \in 1..m : \E row : p[a] = PeriodLeaf(row)) /\ (\A a \in 1..n : \E row : q[a] = PeriodLeaf(row))
    BY DEF AreLeaves
  <1> HIDE DEF m, n
  <1>4. ASSUME NEW k \in 0..m, NEW l \in 0..n,
               \A h \in 0..(k - 1) : \A i \in 0..n : Told(h, i)
        PROVE  Told(k, l)
    <2> SUFFICES ASSUME NEW x \in S[k], NEW y \in T[l], x[1] = y[1]
                 PROVE  Alike(p, x[2], x[3], q, y[2], y[3])
      OBVIOUS
    <2>0. x[1] = y[1]
      OBVIOUS
    <2> HIDE DEF Told
    <2>1. CASE \E a \in 1..m : x = <<p[a], a, a + 1>>
      <3>1. PICK a \in 1..m : x = <<p[a], a, a + 1>>
        BY <2>1
      <3>2. x[1] = p[a] /\ x[2] = a /\ x[3] = a + 1
        BY <3>1
      <3>3. PICK row : p[a] = PeriodLeaf(row)
        BY <1>3
      <3>4. CASE \E b \in 1..n : y = <<q[b], b, b + 1>>
        <4>1. PICK b \in 1..n : y = <<q[b], b, b + 1>>
          BY <3>4
        <4>2. y[1] = q[b] /\ y[2] = b /\ y[3] = b + 1
          BY <4>1
        <4>7. p[a] = q[b]
          BY <2>0, <3>2, <4>2
        <4>3. p[a] = q[b] /\ a \in Int /\ b \in Int
          BY <1>0, <4>7
        <4>4. \A e \in 0..((a + 1) - a - 1) : e = 0
          BY <4>3
        <4>5. a + 0 = a /\ b + 0 = b /\ (a + 1) - a = (b + 1) - b
          BY <4>3
        <4>6. Alike(p, a, a + 1, q, b, b + 1)
          BY <4>3, <4>4, <4>5 DEF Alike
        <4> QED
          BY <3>2, <4>2, <4>6
      <3>5. CASE \E h \in 0..(l - 1) : \E u, v \in T[h] :
                   u[3] = v[2] /\ y = <<MerkleNode(u[1], v[1]), u[2], v[3]>>
        <4>1. PICK h \in 0..(l - 1) : \E u, v \in T[h] :
                     u[3] = v[2] /\ y = <<MerkleNode(u[1], v[1]), u[2], v[3]>>
          BY <3>5
        <4>2. PICK u \in T[h], v \in T[h] : y = <<MerkleNode(u[1], v[1]), u[2], v[3]>>
          BY <4>1
        <4>3. y[1] = MerkleNode(u[1], v[1])
          BY <4>2
        <4> QED
          <5>1. PeriodLeaf(row) = MerkleNode(u[1], v[1])
            BY <2>0, <3>2, <3>3, <4>3
          <5> QED
            BY <5>1, KindsDiffer
      <3> QED
        BY <1>2, <3>4, <3>5
    <2>2. CASE \E h \in 0..(k - 1) : \E u, v \in S[h] :
                 u[3] = v[2] /\ x = <<MerkleNode(u[1], v[1]), u[2], v[3]>>
      <3>1. PICK h \in 0..(k - 1) : \E u, v \in S[h] :
                   u[3] = v[2] /\ x = <<MerkleNode(u[1], v[1]), u[2], v[3]>>
        BY <2>2
      <3>2. PICK u \in S[h], v \in S[h] : u[3] = v[2] /\ x = <<MerkleNode(u[1], v[1]), u[2], v[3]>>
        BY <3>1
      <3>3. x[1] = MerkleNode(u[1], v[1]) /\ x[2] = u[2] /\ x[3] = v[3]
        BY <3>2
      <3>4. h \in 0..m
        BY <1>0, <3>1
      <3>5. u[2] \in Int /\ u[3] \in Int /\ v[2] \in Int /\ v[3] \in Int
        BY <1>1, <3>2, <3>4
      <3>6. CASE \E b \in 1..n : y = <<q[b], b, b + 1>>
        <4>1. PICK b \in 1..n : y = <<q[b], b, b + 1>>
          BY <3>6
        <4>2. y[1] = q[b]
          BY <4>1
        <4>3. PICK row : q[b] = PeriodLeaf(row)
          BY <1>3
        <4> QED
          <5>1. PeriodLeaf(row) = MerkleNode(u[1], v[1])
            BY <2>0, <3>3, <4>2, <4>3
          <5> QED
            BY <5>1, KindsDiffer
      <3>7. CASE \E i \in 0..(l - 1) : \E w, z \in T[i] :
                   w[3] = z[2] /\ y = <<MerkleNode(w[1], z[1]), w[2], z[3]>>
        <4>1. PICK i \in 0..(l - 1) : \E w, z \in T[i] :
                     w[3] = z[2] /\ y = <<MerkleNode(w[1], z[1]), w[2], z[3]>>
          BY <3>7
        <4>2. PICK w \in T[i], z \in T[i] : w[3] = z[2] /\ y = <<MerkleNode(w[1], z[1]), w[2], z[3]>>
          BY <4>1
        <4>3. y[1] = MerkleNode(w[1], z[1]) /\ y[2] = w[2] /\ y[3] = z[3]
          BY <4>2
        <4>4. i \in 0..n
          BY <1>0, <4>1
        <4>5. w[2] \in Int /\ w[3] \in Int /\ z[2] \in Int /\ z[3] \in Int
          BY <1>2, <4>2, <4>4
        <4>6. u[1] = w[1] /\ v[1] = z[1]
          <5>1. MerkleNode(u[1], v[1]) = MerkleNode(w[1], z[1])
            BY <2>0, <3>3, <4>3
          <5> QED
            BY <5>1, KindsDiffer
        <4>7. Told(h, i)
          BY <1>4, <3>1, <4>4
        <4>8. Alike(p, u[2], u[3], q, w[2], w[3]) /\ Alike(p, v[2], v[3], q, z[2], z[3])
          BY <4>6, <4>7, <3>2, <4>2 DEF Told
        <4>9. Alike(p, u[2], v[3], q, w[2], z[3])
          BY <3>2, <3>5, <4>2, <4>5, <4>8, AlikeJoined
        <4> QED
          BY <3>3, <4>3, <4>9
      <3> QED
        BY <1>2, <3>6, <3>7
    <2> QED
      BY <1>1, <2>1, <2>2
  <1> HIDE DEF Told
  <1>5. 0 \in N
    <2>1. \A h \in 0..(0 - 1) : FALSE
      OBVIOUS
    <2>2. \A l \in 0..n : Told(0, l)
      BY <1>0, <1>4, <2>1
    <2> QED
      BY <1>0, <2>2
  <1>6. ASSUME NEW j \in Nat, j \in N PROVE j + 1 \in N
    <2> SUFFICES ASSUME NEW k \in 0..m, NEW l \in 0..n, k <= j + 1 PROVE Told(k, l)
      OBVIOUS
    <2>1. \A h \in 0..(k - 1) : h \in 0..m /\ h <= j
      BY <1>0
    <2>2. \A h \in 0..(k - 1) : \A i \in 0..n : Told(h, i)
      BY <1>6, <2>1
    <2> QED
      BY <1>4, <2>2
  <1> HIDE DEF N
  <1>7. Nat \subseteq N
    BY <1>5, <1>6, NatInductionSet
  <1>8. \A k \in 0..m : \A l \in 0..n : Told(k, l)
    BY <1>0, <1>7 DEF N
  <1> QED
    BY <1>8 DEF Told, m, n

\* The root of leaves is never the root of none.
LEMMA RootNotEmpty ==
  ASSUME NEW p, AreLeaves(p), Len(p) > 0
  PROVE  MerkleRoot(p) # MerkleEmpty
  <1>0. Len(p) \in Nat /\ IsList(p)
    BY DEF AreLeaves, IsList
  <1>1. PICK S : Spans(p, S)
    BY <1>0, SpansExist
  <1> DEFINE x == <<MerkleRoot(p), 1, Len(p) + 1>>
  <1>2. x \in S[Len(p)] /\ Len(p) \in 0..Len(p)
    BY <1>0, <1>1 DEF Spans
  <1>3. x[1] = MerkleRoot(p)
    OBVIOUS
  <1> HIDE DEF x
  <1>4. \/ \E a \in 1..Len(p) : x = <<p[a], a, a + 1>>
        \/ \E h \in 0..(Len(p) - 1) : \E y, z \in S[h] :
             y[3] = z[2] /\ x = <<MerkleNode(y[1], z[1]), y[2], z[3]>>
    BY <1>0, <1>1, <1>2, SpanIs
  <1>5. CASE \E a \in 1..Len(p) : x = <<p[a], a, a + 1>>
    <2>1. PICK a \in 1..Len(p) : x = <<p[a], a, a + 1>>
      BY <1>5
    <2>2. PICK row : p[a] = PeriodLeaf(row)
      BY DEF AreLeaves
    <2> QED
      BY <1>3, <2>1, <2>2, KindsDiffer
  <1>6. CASE \E h \in 0..(Len(p) - 1) : \E y, z \in S[h] :
               y[3] = z[2] /\ x = <<MerkleNode(y[1], z[1]), y[2], z[3]>>
    <2>1. \E y, z : x = <<MerkleNode(y[1], z[1]), y[2], z[3]>>
      BY <1>6
    <2>2. PICK y, z : x = <<MerkleNode(y[1], z[1]), y[2], z[3]>>
      BY <2>1
    <2>3. x[1] = MerkleNode(y[1], z[1])
      BY <2>2
    <2> QED
      BY <1>3, <2>3, KindsDiffer
  <1> QED
    BY <1>4, <1>5, <1>6

LEMMA RootTellsLeaves ==
  ASSUME NEW p, AreLeaves(p), NEW q, AreLeaves(q), MerkleRoot(p) = MerkleRoot(q)
  PROVE  Len(p) = Len(q) /\ \A i \in 1..Len(p) : p[i] = q[i]
  <1> DEFINE m == Len(p)
             n == Len(q)
  <1>0. m \in Nat /\ n \in Nat /\ IsList(p) /\ IsList(q)
    BY DEF AreLeaves, IsList
  <1>1. CASE m = 0 \/ n = 0
    <2>1. (m = 0 => MerkleRoot(p) = MerkleEmpty) /\ (n = 0 => MerkleRoot(q) = MerkleEmpty)
      BY <1>0, EmptyIs DEF MerkleRoot
    <2>2. m = 0 /\ n = 0
      <3>1. m > 0 => MerkleRoot(p) # MerkleEmpty
        BY RootNotEmpty
      <3>2. n > 0 => MerkleRoot(q) # MerkleEmpty
        BY RootNotEmpty
      <3> HIDE DEF m, n
      <3> QED
        BY <1>0, <1>1, <2>1, <3>1, <3>2
    <2> QED
      BY <2>2
  <1>2. CASE m > 0 /\ n > 0
    <2>1. PICK S : Spans(p, S)
      BY <1>0, <1>2, SpansExist
    <2>2. PICK T : Spans(q, T)
      BY <1>0, <1>2, SpansExist
    <2> DEFINE x == <<MerkleRoot(p), 1, m + 1>>
               y == <<MerkleRoot(q), 1, n + 1>>
    <2>3. x \in S[m] /\ y \in T[n] /\ m \in 0..m /\ n \in 0..n
      BY <1>0, <2>1, <2>2 DEF Spans
    <2>4. /\ x[1] = MerkleRoot(p) /\ x[2] = 1 /\ x[3] = m + 1
          /\ y[1] = MerkleRoot(q) /\ y[2] = 1 /\ y[3] = n + 1
      OBVIOUS
    <2> HIDE DEF x, y
    <2>5. Alike(p, x[2], x[3], q, y[2], y[3])
      BY <2>1, <2>2, <2>3, <2>4, SpansTell
    <2> HIDE DEF m, n
    <2>6. Alike(p, 1, m + 1, q, 1, n + 1)
      BY <2>4, <2>5
    <2>7. m = n /\ \A e \in 0..(m - 1) : p[1 + e] = q[1 + e]
      <3>1. (m + 1) - 1 = (n + 1) - 1 /\ (m + 1) - 1 - 1 = m - 1
        BY <1>0, <2>6 DEF Alike
      <3> QED
        BY <1>0, <2>6, <3>1 DEF Alike
    <2>8. ASSUME NEW i \in 1..m PROVE p[i] = q[i]
      <3>1. i - 1 \in 0..(m - 1) /\ 1 + (i - 1) = i
        BY <1>0
      <3> QED
        BY <2>7, <3>1
    <2> QED
      BY <2>7, <2>8 DEF m, n
  <1> QED
    BY <1>0, <1>1, <1>2

-----------------------------------------------------------------------------
(* A period: its rows, hashed.                                              *)
LeavesOf(rows) == [i \in DOMAIN rows |-> PeriodLeaf(rows[i])]

LEMMA LeavesAre ==
  ASSUME NEW rows, IsList(rows)
  PROVE  /\ AreLeaves(LeavesOf(rows)) /\ Len(LeavesOf(rows)) = Len(rows)
         /\ DOMAIN rows = 1..Len(rows)
         /\ \A i \in 1..Len(rows) : LeavesOf(rows)[i] = PeriodLeaf(rows[i])
  <1> DEFINE n == Len(rows)
             leaves == LeavesOf(rows)
  <1>1. n \in Nat /\ DOMAIN rows = 1..n
    BY DEF IsList
  <1> HIDE DEF n
  <1>2. leaves = [i \in 1..n |-> PeriodLeaf(rows[i])]
    BY <1>1 DEF LeavesOf
  <1> HIDE DEF leaves
  <1>3. leaves = [i \in 1..n |-> leaves[i]] /\ \A i \in 1..n : leaves[i] = PeriodLeaf(rows[i])
    BY <1>2
  <1>4. IsList(leaves) /\ Len(leaves) = n
    BY <1>1, <1>3, ListIs
  <1>5. AreLeaves(leaves)
    BY <1>3, <1>4 DEF AreLeaves
  <1> QED
    BY <1>1, <1>3, <1>4, <1>5 DEF leaves, n

\* Whatever the rows of a period and however many: under the period's root the
\* proof made for a row proves that row and no other (digest.js:246-272).
LEMMA RowProofExact ==
  ASSUME NEW rows, IsList(rows), NEW i \in 1..Len(rows), NEW row
  PROVE  PeriodRowVerify(row, MerkleProof(i - 1, LeavesOf(rows)), MerkleRoot(LeavesOf(rows)))
           <=> row = rows[i]
  <1> DEFINE leaves == LeavesOf(rows)
             ix == i - 1
  <1>0. Len(rows) \in Nat
    BY DEF IsList
  <1>1. IsList(leaves) /\ Len(leaves) = Len(rows) /\ leaves[i] = PeriodLeaf(rows[i])
    BY LeavesAre DEF AreLeaves
  <1>2. ix \in 0..(Len(leaves) - 1) /\ ix + 1 = i
    BY <1>0, <1>1
  <1> HIDE DEF leaves, ix
  <1>3. MerkleVerify(PeriodLeaf(row), MerkleProof(ix, leaves), MerkleRoot(leaves))
          <=> PeriodLeaf(row) = leaves[ix + 1]
    BY <1>1, <1>2, ProofIsExact
  <1>4. PeriodLeaf(row) = PeriodLeaf(rows[i]) <=> row = rows[i]
    BY KindsDiffer
  <1>5. PeriodRowVerify(row, MerkleProof(ix, leaves), MerkleRoot(leaves)) <=> row = rows[i]
    BY <1>1, <1>2, <1>3, <1>4 DEF PeriodRowVerify
  <1> QED
    BY <1>5 DEF leaves, ix

\* ... and two periods with the same root have the same rows, also where a
\* level has an odd node that is promoted (digest.js:229-243).
LEMMA RootTellsRows ==
  ASSUME NEW rows, IsList(rows), NEW other, IsList(other),
         MerkleRoot(LeavesOf(rows)) = MerkleRoot(LeavesOf(other))
  PROVE  rows = other
  <1> DEFINE n == Len(rows)
             p == LeavesOf(rows)
             q == LeavesOf(other)
  <1>1. /\ AreLeaves(p) /\ Len(p) = n /\ AreLeaves(q) /\ Len(q) = Len(other)
        /\ \A i \in 1..n : p[i] = PeriodLeaf(rows[i])
        /\ \A i \in 1..Len(other) : q[i] = PeriodLeaf(other[i])
    BY LeavesAre
  <1> HIDE DEF p, q
  <1>2. MerkleRoot(p) = MerkleRoot(q)
    BY DEF p, q
  <1>3. Len(p) = Len(q) /\ \A i \in 1..Len(p) : p[i] = q[i]
    BY <1>1, <1>2, RootTellsLeaves
  <1>4. Len(other) = n /\ \A i \in 1..n : rows[i] = other[i]
    BY <1>1, <1>3, KindsDiffer
  <1>5. rows = [i \in 1..n |-> rows[i]] /\ other = [i \in 1..n |-> other[i]]
    BY <1>4 DEF IsList
  <1> QED
    BY <1>4, <1>5
=============================================================================
