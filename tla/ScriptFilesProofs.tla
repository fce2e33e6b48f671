------------------------- MODULE ScriptFilesProofs -------------------------
(***************************************************************************)
(* Proofs about ScriptFiles for every number of runs, every set of pids,   *)
(* names and lengths of scripts, and every int: that the names of files,   *)
(* cut off as they are, tell scripts apart, and what follows from that.    *)
(***************************************************************************)
EXTENDS ScriptFiles, SequenceTheorems, FiniteSetTheorems, WellFoundedInduction, TLAPS

-----------------------------------------------------------------------------
(* Numbers.                                                                *)

LEMMA LessThanWellFounded ==
    \E R : IsWellFoundedOn(R, Nat) /\ \A x, y \in Nat : x < y => <<x, y>> \in R
<1>1. IsWellFoundedOn(OpToRel(<, Nat), Nat)
  BY NatLessThanWellFounded
<1>2. \A x, y \in Nat : x < y => <<x, y>> \in OpToRel(<, Nat)
  BY DEF OpToRel
<1> QED
  BY <1>1, <1>2, Zenon

\* The proofs about numerals look at the least number they are wrong for.
LEMMA LeastNumber ==
    ASSUME NEW T, T \subseteq Nat, T # {}
    PROVE  \E x \in T : \A y \in T : x <= y
<1>1. PICK R : IsWellFoundedOn(R, Nat) /\ \A x, y \in Nat : x < y => <<x, y>> \in R
  BY LessThanWellFounded
<1>2. IsWellFoundedOn(R, Nat)
  BY <1>1
<1>3. PICK x \in T : \A y \in T : <<y, x>> \notin R
  BY <1>2, WFMin
<1>4. \A y \in T : ~(y < x)
  BY <1>1, <1>3
<1> QED
  BY <1>4

LEMMA BaseType == Base \in Nat /\ Base >= 2
  BY ScriptFilesAssumption

LEMMA Division ==
    ASSUME NEW n \in Nat
    PROVE  /\ n \div Base \in Nat /\ n % Base \in 0..(Base - 1)
           /\ n = Base * (n \div Base) + (n % Base)
           /\ n \div Base <= n
           /\ n > 0 => n \div Base < n
<1> DEFINE q == n \div Base
           r == n % Base
<1>1. q \in Nat /\ r \in 0..(Base - 1) /\ n = Base * q + r
  BY BaseType
<1> HIDE DEF q, r
<1>2. Base * q >= 2 * q
  BY <1>1, BaseType
<1>3. q <= n /\ (n > 0 => q < n)
  BY <1>1, <1>2, BaseType
<1> QED
  BY <1>1, <1>3 DEF q, r

LEMMA DivisionMonotone ==
    ASSUME NEW m \in Nat, NEW n \in Nat, m <= n
    PROVE  m \div Base <= n \div Base
<1> DEFINE p == m \div Base
           q == n \div Base
<1>1. /\ p \in Nat /\ q \in Nat
      /\ Base * p <= m /\ n < Base * q + Base
  BY Division, BaseType
<1> HIDE DEF p, q
<1>2. SUFFICES ASSUME q + 1 <= p PROVE FALSE
  BY <1>1 DEF p, q
<1>3. Base * (q + 1) <= Base * p
  BY <1>1, <1>2, BaseType
<1>4. Base * (q + 1) = Base * q + Base
  BY <1>1, BaseType
<1> QED
  BY <1>1, <1>3, <1>4, BaseType

-----------------------------------------------------------------------------
(* Numerals. Digits is defined by a recursive function; that there is one  *)
(* has to be proved before anything can be said of it.                     *)

\* f is that function up to n.
IsDigits(f, n) ==
    f = [k \in 0..n |-> IF k < Base THEN <<k>> ELSE Append(f[k \div Base], k % Base)]

LEMMA DigitsUpTo ==
    \A n \in Nat : \E f : IsDigits(f, n)
<1> DEFINE T == {n \in Nat : ~ \E f : IsDigits(f, n)}
<1> SUFFICES ASSUME T # {} PROVE FALSE
  OBVIOUS
<1>1. PICK n \in T : \A m \in T : n <= m
  BY LeastNumber
<1>2. CASE n = 0
  <2> DEFINE f == [k \in 0..0 |-> <<k>>]
  <2>1. IsDigits(f, 0)
    BY BaseType DEF IsDigits
  <2> QED
    BY <1>1, <1>2, <2>1
<1>3. CASE n > 0
  <2>1. n - 1 \in Nat /\ n - 1 \notin T
    BY <1>1, <1>3
  <2>2. PICK f : IsDigits(f, n - 1)
    BY <2>1
  <2> DEFINE last == IF n < Base THEN <<n>> ELSE Append(f[n \div Base], n % Base)
             g == [k \in 0..n |-> IF k < n THEN f[k] ELSE last]
  <2>3. \A k \in 0..(n - 1) :
          f[k] = IF k < Base THEN <<k>> ELSE Append(f[k \div Base], k % Base)
    BY <2>2 DEF IsDigits
  <2>4. \A k \in 0..n : k >= Base => g[k \div Base] = f[k \div Base]
    <3> SUFFICES ASSUME NEW k \in 0..n, k >= Base PROVE g[k \div Base] = f[k \div Base]
      OBVIOUS
    <3>1. k \div Base \in Nat /\ k \div Base < k
      BY Division, BaseType
    <3>2. k \div Base \in 0..n /\ k \div Base < n
      BY <3>1
    <3> QED
      BY <3>2
  <2>5. g = [k \in 0..n |-> IF k < Base THEN <<k>> ELSE Append(g[k \div Base], k % Base)]
    <3>1. \A k \in 0..n :
            g[k] = IF k < Base THEN <<k>> ELSE Append(g[k \div Base], k % Base)
      <4> SUFFICES ASSUME NEW k \in 0..n
                   PROVE  g[k] = IF k < Base THEN <<k>>
                                 ELSE Append(g[k \div Base], k % Base)
        OBVIOUS
      <4>1. g[k] = IF k < n THEN f[k] ELSE last
        OBVIOUS
      <4>2. k >= Base => g[k \div Base] = f[k \div Base]
        BY <2>4
      <4>3. k < n => f[k] = IF k < Base THEN <<k>> ELSE Append(f[k \div Base], k % Base)
        BY <2>3, <1>1
      <4>4. ~(k < n) => k = n
        BY <1>1
      <4> HIDE DEF g
      <4> QED
        BY <4>1, <4>2, <4>3, <4>4, BaseType
    <3>2. g = [k \in 0..n |-> g[k]]
      OBVIOUS
    <3> HIDE DEF g
    <3> QED
      BY <3>1, <3>2
  <2>6. IsDigits(g, n)
    BY <2>5, Zenon DEF IsDigits
  <2> QED
    BY <1>1, <2>6
<1> QED
  BY <1>1, <1>2, <1>3

LEMMA DigitsAgree ==
    ASSUME NEW m \in Nat, NEW n \in Nat, NEW f, NEW g, IsDigits(f, m), IsDigits(g, n),
           NEW i \in Nat, i <= m, i <= n
    PROVE  f[i] = g[i]
<1> DEFINE T == {k \in Nat : k <= m /\ k <= n /\ f[k] # g[k]}
<1> SUFFICES ASSUME T # {} PROVE FALSE
  OBVIOUS
<1>1. PICK k \in T : \A j \in T : k <= j
  BY LeastNumber
<1>2. /\ f[k] = IF k < Base THEN <<k>> ELSE Append(f[k \div Base], k % Base)
      /\ g[k] = IF k < Base THEN <<k>> ELSE Append(g[k \div Base], k % Base)
  <2>1. k \in 0..m /\ k \in 0..n
    BY <1>1
  <2> QED
    BY <2>1 DEF IsDigits
<1>3. k >= Base
  BY <1>1, <1>2, BaseType
<1>4. k \div Base \in Nat /\ k \div Base < k
  BY <1>1, <1>3, Division, BaseType
<1>5. k \div Base \notin T
  BY <1>1, <1>4
<1>6. f[k \div Base] = g[k \div Base]
  BY <1>1, <1>4, <1>5
<1> QED
  BY <1>1, <1>2, <1>6

LEMMA DigitsRecursion ==
    ASSUME NEW n \in Nat
    PROVE  Digits(n) = IF n < Base THEN <<n>>
                       ELSE Append(Digits(n \div Base), n % Base)
<1> DEFINE Is(d) == d = [k \in Nat |-> IF k < Base THEN <<k>>
                                       ELSE Append(d[k \div Base], k % Base)]
           up == [k \in Nat |-> CHOOSE f : IsDigits(f, k)]
           d0 == [k \in Nat |-> up[k][k]]
<1>1. \A k \in Nat : IsDigits(up[k], k)
  BY DigitsUpTo
<1>2. \A k \in Nat : d0[k] = IF k < Base THEN <<k>> ELSE Append(d0[k \div Base], k % Base)
  <2> SUFFICES ASSUME NEW k \in Nat
               PROVE  d0[k] = IF k < Base THEN <<k>> ELSE Append(d0[k \div Base], k % Base)
    OBVIOUS
  <2> DEFINE q == k \div Base
  <2>1. q \in Nat /\ q <= k
    BY Division
  <2>2. IsDigits(up[k], k) /\ IsDigits(up[q], q)
    BY <1>1, <2>1
  <2> HIDE DEF up, q
  <2>3. up[k][q] = up[q][q]
    BY <2>1, <2>2, DigitsAgree
  <2>4. up[k][k] = IF k < Base THEN <<k>> ELSE Append(up[k][q], k % Base)
    <3>1. k \in 0..k
      OBVIOUS
    <3> QED
      BY <2>2, <3>1 DEF IsDigits, q
  <2>5. d0[k] = up[k][k] /\ d0[q] = up[q][q]
    BY <2>1
  <2> HIDE DEF d0
  <2> QED
    BY <2>3, <2>4, <2>5 DEF q
<1>3. Is(d0)
  <2>1. d0 = [k \in Nat |-> d0[k]]
    OBVIOUS
  <2> HIDE DEF d0
  <2> QED
    BY <1>2, <2>1
<1> DEFINE d == CHOOSE x : Is(x)
<1>4. Is(d)
  <2> HIDE DEF Is, d0
  <2> QED
    BY <1>3
<1>5. \A k \in Nat : Digits(k) = d[k]
  BY DEF Digits
<1>6. d[n] = IF n < Base THEN <<n>> ELSE Append(d[n \div Base], n % Base)
  <2> HIDE DEF d
  <2> QED
    BY <1>4
<1> HIDE DEF d
<1> QED
  BY <1>5, <1>6, Division

Digit == 0..(Base - 1)

LEMMA AppendOne ==
    ASSUME NEW S, NEW q \in Seq(S), NEW a \in S
    PROVE  /\ Append(q, a) \in Seq(S)
           /\ Len(Append(q, a)) = Len(q) + 1 /\ Len(q) \in Nat
           /\ Append(q, a)[Len(q) + 1] = a
           /\ \A i \in 1..Len(q) : Append(q, a)[i] = q[i]
  OBVIOUS

LEMMA DigitsOf ==
    ASSUME NEW n \in Nat
    PROVE  /\ n < Base => Digits(n) = <<n>> /\ n \in Digit
           /\ n >= Base => /\ Digits(n) = Append(Digits(n \div Base), n % Base)
                           /\ n \div Base \in Nat /\ n \div Base < n /\ n % Base \in Digit
<1>1. Digits(n) = IF n < Base THEN <<n>> ELSE Append(Digits(n \div Base), n % Base)
  BY DigitsRecursion
<1>2. n \div Base \in Nat /\ n % Base \in Digit /\ (n > 0 => n \div Base < n)
  BY Division DEF Digit
<1>3. n < Base => n \in Digit
  BY BaseType DEF Digit
<1>4. n >= Base => ~(n < Base) /\ n > 0
  BY BaseType
<1> QED
  BY <1>1, <1>2, <1>3, <1>4

LEMMA DigitsType ==
    \A n \in Nat : Digits(n) \in Seq(Digit) /\ Len(Digits(n)) \in Nat \ {0}
<1> DEFINE T == {n \in Nat : Digits(n) \notin Seq(Digit) \/ Len(Digits(n)) \notin Nat \ {0}}
<1> SUFFICES ASSUME T # {} PROVE FALSE
  OBVIOUS
<1>1. PICK n \in T : \A m \in T : n <= m
  BY LeastNumber
<1>2. n \in Nat /\ (Digits(n) \notin Seq(Digit) \/ Len(Digits(n)) \notin Nat \ {0})
  BY <1>1
<1>3. CASE n < Base
  <2>1. Digits(n) = <<n>> /\ n \in Digit
    BY <1>2, <1>3, DigitsOf
  <2> QED
    BY <1>2, <2>1
<1>4. CASE n >= Base
  <2> DEFINE q == n \div Base
  <2>1. /\ Digits(n) = Append(Digits(q), n % Base)
        /\ q \in Nat /\ q < n /\ n % Base \in Digit
    BY <1>2, <1>4, DigitsOf
  <2>2. q \notin T
    BY <1>1, <1>2, <2>1
  <2>3. Digits(q) \in Seq(Digit)
    BY <2>1, <2>2
  <2> QED
    BY <1>2, <2>1, <2>3, AppendOne
<1> QED
  BY <1>2, <1>3, <1>4, BaseType

\* What a numeral of several digits is made of.
LEMMA LongNumeral ==
    ASSUME NEW n \in Nat, n >= Base
    PROVE  /\ n \div Base \in Nat /\ n \div Base < n
           /\ Len(Digits(n)) = Len(Digits(n \div Base)) + 1
           /\ Digits(n)[Len(Digits(n))] = n % Base
           /\ \A i \in 1..Len(Digits(n \div Base)) : Digits(n)[i] = Digits(n \div Base)[i]
<1>1. n \div Base \in Nat /\ n \div Base < n /\ n % Base \in Digit
  BY DigitsOf
<1>2. Digits(n) = Append(Digits(n \div Base), n % Base)
  BY DigitsOf
<1>3. Digits(n \div Base) \in Seq(Digit)
  BY <1>1, DigitsType
<1> QED
  BY <1>1, <1>2, <1>3, AppendOne

LEMMA ShortNumeral ==
    ASSUME NEW n \in Nat, n < Base
    PROVE  Digits(n) = <<n>> /\ Len(Digits(n)) = 1 /\ Digits(n)[1] = n
<1>1. Digits(n) = <<n>>
  BY DigitsOf
<1> QED
  BY <1>1

LEMMA SameSequence ==
    ASSUME NEW S, NEW q \in Seq(S), NEW r \in Seq(S), Len(q) = Len(r),
           \A i \in 1..Len(q) : q[i] = r[i]
    PROVE  q = r
  OBVIOUS

\* Two numbers with the same numeral, as %d and %lu print it, are the same number.
LEMMA DigitsInjective ==
    \A m, n \in Nat : Digits(m) = Digits(n) => m = n
<1> DEFINE T == {n \in Nat : \E m \in Nat : m # n /\ Digits(m) = Digits(n)}
<1> SUFFICES ASSUME T # {} PROVE FALSE
  OBVIOUS
<1>1. PICK n \in T : \A k \in T : n <= k
  BY LeastNumber
<1>2. PICK m \in Nat : m # n /\ Digits(m) = Digits(n)
  BY <1>1
<1>3. m \in T /\ n < m /\ n \in Nat
  BY <1>1, <1>2
<1>4. CASE m < Base
  <2>1. n < Base
    BY <1>2, <1>3, <1>4, BaseType
  <2>2. Digits(m)[1] = m /\ Digits(n)[1] = n
    BY <1>2, <1>3, <1>4, <2>1, ShortNumeral
  <2> QED
    BY <1>2, <2>2
<1>5. CASE n < Base /\ m >= Base
  <2>1. Len(Digits(n)) = 1
    BY <1>3, <1>5, ShortNumeral
  <2>2. m \div Base \in Nat /\ Len(Digits(m)) = Len(Digits(m \div Base)) + 1
    BY <1>2, <1>5, LongNumeral
  <2> DEFINE l == Len(Digits(m \div Base))
  <2>3. l \in Nat /\ l # 0
    BY <2>2, DigitsType
  <2>4. Len(Digits(m)) = 1
    BY <1>2, <2>1
  <2>5. l + 1 = 1
    BY <2>2, <2>4
  <2> HIDE DEF T, l
  <2> QED
    BY <2>3, <2>5
<1>6. CASE n >= Base /\ m >= Base
  <2> DEFINE p == m \div Base
             q == n \div Base
  <2>1. p \in Nat /\ q \in Nat /\ q < n
    BY <1>3, <1>6, Division, BaseType
  <2>2. /\ Len(Digits(n)) = Len(Digits(q)) + 1 /\ Digits(n)[Len(Digits(n))] = n % Base
        /\ \A i \in 1..Len(Digits(q)) : Digits(n)[i] = Digits(q)[i]
    BY <1>3, <1>6, LongNumeral
  <2>3. /\ Len(Digits(m)) = Len(Digits(p)) + 1 /\ Digits(m)[Len(Digits(m))] = m % Base
        /\ \A i \in 1..Len(Digits(p)) : Digits(m)[i] = Digits(p)[i]
    BY <1>3, <1>6, LongNumeral
  <2>4. /\ Digits(p) \in Seq(Digit) /\ Len(Digits(p)) \in Nat
        /\ Digits(q) \in Seq(Digit) /\ Len(Digits(q)) \in Nat
    BY <2>1, DigitsType
  <2>5. Digits(p) = Digits(q) /\ m % Base = n % Base
    <3> HIDE DEF p, q
    <3>1. Len(Digits(p)) = Len(Digits(q)) /\ m % Base = n % Base
      BY <1>2, <2>2, <2>3, <2>4
    <3>2. \A i \in 1..Len(Digits(p)) : Digits(p)[i] = Digits(q)[i]
      BY <1>2, <2>2, <2>3, <3>1
    <3> QED
      BY <2>4, <3>1, <3>2, SameSequence
  <2>6. q \notin T
    BY <1>1, <2>1
  <2>7. p = q
    BY <2>1, <2>5, <2>6
  <2>8. m = Base * p + (m % Base) /\ n = Base * q + (n % Base)
    BY <1>3, Division
  <2> QED
    BY <1>2, <2>5, <2>7, <2>8
<1> QED
  BY <1>3, <1>4, <1>5, <1>6, BaseType

\* A larger number does not have fewer digits.
LEMMA DigitsMonotone ==
    \A m, n \in Nat : m <= n => Len(Digits(m)) <= Len(Digits(n))
<1> DEFINE T == {n \in Nat : \E m \in Nat : m <= n /\ ~(Len(Digits(m)) <= Len(Digits(n)))}
<1> SUFFICES ASSUME T # {} PROVE FALSE
  OBVIOUS
<1>1. PICK n \in T : \A k \in T : n <= k
  BY LeastNumber
<1>2. PICK m \in Nat : m <= n /\ ~(Len(Digits(m)) <= Len(Digits(n)))
  BY <1>1
<1>3. Len(Digits(m)) \in Nat \ {0} /\ Len(Digits(n)) \in Nat \ {0} /\ n \in Nat
  BY <1>1, <1>2, DigitsType
<1>4. CASE m < Base
  <2>1. Len(Digits(m)) = 1
    BY <1>2, <1>4, ShortNumeral
  <2> QED
    BY <1>2, <1>3, <2>1
<1>5. CASE m >= Base
  <2> DEFINE p == m \div Base
             q == n \div Base
  <2>1. n >= Base
    BY <1>2, <1>3, <1>5, BaseType
  <2>2. p \in Nat /\ q \in Nat /\ q < n /\ p <= q
    BY <1>2, <1>3, <1>5, <2>1, Division, DivisionMonotone, BaseType
  <2>3. Len(Digits(n)) = Len(Digits(q)) + 1 /\ Len(Digits(m)) = Len(Digits(p)) + 1
    BY <1>2, <1>3, <1>5, <2>1, LongNumeral
  <2>4. Len(Digits(p)) \in Nat /\ Len(Digits(q)) \in Nat
    BY <2>2, DigitsType
  <2>5. q \notin T
    BY <1>1, <2>2
  <2>6. Len(Digits(p)) <= Len(Digits(q))
    BY <2>2, <2>5
  <2> QED
    BY <1>2, <2>3, <2>4, <2>6
<1> QED
  BY <1>2, <1>4, <1>5, BaseType

-----------------------------------------------------------------------------
(* Names of files.                                                         *)

LEMMA Joined ==
    ASSUME NEW S, NEW q \in Seq(S), NEW r \in Seq(S)
    PROVE  /\ q \o r \in Seq(S) /\ Len(q) \in Nat /\ Len(r) \in Nat
           /\ Len(q \o r) = Len(q) + Len(r)
           /\ \A i \in 1..Len(q) : (q \o r)[i] = q[i]
           /\ \A i \in 1..Len(r) : (q \o r)[Len(q) + i] = r[i]
<1>1. \A i \in 1..Len(r) : Len(q) + i \in (Len(q) + 1)..(Len(q) + Len(r))
  OBVIOUS
<1> QED
  BY <1>1, ConcatProperties

\* The same, of numbers.
LEMMA JoinedNumbers ==
    ASSUME NEW q \in Seq(Nat), NEW r \in Seq(Nat)
    PROVE  /\ q \o r \in Seq(Nat) /\ Len(q) \in Nat /\ Len(r) \in Nat
           /\ Len(q \o r) = Len(q) + Len(r)
           /\ \A i \in 1..Len(q) : (q \o r)[i] = q[i]
           /\ \A i \in 1..Len(r) : (q \o r)[Len(q) + i] = r[i]
<1>1. \A i \in 1..Len(r) : Len(q) + i \in (Len(q) + 1)..(Len(q) + Len(r))
  OBVIOUS
<1> QED
  BY <1>1, ConcatProperties

LEMMA JoinedOne ==
    ASSUME NEW q \in Seq(Nat), NEW x \in Nat
    PROVE  /\ q \o <<x>> \in Seq(Nat) /\ Len(q) \in Nat
           /\ Len(q \o <<x>>) = Len(q) + 1
           /\ \A i \in 1..Len(q) : (q \o <<x>>)[i] = q[i]
           /\ (q \o <<x>>)[Len(q) + 1] = x
<1> DEFINE r == <<x>>
<1>1. r \in Seq(Nat) /\ Len(r) = 1 /\ r[1] = x /\ 1 \in 1..1
  OBVIOUS
<1> HIDE DEF r
<1>2. /\ q \o r \in Seq(Nat) /\ Len(q) \in Nat
      /\ Len(q \o r) = Len(q) + Len(r)
      /\ \A i \in 1..Len(q) : (q \o r)[i] = q[i]
      /\ \A i \in 1..Len(r) : (q \o r)[Len(q) + i] = r[i]
  BY <1>1, JoinedNumbers
<1>3. (q \o r)[Len(q) + 1] = x
  BY <1>1, <1>2
<1> QED
  BY <1>1, <1>2, <1>3, Zenon DEF r

LEMMA Larger ==
    ASSUME NEW S, NEW T, S \subseteq T, NEW q \in Seq(S)
    PROVE  q \in Seq(T)
<1>1. q \in [1..Len(q) -> S] /\ Len(q) \in Nat
  OBVIOUS
<1>2. q \in [1..Len(q) -> T]
  BY <1>1
<1> QED
  BY <1>1, <1>2

LEMMA CutOffFacts ==
    ASSUME NEW S, NEW s \in Seq(S), NEW size \in Nat
    PROVE  /\ CutOff(s, size) \in Seq(S)
           /\ Len(CutOff(s, size)) = IF Len(s) <= size THEN Len(s) ELSE size
           /\ \A i \in 1..Len(CutOff(s, size)) : CutOff(s, size)[i] = s[i]
<1>1. CASE Len(s) <= size
  BY <1>1 DEF CutOff
<1>2. CASE ~(Len(s) <= size)
  <2>1. Len(s) \in Nat /\ 1 \in 1..(Len(s) + 1) /\ size \in (1 - 1)..Len(s)
    BY <1>2
  <2>2. /\ SubSeq(s, 1, size) \in Seq(S) /\ Len(SubSeq(s, 1, size)) = size
        /\ \A i \in 1..size : SubSeq(s, 1, size)[i] = s[i]
    BY <1>2, <2>1
  <2> QED
    BY <1>2, <2>2 DEF CutOff
<1> QED
  BY <1>1, <1>2

\* The digits of the pid and the counter in a name.
PidLen(pid) == Len(Digits(pid))
NumbersLen(pid, k) == PidLen(pid) + 1 + Len(Digits(k))

LEMMA NumbersFacts ==
    ASSUME NEW pid \in Nat, NEW k \in Nat
    PROVE  LET s == Numbers(pid, k)
           IN  /\ s \in Seq(Nat) /\ Len(s) = NumbersLen(pid, k)
               /\ PidLen(pid) \in Nat \ {0} /\ Len(Digits(k)) \in Nat \ {0}
               /\ \A i \in 1..PidLen(pid) : s[i] = Digits(pid)[i] /\ s[i] \in Digit
               /\ s[PidLen(pid) + 1] = Underscore
               /\ \A i \in 1..Len(Digits(k)) :
                    s[PidLen(pid) + 1 + i] = Digits(k)[i] /\ Digits(k)[i] \in Digit
<1> DEFINE a == Digits(pid)
           u == <<Underscore>>
           c == Digits(k)
           au == a \o u
<1>1. /\ a \in Seq(Digit) /\ c \in Seq(Digit)
      /\ Len(a) \in Nat \ {0} /\ Len(c) \in Nat \ {0}
  BY DigitsType
<1>2. Digit \subseteq Nat /\ Underscore \in Nat
  BY BaseType DEF Digit, Underscore
<1>3. a \in Seq(Nat) /\ c \in Seq(Nat)
  BY <1>1, <1>2, Larger, Zenon
<1>4. /\ \A i \in 1..Len(a) : a[i] \in Digit
      /\ \A i \in 1..Len(c) : c[i] \in Digit
  BY <1>1
<1> HIDE DEF a, c
<1>6. /\ au \in Seq(Nat) /\ Len(au) = Len(a) + 1
      /\ \A i \in 1..Len(a) : au[i] = a[i]
      /\ au[Len(a) + 1] = Underscore
  BY <1>2, <1>3, JoinedOne, Zenon
<1> HIDE DEF au
<1>7. /\ au \o c \in Seq(Nat) /\ Len(au \o c) = Len(au) + Len(c)
      /\ \A i \in 1..Len(au) : (au \o c)[i] = au[i]
      /\ \A i \in 1..Len(c) : (au \o c)[Len(au) + i] = c[i]
  BY <1>3, <1>6, JoinedNumbers, Zenon
<1>8. Numbers(pid, k) = au \o c
  BY DEF Numbers, au, a, u, c
<1>9. PidLen(pid) = Len(a) /\ NumbersLen(pid, k) = Len(a) + 1 + Len(c)
  BY DEF PidLen, NumbersLen, a, c
<1>10. /\ \A i \in 1..Len(a) : (au \o c)[i] = a[i]
       /\ (au \o c)[Len(a) + 1] = Underscore
       /\ \A i \in 1..Len(c) : (au \o c)[Len(a) + 1 + i] = c[i]
  BY <1>1, <1>6, <1>7, SMTT(20)
<1> QED
  BY <1>1, <1>4, <1>6, <1>7, <1>8, <1>9, <1>10 DEF a, c

LEMMA RoomFacts ==
    ASSUME NEW name \in Names, NEW pid \in Pids
    PROVE  /\ pid \in Nat /\ Len(name) \in Nat /\ name \in Seq(Nat)
           /\ Room(name) \in Nat /\ Room(name) >= PidLen(pid) + 2
<1>1. pid \in 1..IntMax /\ IntMax \in Nat /\ name \in Seq(Nat)
  BY ScriptFilesAssumption
<1>2. pid \in Nat /\ pid <= IntMax /\ Len(name) \in Nat
  BY <1>1
<1>3. /\ Len(Digits(pid)) <= Len(Digits(IntMax))
      /\ Len(Digits(pid)) \in Nat /\ Len(Digits(IntMax)) \in Nat
  BY <1>1, <1>2, DigitsMonotone, DigitsType
<1> QED
  BY <1>1, <1>2, <1>3 DEF Room, PidSize, PidLen

\* What is left of the numbers in a name: the pid always, and the counter unless
\* it is cut off; behind them is a dot or nothing.
LEMMA CreateNameFacts ==
    ASSUME NEW name \in Names, NEW pid \in Pids, NEW k \in Nat
    PROVE  LET p == CreateName(name, pid, k)
           IN  /\ p \in Seq(Nat) /\ Len(p) >= PidLen(pid) + 2
               /\ \A i \in 1..PidLen(pid) : p[i] = Digits(pid)[i] /\ p[i] \in Digit
               /\ p[PidLen(pid) + 1] = Underscore
               /\ NumbersLen(pid, k) <= Room(name) =>
                    /\ Len(p) >= NumbersLen(pid, k)
                    /\ \A i \in 1..Len(Digits(k)) : p[PidLen(pid) + 1 + i] = Digits(k)[i]
                    /\ Len(p) > NumbersLen(pid, k) => p[NumbersLen(pid, k) + 1] = Dot
<1> DEFINE n == Numbers(pid, k)
           d == <<Dot>>
           nd == n \o d
           s == nd \o name
           p == CreateName(name, pid, k)
           l == PidLen(pid)
           c == Len(Digits(k))
<1>1. /\ pid \in Nat /\ Len(name) \in Nat /\ name \in Seq(Nat)
      /\ Room(name) \in Nat /\ Room(name) >= l + 2
  BY RoomFacts
<1>2. /\ n \in Seq(Nat) /\ Len(n) = NumbersLen(pid, k)
      /\ l \in Nat \ {0} /\ c \in Nat \ {0}
      /\ \A i \in 1..l : n[i] = Digits(pid)[i] /\ n[i] \in Digit
      /\ n[l + 1] = Underscore
      /\ \A i \in 1..c : n[l + 1 + i] = Digits(k)[i]
  <2>1. /\ Numbers(pid, k) \in Seq(Nat) /\ Len(Numbers(pid, k)) = NumbersLen(pid, k)
        /\ PidLen(pid) \in Nat \ {0} /\ Len(Digits(k)) \in Nat \ {0}
        /\ \A i \in 1..PidLen(pid) :
             Numbers(pid, k)[i] = Digits(pid)[i] /\ Numbers(pid, k)[i] \in Digit
        /\ Numbers(pid, k)[PidLen(pid) + 1] = Underscore
        /\ \A i \in 1..Len(Digits(k)) :
             /\ Numbers(pid, k)[PidLen(pid) + 1 + i] = Digits(k)[i]
             /\ Digits(k)[i] \in Digit
    BY <1>1, NumbersFacts
  <2> QED
    BY <2>1
<1>3. NumbersLen(pid, k) = l + 1 + c
  BY DEF NumbersLen
<1>4. Dot \in Nat
  BY BaseType DEF Dot
<1> HIDE DEF n, l, c
<1>5. /\ nd \in Seq(Nat) /\ Len(nd) = Len(n) + 1
      /\ \A i \in 1..Len(n) : nd[i] = n[i]
      /\ nd[Len(n) + 1] = Dot
  BY <1>2, <1>4, JoinedOne, Zenon
<1> HIDE DEF nd
<1>6. /\ s \in Seq(Nat) /\ Len(s) = Len(nd) + Len(name)
      /\ \A i \in 1..Len(nd) : s[i] = nd[i]
  BY <1>1, <1>5, JoinedNumbers, Zenon
<1>7. p = CutOff(s, Room(name))
  BY DEF CreateName, s, nd, n
<1> HIDE DEF s, p
<1>8. /\ p \in Seq(Nat) /\ Len(p) = IF Len(s) <= Room(name) THEN Len(s) ELSE Room(name)
      /\ \A i \in 1..Len(p) : p[i] = s[i]
  BY <1>1, <1>6, <1>7, CutOffFacts
<1>9. /\ Len(s) = l + 1 + c + 1 + Len(name) /\ Len(p) >= l + 2
      /\ Len(p) \in Nat
  <2>1. l \in Nat /\ c \in Nat /\ c >= 1
    BY <1>2
  <2>2. Len(s) = l + 1 + c + 1 + Len(name)
    BY <1>1, <1>2, <1>3, <1>5, <1>6
  <2> QED
    BY <1>1, <1>8, <2>1, <2>2
<1>10. \A i \in 1..Len(n) : i <= Len(p) => p[i] = n[i]
  <2> SUFFICES ASSUME NEW i \in 1..Len(n), i <= Len(p) PROVE p[i] = n[i]
    OBVIOUS
  <2>1. i \in 1..Len(p) /\ i \in 1..Len(nd)
    BY <1>2, <1>3, <1>5, <1>9
  <2> QED
    BY <1>5, <1>6, <1>8, <2>1
<1>11. /\ \A i \in 1..l : p[i] = n[i]
       /\ p[l + 1] = Underscore
  <2>1. \A i \in 1..(l + 1) : i \in 1..Len(n) /\ i <= Len(p)
    BY <1>2, <1>3, <1>9
  <2>2. \A i \in 1..(l + 1) : p[i] = n[i]
    BY <1>10, <2>1
  <2> QED
    BY <1>2, <2>2
<1>12. ASSUME NumbersLen(pid, k) <= Room(name)
       PROVE  /\ Len(p) >= NumbersLen(pid, k)
              /\ \A i \in 1..c : p[l + 1 + i] = Digits(k)[i]
              /\ Len(p) > NumbersLen(pid, k) => p[NumbersLen(pid, k) + 1] = Dot
  <2>1. Len(p) >= l + 1 + c
    BY <1>1, <1>2, <1>3, <1>8, <1>9, <1>12
  <2>2. \A i \in 1..c : l + 1 + i \in 1..Len(n) /\ l + 1 + i <= Len(p)
    BY <1>2, <1>3, <1>9, <2>1
  <2>3. \A i \in 1..c : p[l + 1 + i] = Digits(k)[i]
    BY <1>2, <1>10, <2>2
  <2>4. Len(p) > l + 1 + c => p[l + 1 + c + 1] = Dot
    <3> SUFFICES ASSUME Len(p) > l + 1 + c PROVE p[l + 1 + c + 1] = Dot
      OBVIOUS
    <3>1. Len(n) = l + 1 + c /\ l + 1 + c + 1 \in 1..Len(p) /\ l + 1 + c + 1 \in 1..Len(nd)
      BY <1>2, <1>3, <1>5, <1>9
    <3> QED
      BY <1>5, <1>6, <1>8, <3>1
  <2> QED
    BY <1>3, <2>1, <2>3, <2>4
<1> QED
  BY <1>2, <1>8, <1>9, <1>11, <1>12 DEF p, l, c

\* However long the name of the rule is and wherever the path is cut off,
\* create_name_frompid gives runs with different pids different paths.
THEOREM PathTellsPid ==
    ASSUME NEW m \in Names, NEW p \in Pids, NEW j \in Nat,
           NEW n \in Names, NEW q \in Pids, NEW k \in Nat,
           CreateName(m, p, j) = CreateName(n, q, k)
    PROVE  p = q
<1> DEFINE x == CreateName(m, p, j)
           a == PidLen(p)
           b == PidLen(q)
<1>1. /\ \A i \in 1..a : x[i] = Digits(p)[i] /\ x[i] \in Digit
      /\ x[a + 1] = Underscore
      /\ \A i \in 1..b : x[i] = Digits(q)[i] /\ x[i] \in Digit
      /\ x[b + 1] = Underscore
  <2> DEFINE y == CreateName(n, q, k)
  <2>1. /\ \A i \in 1..a : x[i] = Digits(p)[i] /\ x[i] \in Digit
        /\ x[a + 1] = Underscore
    BY CreateNameFacts
  <2>2. /\ \A i \in 1..b : y[i] = Digits(q)[i] /\ y[i] \in Digit
        /\ y[b + 1] = Underscore
    BY CreateNameFacts
  <2>3. x = y
    OBVIOUS
  <2> HIDE DEF x, y, a, b
  <2> QED
    BY <2>1, <2>2, <2>3
<1>2. p \in Nat /\ q \in Nat
  BY RoomFacts
<1>3. a \in Nat /\ b \in Nat /\ Digits(p) \in Seq(Digit) /\ Digits(q) \in Seq(Digit)
  BY <1>2, DigitsType DEF PidLen
<1>4. Underscore \notin Digit
  BY BaseType DEF Underscore, Digit
<1> HIDE DEF x
<1>5. a = b
  <2>1. ~(a < b)
    <3>1. a < b => a + 1 \in 1..b
      BY <1>3
    <3> QED
      BY <1>1, <1>4, <3>1
  <2>2. ~(b < a)
    <3>1. b < a => b + 1 \in 1..a
      BY <1>3
    <3> QED
      BY <1>1, <1>4, <3>1
  <2> HIDE DEF a, b
  <2> QED
    BY <1>3, <2>1, <2>2
<1>6. Digits(p) = Digits(q)
  <2>1. \A i \in 1..a : Digits(p)[i] = Digits(q)[i]
    BY <1>1, <1>5
  <2> QED
    BY <1>3, <1>5, <2>1, SameSequence DEF PidLen
<1> QED
  BY <1>2, <1>6, DigitsInjective

\* It gives one run two paths for two values of script_counter, whatever the names,
\* where both counters are left whole.
THEOREM PathTellsCounter ==
    ASSUME NEW m \in Names, NEW p \in Pids, NEW j \in Nat, NEW n \in Names, NEW k \in Nat,
           NumbersLen(p, j) <= Room(m), NumbersLen(p, k) <= Room(n),
           CreateName(m, p, j) = CreateName(n, p, k)
    PROVE  j = k
<1> DEFINE x == CreateName(m, p, j)
           l == PidLen(p)
           a == Len(Digits(j))
           b == Len(Digits(k))
<1>1. p \in Nat
  BY RoomFacts
<1>2. /\ \A i \in 1..a : Digits(j)[i] \in Digit
      /\ \A i \in 1..b : Digits(k)[i] \in Digit
      /\ l \in Nat /\ a \in Nat /\ b \in Nat
  BY <1>1, NumbersFacts
<1>3. /\ NumbersLen(p, j) = l + 1 + a /\ NumbersLen(p, k) = l + 1 + b
      /\ Digits(j) \in Seq(Digit) /\ Digits(k) \in Seq(Digit)
  BY DigitsType DEF NumbersLen
<1>4. /\ Len(x) \in Nat /\ Len(x) >= l + 1 + a /\ Len(x) >= l + 1 + b
      /\ \A i \in 1..a : x[l + 1 + i] = Digits(j)[i]
      /\ Len(x) > l + 1 + a => x[l + 1 + a + 1] = Dot
      /\ \A i \in 1..b : x[l + 1 + i] = Digits(k)[i]
      /\ Len(x) > l + 1 + b => x[l + 1 + b + 1] = Dot
  <2>1. x \in Seq(Nat)
    BY CreateNameFacts
  <2>2. Len(x) \in Nat
    BY <2>1
  <2>3. /\ Len(x) >= NumbersLen(p, j)
        /\ \A i \in 1..a : x[l + 1 + i] = Digits(j)[i]
        /\ Len(x) > NumbersLen(p, j) => x[NumbersLen(p, j) + 1] = Dot
    BY CreateNameFacts
  <2>4. /\ Len(x) >= NumbersLen(p, k)
        /\ \A i \in 1..b : x[l + 1 + i] = Digits(k)[i]
        /\ Len(x) > NumbersLen(p, k) => x[NumbersLen(p, k) + 1] = Dot
    <3> DEFINE y == CreateName(n, p, k)
    <3>1. /\ Len(y) >= NumbersLen(p, k)
          /\ \A i \in 1..b : y[l + 1 + i] = Digits(k)[i]
          /\ Len(y) > NumbersLen(p, k) => y[NumbersLen(p, k) + 1] = Dot
      BY CreateNameFacts
    <3>2. x = y
      OBVIOUS
    <3> HIDE DEF x, y
    <3> QED
      BY <3>1, <3>2
  <2> HIDE DEF x, l, a, b
  <2> QED
    BY <1>3, <2>2, <2>3, <2>4
<1>5. Dot \notin Digit
  BY BaseType DEF Dot, Digit
<1> HIDE DEF x, l, a, b
<1>6. ~(a < b)
  <2> SUFFICES ASSUME a < b PROVE FALSE
    OBVIOUS
  <2>1. a + 1 \in 1..b /\ Len(x) > l + 1 + a /\ l + 1 + a + 1 = l + 1 + (a + 1)
    BY <1>2, <1>4
  <2> QED
    BY <1>2, <1>4, <1>5, <2>1
<1>7. ~(b < a)
  <2> SUFFICES ASSUME b < a PROVE FALSE
    OBVIOUS
  <2>1. b + 1 \in 1..a /\ Len(x) > l + 1 + b /\ l + 1 + b + 1 = l + 1 + (b + 1)
    BY <1>2, <1>4
  <2> QED
    BY <1>2, <1>4, <1>5, <2>1
<1>8. a = b
  BY <1>2, <1>6, <1>7
<1>9. \A i \in 1..a : Digits(j)[i] = Digits(k)[i]
  BY <1>4, <1>8
<1>10. Digits(j) = Digits(k)
  BY <1>3, <1>8, <1>9, SameSequence DEF a, b
<1> QED
  BY <1>10, DigitsInjective

-----------------------------------------------------------------------------
(* The invariant.                                                          *)

\* x is one of the names a run with this pid gives the file of this counter.
NameOf(x, pid, k) == \E name \in Names : x = CreateName(name, pid, k)

\* The counter is cut off in none of them.
Fits(pid, k) == \A name \in Names : NumbersLen(pid, k) <= Room(name)

LEMMA NameType ==
    ASSUME NEW x, NEW p \in Pids, NEW k \in Nat, NameOf(x, p, k)
    PROVE  x \in Seq(Nat) /\ x # NoPath
<1>1. PICK name \in Names : x = CreateName(name, p, k)
  BY DEF NameOf
<1>2. CreateName(name, p, k) \in Seq(Nat)
  BY CreateNameFacts
<1> QED
  BY <1>1, <1>2, ScriptFilesAssumption

LEMMA NamePid ==
    ASSUME NEW x, NEW p \in Pids, NEW j \in Nat, NEW q \in Pids, NEW k \in Nat,
           NameOf(x, p, j), NameOf(x, q, k)
    PROVE  p = q
<1>1. PICK m \in Names, n \in Names : x = CreateName(m, p, j) /\ x = CreateName(n, q, k)
  BY DEF NameOf
<1>2. CreateName(m, p, j) = CreateName(n, q, k)
  BY <1>1
<1> QED
  BY <1>2, PathTellsPid

LEMMA NameCounter ==
    ASSUME NEW x, NEW p \in Pids, NEW j \in Nat, NEW k \in Nat,
           NameOf(x, p, j), NameOf(x, p, k), Fits(p, j), Fits(p, k)
    PROVE  j = k
<1>1. PICK m \in Names, n \in Names : x = CreateName(m, p, j) /\ x = CreateName(n, p, k)
  BY DEF NameOf
<1>2. CreateName(m, p, j) = CreateName(n, p, k)
  BY <1>1
<1>3. NumbersLen(p, j) <= Room(m) /\ NumbersLen(p, k) <= Room(n)
  BY DEF Fits
<1> QED
  BY <1>2, <1>3, PathTellsCounter

\* What fits did fit for every earlier counter.
LEMMA FitsBefore ==
    ASSUME NEW p \in Pids, NEW j \in Nat, NEW k \in Nat, j <= k, Fits(p, k)
    PROVE  Fits(p, j)
<1>1. p \in Nat
  BY ScriptFilesAssumption
<1>2. /\ Len(Digits(j)) <= Len(Digits(k))
      /\ Len(Digits(j)) \in Nat /\ Len(Digits(k)) \in Nat /\ PidLen(p) \in Nat
  BY <1>1, DigitsMonotone, DigitsType DEF PidLen
<1>3. SUFFICES ASSUME NEW name \in Names PROVE NumbersLen(p, j) <= Room(name)
  BY DEF Fits
<1>4. NumbersLen(p, k) <= Room(name) /\ Room(name) \in Nat
  BY RoomFacts DEF Fits
<1> QED
  BY <1>2, <1>4 DEF NumbersLen

MbRecord == [state : {"new", "live", "dead"}, pid : Pids \cup {NoPid},
             counter : Nat, wrote : Nat, path : {NoPath} \cup Seq(Nat)]

ChildRecord == [script : Mbs \X Nat, path : Seq(Nat), length : Lengths,
                parallel : BOOLEAN, runs : BOOLEAN]

Typed ==
    /\ mb \in [Mbs -> MbRecord]
    /\ children \subseteq ChildRecord
    /\ \A p \in DOMAIN files :
         files[p] \in Seq(Mbs \X Nat) /\ files[p] # <<>> /\ Len(files[p]) \in Lengths

PidsGood ==
    \A m \in Mbs :
      /\ mb[m].pid = NoPid <=> mb[m].state = "new"
      /\ \A n \in Mbs : m # n /\ Live(m) /\ Live(n) => mb[m].pid # mb[n].pid

\* The shells: each runs a script of its own, from a file named for it.
Forked ==
    \A c \in children :
      /\ mb[c.script[1]].state # "new"
      /\ c.script[2] > 0 /\ c.script[2] <= mb[c.script[1]].counter
      /\ NameOf(c.path, mb[c.script[1]].pid, c.script[2] - 1)
      /\ ~Live(c.script[1]) => c.runs
      /\ \A d \in children : d.script = c.script => d = c
      /\ ~c.parallel => \A d \in children : d.script[1] = c.script[1] => d = c

\* A file that is written and not run yet is later than every shell's.
Prepared ==
    \A m \in Mbs : mb[m].path # NoPath =>
      /\ Live(m) /\ mb[m].counter > 0 /\ mb[m].wrote \in Lengths
      /\ NameOf(mb[m].path, mb[m].pid, mb[m].counter - 1)
      /\ \A c \in children : c.script[1] = m => c.script[2] < mb[m].counter /\ c.parallel

\* A run has run, or is about to run, this script from a file of this name.
WrittenBy(x, script) ==
    /\ mb[script[1]].state # "new"
    /\ script[2] > 0 /\ script[2] <= mb[script[1]].counter
    /\ NameOf(x, mb[script[1]].pid, script[2] - 1)

\* Every piece of a file is of a script that was written under its name.
Written == \A x \in DOMAIN files : \A i \in DOMAIN files[x] : WrittenBy(x, files[x][i])

\* Unless the counter is cut off, the files a live run needs are there, and begin with
\* its script.
Kept ==
    \A m \in Mbs : Live(m) /\ ~CounterCut(m) =>
      /\ \A c \in children : c.runs /\ c.script[1] = m => OwnText(c.path, c.script, c.length)
      /\ mb[m].path # NoPath => OwnText(mb[m].path, Script(m), mb[m].wrote)

Inv == Typed /\ PidsGood /\ Forked /\ Prepared /\ Written /\ Kept

LEMMA RunType ==
    ASSUME Typed, NEW m \in Mbs
    PROVE  /\ mb[m].state \in {"new", "live", "dead"} /\ mb[m].pid \in Pids \cup {NoPid}
           /\ mb[m].counter \in Nat /\ mb[m].wrote \in Nat
           /\ mb[m].path \in {NoPath} \cup Seq(Nat)
  BY DEF Typed, MbRecord

LEMMA ChildType ==
    ASSUME Typed, NEW c \in children
    PROVE  /\ c \in ChildRecord /\ c.script \in Mbs \X Nat
           /\ c.script[1] \in Mbs /\ c.script[2] \in Nat
           /\ c.path \in Seq(Nat) /\ c.length \in Lengths /\ c.length \in Nat
           /\ c.parallel \in BOOLEAN /\ c.runs \in BOOLEAN
  BY ScriptFilesAssumption DEF Typed, ChildRecord

LEMMA PidType ==
    ASSUME Typed, PidsGood, NEW m \in Mbs, mb[m].state # "new"
    PROVE  mb[m].pid \in Pids
  BY RunType DEF PidsGood

LEMMA PidNat ==
    \A p \in Pids : p \in Nat
  BY ScriptFilesAssumption

\* Whether the counter of m is cut off.
LEMMA CutMeans ==
    ASSUME Typed, NEW m \in Mbs, mb[m].pid \in Pids
    PROVE  CounterCut(m) <=> mb[m].counter > 0 /\ ~Fits(mb[m].pid, mb[m].counter - 1)
<1> DEFINE p == mb[m].pid
           k == mb[m].counter - 1
<1>1. SUFFICES ASSUME mb[m].counter > 0
               PROVE  (\E name \in Names : Len(Numbers(p, k)) > Room(name)) <=> ~Fits(p, k)
  BY DEF CounterCut
<1>2. k \in Nat /\ p \in Nat
  <2>1. mb[m].counter \in Nat
    BY RunType
  <2>2. k \in Nat
    BY <1>1, <2>1
  <2>3. p \in Nat
    BY PidNat, Zenon
  <2> QED
    BY <2>2, <2>3
<1> HIDE DEF p, k
<1>3. Len(Numbers(p, k)) = NumbersLen(p, k) /\ NumbersLen(p, k) \in Nat
  BY <1>2, NumbersFacts DEF NumbersLen
<1>4. \A name \in Names : Room(name) \in Nat
  BY RoomFacts DEF p
<1> QED
  BY <1>3, <1>4 DEF Fits


-----------------------------------------------------------------------------
(* What the actions do to the run that takes them.                         *)

\* Nothing else than run m is changed by a step.
OnlyRun(m) == mb' \in [Mbs -> MbRecord] /\ \A n \in Mbs : n # m => mb'[n] = mb[n]

LEMMA StartFacts ==
    ASSUME Typed, NEW m \in Mbs, NEW p \in Pids, StartMb(m, p)
    PROVE  /\ OnlyRun(m)
           /\ mb'[m].state = "live" /\ mb'[m].pid = p /\ mb'[m].counter = mb[m].counter
           /\ mb'[m].path = mb[m].path /\ mb'[m].wrote = mb[m].wrote
           /\ children' = children /\ files' = files
  BY DEF StartMb, OnlyRun, Typed, MbRecord

LEMMA PrepareFacts ==
    ASSUME Typed, NEW m \in Mbs, NEW name \in Names, NEW length \in Lengths,
           PrepareExec(m, name, length), mb[m].pid \in Pids
    PROVE  /\ OnlyRun(m)
           /\ mb'[m].state = mb[m].state /\ mb'[m].pid = mb[m].pid
           /\ mb'[m].counter = mb[m].counter + 1 /\ mb'[m].wrote = length
           /\ mb'[m].path = CreateName(name, mb[m].pid, mb[m].counter)
           /\ mb'[m].path \in Seq(Nat)
           /\ NameOf(mb'[m].path, mb[m].pid, mb[m].counter)
           /\ children' = children
           /\ DOMAIN files' = DOMAIN files \cup {mb'[m].path}
           /\ files'[mb'[m].path] =
                Overwrite(Contents(mb'[m].path), <<m, mb[m].counter + 1>>, length)
           /\ \A x \in DOMAIN files : x # mb'[m].path => files'[x] = files[x]
<1> DEFINE path == CreateName(name, mb[m].pid, mb[m].counter)
<1>1. path \in Seq(Nat)
  BY RunType, CreateNameFacts
<1>2. NameOf(path, mb[m].pid, mb[m].counter)
  BY DEF NameOf
<1> HIDE DEF path
<1>3. /\ mb' = [mb EXCEPT ![m].path = path, ![m].wrote = length, ![m].counter = @ + 1]
      /\ files' = [p \in (DOMAIN files) \cup {path} |->
                    IF p = path THEN Overwrite(Contents(p), Script(m)', length)
                    ELSE files[p]]
      /\ children' = children
  BY DEF PrepareExec, path
<1>4. length \in Nat /\ mb[m].counter + 1 \in Nat
  <2>1. length \in Nat
    BY ScriptFilesAssumption
  <2>2. mb[m].counter + 1 \in Nat
    BY RunType
  <2> QED
    BY <2>1, <2>2
<1>5. /\ OnlyRun(m)
      /\ mb'[m].state = mb[m].state /\ mb'[m].pid = mb[m].pid
      /\ mb'[m].counter = mb[m].counter + 1 /\ mb'[m].wrote = length
      /\ mb'[m].path = path
  BY <1>1, <1>3, <1>4 DEF OnlyRun, Typed, MbRecord
<1>6. Script(m)' = <<m, mb[m].counter + 1>>
  BY <1>5 DEF Script
<1> QED
  BY <1>1, <1>2, <1>3, <1>5, <1>6 DEF path

LEMMA PrepareFailsFacts ==
    ASSUME Typed, NEW m \in Mbs, PrepareExecFails(m)
    PROVE  /\ OnlyRun(m)
           /\ mb'[m].state = mb[m].state /\ mb'[m].pid = mb[m].pid
           /\ mb'[m].counter = mb[m].counter + 1 /\ mb'[m].wrote = mb[m].wrote
           /\ mb'[m].path = mb[m].path
           /\ children' = children /\ files' = files
<1>1. mb[m].counter + 1 \in Nat
  BY RunType
<1> QED
  BY <1>1 DEF PrepareExecFails, OnlyRun, Typed, MbRecord

\* The shell a fork adds.
Shell(m, parallel) ==
    [script |-> Script(m), path |-> mb[m].path, length |-> mb[m].wrote,
     parallel |-> parallel, runs |-> TRUE]

LEMMA ForkFacts ==
    ASSUME Typed, NEW m \in Mbs, NEW parallel \in BOOLEAN, Fork(m, parallel)
    PROVE  /\ OnlyRun(m)
           /\ mb'[m].state = mb[m].state /\ mb'[m].pid = mb[m].pid
           /\ mb'[m].counter = mb[m].counter /\ mb'[m].path = NoPath
           /\ children' = children \cup {Shell(m, parallel)}
           /\ Shell(m, parallel).script = <<m, mb[m].counter>>
           /\ Shell(m, parallel).path = mb[m].path
           /\ Shell(m, parallel).length = mb[m].wrote
           /\ Shell(m, parallel).parallel = parallel /\ Shell(m, parallel).runs
           /\ files' = files
<1>1. /\ mb' = [mb EXCEPT ![m].path = NoPath, ![m].wrote = 0]
      /\ children' = children \cup {Shell(m, parallel)} /\ files' = files
  BY DEF Fork, Shell
<1>2. /\ OnlyRun(m)
      /\ mb'[m].state = mb[m].state /\ mb'[m].pid = mb[m].pid
      /\ mb'[m].counter = mb[m].counter /\ mb'[m].path = NoPath
  BY <1>1 DEF OnlyRun, Typed, MbRecord
<1>3. /\ Shell(m, parallel).script = <<m, mb[m].counter>>
      /\ Shell(m, parallel).path = mb[m].path
      /\ Shell(m, parallel).length = mb[m].wrote
      /\ Shell(m, parallel).parallel = parallel /\ Shell(m, parallel).runs
  BY DEF Shell, Script
<1> QED
  BY <1>1, <1>2, <1>3

LEMMA EndsFacts ==
    ASSUME Typed, NEW m \in Mbs, NEW removed, Ends(m, removed)
    PROVE  /\ OnlyRun(m)
           /\ mb'[m].state = "dead" /\ mb'[m].pid = mb[m].pid
           /\ mb'[m].counter = mb[m].counter /\ mb'[m].path = NoPath
           /\ children' \subseteq children
           /\ \A c \in children' : c.script[1] = m => c.runs
           /\ DOMAIN files' = DOMAIN files \ removed
           /\ \A x \in DOMAIN files' : files'[x] = files[x]
<1>1. /\ mb' = [mb EXCEPT ![m].state = "dead", ![m].path = NoPath, ![m].wrote = 0]
      /\ files' = Without(removed)
      /\ children' = {c \in children : c.runs \/ c \notin Own(m)}
  BY DEF Ends
<1>2. /\ OnlyRun(m)
      /\ mb'[m].state = "dead" /\ mb'[m].pid = mb[m].pid
      /\ mb'[m].counter = mb[m].counter /\ mb'[m].path = NoPath
  <2> DEFINE new == [mb[m] EXCEPT !.state = "dead", !.path = NoPath, !.wrote = 0]
  <2>1. mb[m] \in MbRecord
    BY DEF Typed
  <2>2. /\ new \in MbRecord /\ new.state = "dead" /\ new.pid = mb[m].pid
        /\ new.counter = mb[m].counter /\ new.path = NoPath
    BY <2>1 DEF MbRecord
  <2>3. mb' = [mb EXCEPT ![m] = new]
    BY <1>1
  <2> HIDE DEF new
  <2> QED
    BY <2>2, <2>3 DEF OnlyRun, Typed
<1>3. /\ children' \subseteq children
      /\ \A c \in children' : c.script[1] = m => c.runs
  BY <1>1 DEF Own
<1>4. /\ DOMAIN files' = DOMAIN files \ removed
      /\ \A x \in DOMAIN files' : files'[x] = files[x]
  BY <1>1 DEF Without
<1> QED
  BY <1>2, <1>3, <1>4

\* A script that ends leaves its shell as it was but for runs.
LEMMA ScriptEndsFacts ==
    ASSUME Typed, NEW c \in children, ScriptEnds(c)
    PROVE  /\ mb' = mb /\ files' = files /\ c.runs
           /\ \A e \in children' :
                \/ e \in children /\ e # c
                \/ /\ Live(c.script[1]) /\ e \in ChildRecord /\ e.script = c.script
                   /\ e.path = c.path /\ e.parallel = c.parallel /\ ~e.runs
<1> DEFINE e0 == [c EXCEPT !.runs = FALSE]
<1>1. /\ mb' = mb /\ files' = files /\ c.runs
      /\ children' = (children \ {c}) \cup (IF Live(c.script[1]) THEN {e0} ELSE {})
  BY DEF ScriptEnds
<1>2. c \in ChildRecord
  BY ChildType
<1>3. /\ e0 \in ChildRecord /\ e0.script = c.script
      /\ e0.path = c.path /\ e0.parallel = c.parallel /\ e0.runs = FALSE
  BY <1>2 DEF ChildRecord
<1> HIDE DEF e0
<1> QED
  BY <1>1, <1>3

LEMMA OverwriteFacts ==
    ASSUME NEW old \in Seq(Mbs \X Nat), NEW script \in Mbs \X Nat, NEW length \in Nat \ {0}
    PROVE  /\ Overwrite(old, script, length) \in Seq(Mbs \X Nat)
           /\ Len(Overwrite(old, script, length)) =
                IF Len(old) <= length THEN length ELSE Len(old)
           /\ \A i \in DOMAIN Overwrite(old, script, length) :
                IF i <= length THEN Overwrite(old, script, length)[i] = script
                ELSE i \in DOMAIN old /\ Overwrite(old, script, length)[i] = old[i]
<1> DEFINE a == [i \in 1..length |-> script]
           b == SubSeq(old, length + 1, Len(old))
<1>1. a \in Seq(Mbs \X Nat) /\ Len(a) = length
  OBVIOUS
<1>2. /\ b \in Seq(Mbs \X Nat)
      /\ Len(b) = IF Len(old) <= length THEN 0 ELSE Len(old) - length
      /\ Len(old) \in Nat
      /\ \A j \in 1..Len(b) : b[j] = old[length + j]
  OBVIOUS
<1>3. Overwrite(old, script, length) = a \o b
  BY DEF Overwrite
<1> HIDE DEF a, b
<1>4. a \o b \in Seq(Mbs \X Nat) /\ Len(a \o b) = Len(a) + Len(b)
  <2> DEFINE S == Mbs \X Nat
  <2>1. a \in Seq(S) /\ b \in Seq(S)
    BY <1>1, <1>2
  <2> HIDE DEF S
  <2>2. a \o b \in Seq(S) /\ Len(a \o b) = Len(a) + Len(b)
    BY <2>1
  <2> QED
    BY <2>2 DEF S
<1>5. \A i \in DOMAIN (a \o b) :
        IF i <= length THEN (a \o b)[i] = script
        ELSE i \in DOMAIN old /\ (a \o b)[i] = old[i]
  <2> SUFFICES ASSUME NEW i \in 1..(Len(a) + Len(b))
               PROVE  IF i <= length THEN (a \o b)[i] = script
                      ELSE i \in DOMAIN old /\ (a \o b)[i] = old[i]
    BY <1>4
  <2>1. (a \o b)[i] = IF i <= Len(a) THEN a[i] ELSE b[i - Len(a)]
    <3> DEFINE S == Mbs \X Nat
    <3>1. a \in Seq(S) /\ b \in Seq(S)
      BY <1>1, <1>2
    <3> HIDE DEF S
    <3> QED
      BY <3>1
  <2>2. CASE i <= length
    BY <1>1, <2>1, <2>2 DEF a
  <2>3. CASE ~(i <= length)
    <3> DEFINE k == i - length
    <3>1. i \in Int /\ length \in Int /\ Len(b) \in Nat /\ i <= length + Len(b)
      BY <1>1, <1>2
    <3>2. Len(old) = length + Len(b) /\ i \in 1..Len(old)
      BY <1>2, <2>3, <3>1
    <3>3. k \in 1..Len(b) /\ length + k = i
      BY <2>3, <3>1
    <3>4. (a \o b)[i] = b[k]
      BY <1>1, <2>1, <2>3
    <3> HIDE DEF k
    <3>5. b[k] = old[i]
      BY <1>2, <3>3
    <3> QED
      BY <2>3, <3>2, <3>4, <3>5
  <2> QED
    BY <2>2, <2>3
<1>6. Len(a) + Len(b) = IF Len(old) <= length THEN length ELSE Len(old)
  BY <1>1, <1>2
<1> QED
  BY <1>3, <1>4, <1>5, <1>6, Zenon

-----------------------------------------------------------------------------
(* Steps.                                                                  *)

\* All that a script may be run from is kept: pids, and that a counter was cut off.
Grows(n) ==
    /\ mb[n].state # "new" => /\ mb'[n].state # "new" /\ mb'[n].pid = mb[n].pid
                              /\ (Live(n))' => Live(n)
    /\ mb'[n].counter >= mb[n].counter

LEMMA Cases ==
    ASSUME [Next]_vars
    PROVE  \/ \E m \in Mbs, p \in Pids : StartMb(m, p)
           \/ \E m \in Mbs, name \in Names, length \in Lengths : PrepareExec(m, name, length)
           \/ \E m \in Mbs : PrepareExecFails(m)
           \/ \E m \in Mbs, parallel \in BOOLEAN : Fork(m, parallel)
           \/ \E m \in Mbs :
                \E removed \in SUBSET ({c.path : c \in Own(m)} \cup {mb[m].path}) :
                  Ends(m, removed)
           \/ \E c \in children : ScriptEnds(c)
           \/ \E c \in children : ExecReturns(c)
           \/ \E c \in children : RemoveScript(c)
           \/ UNCHANGED vars
  BY Zenon DEF Next

\* The runs of mb in a step: at most one changes.
LEMMA Growth ==
    ASSUME Typed, PidsGood, [Next]_vars
    PROVE  mb' \in [Mbs -> MbRecord] /\ \A n \in Mbs : Grows(n)
<1>1. \A n \in Mbs : mb[n].counter \in Nat
  BY RunType
<1>2. ASSUME NEW m \in Mbs, OnlyRun(m), Grows(m)
      PROVE  mb' \in [Mbs -> MbRecord] /\ \A n \in Mbs : Grows(n)
  BY <1>1, <1>2 DEF OnlyRun, Grows, Live
<1>3. ASSUME mb' = mb
      PROVE  mb' \in [Mbs -> MbRecord] /\ \A n \in Mbs : Grows(n)
  BY <1>1, <1>3 DEF Grows, Live, Typed
<1>4. ASSUME NEW m \in Mbs, NEW p \in Pids, StartMb(m, p)
      PROVE  OnlyRun(m) /\ Grows(m)
  <2>1. mb[m].state = "new"
    BY <1>4 DEF StartMb
  <2> QED
    BY <1>1, <1>4, <2>1, StartFacts DEF Grows
<1>5. ASSUME NEW m \in Mbs, NEW name \in Names, NEW length \in Lengths,
             PrepareExec(m, name, length)
      PROVE  OnlyRun(m) /\ Grows(m)
  <2>1. Live(m)
    BY <1>5 DEF PrepareExec, CanPrepare
  <2>2. mb[m].pid \in Pids
    BY <2>1, PidType DEF Live
  <2>3. /\ OnlyRun(m)
        /\ mb'[m].state = mb[m].state /\ mb'[m].pid = mb[m].pid
        /\ mb'[m].counter = mb[m].counter + 1
    BY <1>5, <2>2, PrepareFacts, Zenon
  <2> QED
    BY <1>1, <2>3 DEF Grows, Live
<1>6. ASSUME NEW m \in Mbs, PrepareExecFails(m)
      PROVE  OnlyRun(m) /\ Grows(m)
  BY <1>1, <1>6, PrepareFailsFacts DEF Grows, Live
<1>7. ASSUME NEW m \in Mbs, NEW parallel \in BOOLEAN, Fork(m, parallel)
      PROVE  OnlyRun(m) /\ Grows(m)
  <2>1. /\ OnlyRun(m)
        /\ mb'[m].state = mb[m].state /\ mb'[m].pid = mb[m].pid
        /\ mb'[m].counter = mb[m].counter
    BY <1>7, ForkFacts, Zenon
  <2>2. mb'[m].counter >= mb[m].counter
    BY <1>1, <2>1
  <2> QED
    BY <2>1, <2>2, Zenon DEF Grows, Live
<1>8. ASSUME NEW m \in Mbs, NEW removed, Ends(m, removed)
      PROVE  OnlyRun(m) /\ Grows(m)
  <2>1. /\ OnlyRun(m)
        /\ mb'[m].state = "dead" /\ mb'[m].pid = mb[m].pid
        /\ mb'[m].counter = mb[m].counter
    BY <1>8, EndsFacts, Zenon
  <2>2. mb'[m].counter >= mb[m].counter
    BY <1>1, <2>1
  <2> QED
    BY <2>1, <2>2 DEF Grows, Live
<1>9. ASSUME NEW c \in children, ScriptEnds(c) \/ ExecReturns(c) \/ RemoveScript(c)
      PROVE  mb' = mb
  BY <1>9 DEF ScriptEnds, ExecReturns, RemoveScript
<1>10. UNCHANGED vars => mb' = mb
  BY DEF vars
<1> QED
  BY Cases, <1>2, <1>3, <1>4, <1>5, <1>6, <1>7, <1>8, <1>9, <1>10, Zenon

\* What the invariant asks of a live run, it asked before.
LEMMA Persist ==
    ASSUME Typed, PidsGood, [Next]_vars, NEW n \in Mbs, mb[n].state # "new",
           (Live(n))', ~(CounterCut(n))'
    PROVE  /\ Live(n) /\ ~CounterCut(n)
           /\ mb'[n].pid = mb[n].pid /\ mb[n].pid \in Pids
           /\ \A k \in Nat : k < mb'[n].counter => Fits(mb[n].pid, k)
<1>1. /\ mb' \in [Mbs -> MbRecord]
      /\ \A k \in Mbs : Grows(k)
  BY Growth
<1>2. /\ Live(n) /\ mb'[n].pid = mb[n].pid /\ mb[n].pid \in Pids
      /\ mb'[n].counter \in Nat /\ mb[n].counter \in Nat /\ mb'[n].counter >= mb[n].counter
  BY <1>1, PidType, RunType DEF Grows, MbRecord
<1>3. ASSUME NEW k \in Nat, k < mb'[n].counter PROVE Fits(mb[n].pid, k)
  <2> DEFINE p == mb[n].pid
             l == mb'[n].counter - 1
  <2>1. l \in Nat /\ k <= l
    BY <1>2, <1>3
  <2>2. Fits(p, l)
    <3>1. \A name \in Names : ~(Len(Numbers(p, l)) > Room(name))
      <4>1. \A name \in Names :
              ~(Len(Numbers(mb'[n].pid, mb'[n].counter - 1)) > Room(name))
        BY <1>2, <1>3 DEF CounterCut
      <4> QED
        BY <1>2, <4>1
    <3>2. p \in Nat
      BY <1>2, PidNat
    <3>3. Len(Numbers(p, l)) = NumbersLen(p, l) /\ NumbersLen(p, l) \in Nat
      <4> HIDE DEF p, l
      <4> QED
        BY <2>1, <3>2, NumbersFacts DEF NumbersLen
    <3>4. \A name \in Names : Room(name) \in Nat
      BY <1>2, RoomFacts
    <3> HIDE DEF p, l
    <3> QED
      BY <3>1, <3>3, <3>4 DEF Fits
  <2> HIDE DEF l
  <2> QED
    BY <1>2, <2>1, <2>2, FitsBefore
<1>4. ~CounterCut(n)
  <2>1. mb[n].counter > 0 => Fits(mb[n].pid, mb[n].counter - 1)
    <3>1. mb[n].counter > 0 => mb[n].counter - 1 \in Nat /\ mb[n].counter - 1 < mb'[n].counter
      BY <1>2
    <3> QED
      BY <1>3, <3>1
  <2> QED
    BY <1>2, <2>1, CutMeans
<1> QED
  BY <1>2, <1>3, <1>4

\* OwnText after a step, of a path, a script and a length before it.
TextNext(x, s, l) ==
    /\ x \in DOMAIN files' /\ l <= Len(files'[x])
    /\ \A i \in DOMAIN files'[x] :
         IF i <= l THEN files'[x][i] = s
         ELSE files'[x][i][1] # s[1] /\ mb'[files'[x][i][1]].pid = mb'[s[1]].pid

\* A script keeps the text it has, as pids do not change.
LEMMA TextStays ==
    ASSUME Typed, PidsGood, [Next]_vars, NEW x, NEW s \in Mbs \X Nat, NEW l \in Nat,
           mb[s[1]].state # "new", OwnText(x, s, l),
           x \in DOMAIN files', files'[x] = files[x]
    PROVE  TextNext(x, s, l)
<1> DEFINE f == files[x]
<1>1. /\ l <= Len(f)
      /\ \A i \in DOMAIN f : IF i <= l THEN f[i] = s ELSE SamePid(f[i][1], s[1])
      /\ \A i \in DOMAIN f : f[i] \in Mbs \X Nat
  <2>1. x \in DOMAIN files
    BY DEF OwnText
  <2>2. f \in Seq(Mbs \X Nat)
    BY <2>1 DEF Typed
  <2> QED
    BY <2>2 DEF OwnText
<1>2. \A n \in Mbs : Grows(n)
  BY Growth
<1>3. ASSUME NEW m \in Mbs, SamePid(m, s[1])
      PROVE  m # s[1] /\ mb'[m].pid = mb'[s[1]].pid
  <2>1. m # s[1] /\ mb[m].pid = mb[s[1]].pid /\ s[1] \in Mbs
    BY <1>3 DEF SamePid
  <2>2. mb[m].state # "new"
    BY <2>1 DEF PidsGood
  <2>3. mb'[m].pid = mb[m].pid /\ mb'[s[1]].pid = mb[s[1]].pid
    BY <1>2, <2>1, <2>2 DEF Grows
  <2> QED
    BY <2>1, <2>3
<1>4. files'[x] = f
  OBVIOUS
<1> HIDE DEF f
<1>5. \A i \in DOMAIN f :
        IF i <= l THEN f[i] = s ELSE f[i][1] # s[1] /\ mb'[f[i][1]].pid = mb'[s[1]].pid
  BY <1>1, <1>3
<1> QED
  BY <1>1, <1>4, <1>5 DEF TextNext

LEMMA SameScript ==
    ASSUME Typed, NEW c \in children, NEW d \in children,
           c.script[1] = d.script[1], c.script[2] = d.script[2]
    PROVE  c.script = d.script
<1>1. c.script \in Mbs \X Nat /\ d.script \in Mbs \X Nat
  BY ChildType
<1> QED
  BY <1>1

\* A file of a live run is neither written nor removed, but by that run when it
\* collects the script.
LEMMA FileStays ==
    ASSUME Inv, [Next]_vars, NEW n \in Mbs, mb[n].state # "new",
           (Live(n))', ~(CounterCut(n))',
           NEW x, NEW k \in Nat, k < mb[n].counter, NameOf(x, mb[n].pid, k),
           \A d \in children : d.script[1] = n /\ d.script[2] = k + 1 => d.runs,
           x \in DOMAIN files
    PROVE  x \in DOMAIN files' /\ files'[x] = files[x]
<1>1. /\ Typed /\ PidsGood /\ Forked /\ Prepared
      /\ mb' \in [Mbs -> MbRecord] /\ \A m \in Mbs : Grows(m)
  BY Growth DEF Inv
<1>2. /\ Live(n) /\ mb[n].pid \in Pids /\ mb'[n].pid = mb[n].pid
      /\ \A j \in Nat : j < mb'[n].counter => Fits(mb[n].pid, j)
  BY <1>1, Persist
<1>3. mb[n].counter \in Nat /\ mb'[n].counter \in Nat /\ mb'[n].counter >= mb[n].counter
  BY <1>1, RunType DEF Grows, MbRecord
<1>4. x \in Seq(Nat) /\ x # NoPath
  BY <1>2, NameType
\* A run with the same name for a file is n itself,
<1>5. ASSUME NEW m \in Mbs, Live(m), NEW j \in Nat, NameOf(x, mb[m].pid, j)
      PROVE  m = n
  <2>1. mb[m].pid \in Pids
    BY <1>1, <1>5, PidType DEF Live
  <2>2. mb[m].pid = mb[n].pid
    BY <1>2, <1>5, <2>1, NamePid
  <2> QED
    BY <1>1, <1>2, <1>5, <2>2 DEF PidsGood
\* and the counter of the file is k.
<1>6. ASSUME NEW j \in Nat, j < mb'[n].counter, NameOf(x, mb[n].pid, j)
      PROVE  j = k
  <2>1. Fits(mb[n].pid, j) /\ Fits(mb[n].pid, k)
    BY <1>2, <1>3, <1>6
  <2> QED
    BY <1>2, <1>6, <2>1, NameCounter
<1>7. CASE files' = files
  BY <1>7
<1>8. ASSUME NEW m \in Mbs, NEW name \in Names, NEW length \in Lengths,
             PrepareExec(m, name, length)
      PROVE  x \in DOMAIN files' /\ files'[x] = files[x]
  <2>1. Live(m)
    BY <1>8 DEF PrepareExec, CanPrepare
  <2>2. mb[m].pid \in Pids /\ mb[m].counter \in Nat
    BY <1>1, <2>1, PidType, RunType DEF Live
  <2>3. /\ NameOf(mb'[m].path, mb[m].pid, mb[m].counter)
        /\ mb'[m].counter = mb[m].counter + 1
        /\ DOMAIN files' = DOMAIN files \cup {mb'[m].path}
        /\ \A y \in DOMAIN files : y # mb'[m].path => files'[y] = files[y]
    BY <1>1, <1>8, <2>2, PrepareFacts, Zenon
  <2>4. x # mb'[m].path
    <3> SUFFICES ASSUME x = mb'[m].path PROVE FALSE
      OBVIOUS
    <3>1. m = n
      BY <1>5, <2>1, <2>2, <2>3
    <3>2. mb[n].counter < mb'[n].counter
      BY <2>2, <2>3, <3>1
    <3>3. mb[n].counter = k
      BY <1>6, <2>2, <2>3, <3>1, <3>2
    <3> QED
      BY <1>3, <3>3
  <2> QED
    BY <2>3, <2>4
<1>9. ASSUME NEW m \in Mbs,
             NEW removed \in SUBSET ({c.path : c \in Own(m)} \cup {mb[m].path}),
             Ends(m, removed)
      PROVE  x \in DOMAIN files' /\ files'[x] = files[x]
  <2>1. /\ mb'[m].state = "dead"
        /\ DOMAIN files' = DOMAIN files \ removed
        /\ \A y \in DOMAIN files' : files'[y] = files[y]
    BY <1>1, <1>9, EndsFacts
  <2>2. m # n /\ Live(m)
    BY <1>9, <2>1 DEF Live, Ends
  <2>3. ASSUME NEW c \in Own(m), x = c.path PROVE FALSE
    <3>1. c \in children /\ c.script[1] = m /\ c.script[2] \in Nat /\ c.script[2] > 0
      BY <1>1, <2>3, ChildType DEF Own, Forked
    <3>2. NameOf(x, mb[m].pid, c.script[2] - 1) /\ c.script[2] - 1 \in Nat
      BY <1>1, <2>3, <3>1 DEF Forked
    <3> QED
      BY <1>5, <2>2, <3>2
  <2>4. x # mb[m].path
    <3> SUFFICES ASSUME x = mb[m].path PROVE FALSE
      OBVIOUS
    <3>1. mb[m].counter > 0 /\ NameOf(x, mb[m].pid, mb[m].counter - 1)
      BY <1>1, <1>4 DEF Prepared
    <3>2. mb[m].counter - 1 \in Nat
      BY <1>1, <3>1, RunType
    <3> QED
      BY <1>5, <2>2, <3>1, <3>2
  <2>5. x \notin removed
    BY <2>3, <2>4
  <2> QED
    BY <2>1, <2>5
<1>10. ASSUME NEW c \in children, RemoveScript(c)
       PROVE  x \in DOMAIN files' /\ files'[x] = files[x]
  <2>1. /\ Live(c.script[1]) /\ ~c.runs /\ mb' = mb
        /\ DOMAIN files' = DOMAIN files \ {c.path}
        /\ \A y \in DOMAIN files' : files'[y] = files[y]
    BY <1>10 DEF RemoveScript, Without
  <2>2. x # c.path
    <3> SUFFICES ASSUME x = c.path PROVE FALSE
      OBVIOUS
    <3>1. /\ c.script[1] \in Mbs /\ c.script[2] \in Nat /\ c.script[2] > 0
          /\ c.script[2] <= mb[c.script[1]].counter
          /\ NameOf(x, mb[c.script[1]].pid, c.script[2] - 1)
      BY <1>1, ChildType DEF Forked
    <3>2. c.script[2] - 1 \in Nat
      BY <3>1
    <3>3. c.script[1] = n
      BY <1>5, <2>1, <3>1, <3>2
    <3>4. c.script[2] - 1 = k
      BY <1>3, <1>6, <2>1, <3>1, <3>2, <3>3
    <3>5. c.script[2] = k + 1
      BY <3>1, <3>4
    <3> QED
      BY <2>1, <3>3, <3>5
  <2> QED
    BY <2>1, <2>2
<1>11. \/ \E m \in Mbs, p \in Pids : StartMb(m, p)
       \/ \E m \in Mbs : PrepareExecFails(m)
       \/ \E m \in Mbs, parallel \in BOOLEAN : Fork(m, parallel)
       \/ \E c \in children : ScriptEnds(c) \/ ExecReturns(c)
       \/ UNCHANGED vars
       => files' = files
  BY DEF StartMb, PrepareExecFails, Fork, ScriptEnds, ExecReturns, vars
<1> QED
  BY Cases, <1>7, <1>8, <1>9, <1>10, <1>11, Zenon

\* The files of the scripts that run,
LEMMA RunningStays ==
    ASSUME Inv, [Next]_vars, NEW c \in children, c.runs,
           (Live(c.script[1]))', ~(CounterCut(c.script[1]))'
    PROVE  /\ c.path \in DOMAIN files /\ c.path \in DOMAIN files'
           /\ files'[c.path] = files[c.path]
<1> DEFINE n == c.script[1]
           k == c.script[2] - 1
<1>1. Typed /\ PidsGood /\ Forked /\ Kept
  BY DEF Inv
<1>2. /\ n \in Mbs /\ c.script[2] \in Nat /\ mb[n].state # "new"
      /\ c.script[2] > 0 /\ c.script[2] <= mb[n].counter /\ mb[n].counter \in Nat
      /\ NameOf(c.path, mb[n].pid, k)
  BY <1>1, ChildType, RunType DEF Forked
<1>3. k \in Nat /\ k < mb[n].counter
  BY <1>2
<1>4. Live(n) /\ ~CounterCut(n)
  BY <1>1, <1>2, Persist
<1>5. c.path \in DOMAIN files
  BY <1>1, <1>2, <1>4 DEF Kept, OwnText
<1>6. ASSUME NEW d \in children, d.script[1] = n, d.script[2] = k + 1
      PROVE  d.runs
  <2>1. d.script = c.script
    BY <1>1, <1>2, <1>6, SameScript
  <2>2. d = c
    BY <1>1, <2>1 DEF Forked
  <2> QED
    BY <2>2
<1> HIDE DEF n, k
<1>7. (Live(n))' /\ ~(CounterCut(n))'
  BY DEF n
<1> DEFINE x == c.path
<1>8. x \in DOMAIN files /\ NameOf(x, mb[n].pid, k)
  BY <1>2, <1>5
<1> HIDE DEF x
<1>9. x \in DOMAIN files' /\ files'[x] = files[x]
  BY <1>2, <1>3, <1>6, <1>7, <1>8, FileStays
<1> QED
  BY <1>8, <1>9, Zenon DEF x

\* and the file that is written and not run yet.
LEMMA WrittenStays ==
    ASSUME Inv, [Next]_vars, NEW n \in Mbs, mb[n].path # NoPath,
           (Live(n))', ~(CounterCut(n))'
    PROVE  /\ mb[n].path \in DOMAIN files /\ mb[n].path \in DOMAIN files'
           /\ files'[mb[n].path] = files[mb[n].path]
<1> DEFINE x == mb[n].path
           k == mb[n].counter - 1
<1>1. Typed /\ PidsGood /\ Prepared /\ Kept
  BY DEF Inv
<1>2. /\ mb[n].state # "new" /\ mb[n].counter > 0 /\ mb[n].counter \in Nat
      /\ NameOf(x, mb[n].pid, k)
      /\ \A d \in children : d.script[1] = n => d.script[2] < mb[n].counter
  BY <1>1, RunType DEF Prepared, Live
<1>3. k \in Nat /\ k < mb[n].counter /\ k + 1 = mb[n].counter
  BY <1>2
<1>4. Live(n) /\ ~CounterCut(n)
  BY <1>1, <1>2, Persist
<1>5. x \in DOMAIN files
  BY <1>1, <1>4 DEF Kept, OwnText
<1>6. \A d \in children : d.script[1] = n /\ d.script[2] = k + 1 => d.runs
  BY <1>2, <1>3
<1> HIDE DEF x, k
<1>7. x \in DOMAIN files' /\ files'[x] = files[x]
  BY <1>2, <1>3, <1>5, <1>6, FileStays
<1> QED
  BY <1>5, <1>7 DEF x

-----------------------------------------------------------------------------
(* The invariant is kept.                                                  *)

\* A step either adds no shell, or is one of two:
LEMMA ChildCases ==
    ASSUME Typed, [Next]_vars
    PROVE  \/ children' \subseteq children
           \/ \E m \in Mbs, parallel \in BOOLEAN : Fork(m, parallel)
           \/ \E c \in children : ScriptEnds(c)
<1>1. \A m \in Mbs : \A removed : Ends(m, removed) => children' \subseteq children
  BY DEF Ends
<1>2. \/ \E m \in Mbs, p \in Pids : StartMb(m, p)
      \/ \E m \in Mbs, name \in Names, length \in Lengths : PrepareExec(m, name, length)
      \/ \E m \in Mbs : PrepareExecFails(m)
      \/ \E c \in children : ExecReturns(c) \/ RemoveScript(c)
      \/ UNCHANGED vars
      => children' \subseteq children
  BY DEF StartMb, PrepareExec, PrepareExecFails, ExecReturns, RemoveScript, vars
<1> QED
  BY Cases, <1>1, <1>2, Zenon

\* and either changes no file but to remove it, or writes one.
LEMMA FileCases ==
    ASSUME Typed, [Next]_vars
    PROVE  \/ /\ DOMAIN files' \subseteq DOMAIN files
              /\ \A x \in DOMAIN files' : files'[x] = files[x]
           \/ \E m \in Mbs, name \in Names, length \in Lengths : PrepareExec(m, name, length)
<1> DEFINE Fewer == /\ DOMAIN files' \subseteq DOMAIN files
                    /\ \A x \in DOMAIN files' : files'[x] = files[x]
<1>1. \A m \in Mbs : \A removed : Ends(m, removed) => Fewer
  BY DEF Ends, Without
<1>2. \A c \in children : RemoveScript(c) => Fewer
  BY DEF RemoveScript, Without
<1>3. \/ \E m \in Mbs, p \in Pids : StartMb(m, p)
      \/ \E m \in Mbs : PrepareExecFails(m)
      \/ \E m \in Mbs, parallel \in BOOLEAN : Fork(m, parallel)
      \/ \E c \in children : ScriptEnds(c) \/ ExecReturns(c)
      \/ UNCHANGED vars
      => Fewer
  BY DEF StartMb, PrepareExecFails, Fork, ScriptEnds, ExecReturns, vars
<1> HIDE DEF Fewer
<1>4. \/ Fewer
      \/ \E m \in Mbs, name \in Names, length \in Lengths : PrepareExec(m, name, length)
  BY Cases, <1>1, <1>2, <1>3, Zenon
<1> QED
  BY <1>4 DEF Fewer

\* What a forked shell is.
LEMMA ShellFacts ==
    ASSUME Inv, NEW m \in Mbs, NEW parallel \in BOOLEAN, Fork(m, parallel)
    PROVE  /\ Live(m) /\ mb[m].path # NoPath /\ mb[m].pid \in Pids
           /\ mb[m].counter \in Nat /\ mb[m].counter > 0
           /\ NameOf(mb[m].path, mb[m].pid, mb[m].counter - 1)
           /\ Shell(m, parallel) \in ChildRecord
           /\ \A c \in children : c.script[1] = m =>
                c.script[2] < mb[m].counter /\ c.parallel /\ parallel
<1>1. Live(m) /\ mb[m].path # NoPath /\ (parallel \/ Own(m) = {})
  BY DEF Fork
<1>2. Typed /\ PidsGood /\ Prepared
  BY DEF Inv
<1>3. /\ mb[m].counter \in Nat /\ mb[m].counter > 0 /\ mb[m].wrote \in Lengths
      /\ mb[m].path \in Seq(Nat) /\ mb[m].pid \in Pids
      /\ NameOf(mb[m].path, mb[m].pid, mb[m].counter - 1)
  BY <1>1, <1>2, RunType, PidType DEF Prepared, Live
<1>4. Shell(m, parallel) \in ChildRecord
  BY <1>3 DEF Shell, ChildRecord, Script
<1>5. \A c \in children : c.script[1] = m =>
        c.script[2] < mb[m].counter /\ c.parallel /\ parallel
  BY <1>1, <1>2 DEF Prepared, Own
<1> QED
  BY <1>1, <1>3, <1>4, <1>5

LEMMA TypedKept ==
    ASSUME Inv, [Next]_vars
    PROVE  Typed'
<1>1. Typed /\ PidsGood
  BY DEF Inv
<1>2. mb' \in [Mbs -> MbRecord]
  BY <1>1, Growth
<1>3. children' \subseteq ChildRecord
  <2>1. children \subseteq ChildRecord
    BY <1>1 DEF Typed
  <2>2. CASE children' \subseteq children
    BY <2>1, <2>2
  <2>3. ASSUME NEW m \in Mbs, NEW parallel \in BOOLEAN, Fork(m, parallel)
        PROVE  children' \subseteq ChildRecord
    <3>1. children' = children \cup {Shell(m, parallel)}
      BY <1>1, <2>3, ForkFacts, Zenon
    <3>2. Shell(m, parallel) \in ChildRecord
      BY <2>3, ShellFacts, Zenon
    <3> QED
      BY <2>1, <3>1, <3>2
  <2>4. ASSUME NEW c \in children, ScriptEnds(c)
        PROVE  children' \subseteq ChildRecord
    BY <1>1, <2>1, <2>4, ScriptEndsFacts
  <2> QED
    BY <1>1, <2>2, <2>3, <2>4, ChildCases, Zenon
<1>4. \A x \in DOMAIN files' :
        files'[x] \in Seq(Mbs \X Nat) /\ files'[x] # <<>> /\ Len(files'[x]) \in Lengths
  <2>1. \A x \in DOMAIN files :
          files[x] \in Seq(Mbs \X Nat) /\ files[x] # <<>> /\ Len(files[x]) \in Lengths
    BY <1>1 DEF Typed
  <2>2. CASE /\ DOMAIN files' \subseteq DOMAIN files
             /\ \A x \in DOMAIN files' : files'[x] = files[x]
    BY <2>1, <2>2
  <2>3. ASSUME NEW m \in Mbs, NEW name \in Names, NEW length \in Lengths,
               PrepareExec(m, name, length), NEW x \in DOMAIN files'
        PROVE  files'[x] \in Seq(Mbs \X Nat) /\ files'[x] # <<>> /\ Len(files'[x]) \in Lengths
    <3> DEFINE y == mb'[m].path
               old == Contents(y)
               s == <<m, mb[m].counter + 1>>
    <3>1. mb[m].pid \in Pids /\ s \in Mbs \X Nat
      <4>1. Live(m)
        BY <2>3 DEF PrepareExec, CanPrepare
      <4> QED
        BY <1>1, <4>1, PidType, RunType DEF Live
    <3>2. /\ DOMAIN files' = DOMAIN files \cup {y}
          /\ files'[y] = Overwrite(old, s, length)
          /\ \A z \in DOMAIN files : z # y => files'[z] = files[z]
      BY <1>1, <2>3, <3>1, PrepareFacts, Zenon
    <3>3. old \in Seq(Mbs \X Nat) /\ (old = <<>> \/ Len(old) \in Lengths)
      BY <2>1 DEF Contents
    <3>4. length \in Nat \ {0}
      BY ScriptFilesAssumption
    <3> HIDE DEF y, old, s
    <3>5. /\ Overwrite(old, s, length) \in Seq(Mbs \X Nat)
          /\ Len(Overwrite(old, s, length)) = IF Len(old) <= length THEN length ELSE Len(old)
      BY <3>1, <3>3, <3>4, OverwriteFacts
    <3>6. Len(Overwrite(old, s, length)) \in Lengths
      <4>1. old = <<>> => Len(old) <= length
        BY <3>4
      <4> QED
        BY <3>3, <3>5, <4>1
    <3>7. Overwrite(old, s, length) # <<>>
      <4>1. 0 \notin Lengths
        BY ScriptFilesAssumption
      <4>2. Len(<<>>) = 0
        OBVIOUS
      <4> QED
        BY <3>6, <4>1, <4>2, Zenon
    <3>8. CASE x = y
      BY <3>2, <3>5, <3>6, <3>7, <3>8
    <3>9. CASE x # y
      <4>1. x \in DOMAIN files /\ files'[x] = files[x]
        BY <2>3, <3>2, <3>9
      <4> QED
        BY <2>1, <4>1
    <3> QED
      BY <3>8, <3>9
  <2> QED
    BY <1>1, <2>2, <2>3, FileCases, Zenon
<1> QED
  BY <1>2, <1>3, <1>4 DEF Typed

\* The pid of a run is no other live run's.
LEMMA PidsGoodKept ==
    ASSUME Inv, [Next]_vars
    PROVE  PidsGood'
<1>1. Typed /\ PidsGood
  BY DEF Inv
<1>2. NoPid \notin Pids
  BY ScriptFilesAssumption
<1>3. ASSUME NEW m \in Mbs, OnlyRun(m), mb'[m].pid = mb[m].pid,
             mb'[m].state = "new" <=> mb[m].state = "new",
             mb'[m].state = "live" => mb[m].state = "live"
      PROVE  PidsGood'
  BY <1>1, <1>3 DEF PidsGood, OnlyRun, Live
<1>4. ASSUME mb' = mb PROVE PidsGood'
  BY <1>1, <1>4 DEF PidsGood, Live
<1>5. ASSUME NEW m \in Mbs, NEW p \in Pids, StartMb(m, p) PROVE PidsGood'
  <2>1. \A n \in Mbs : Live(n) => mb[n].pid # p
    BY <1>5 DEF StartMb
  <2>2. OnlyRun(m) /\ mb'[m].state = "live" /\ mb'[m].pid = p
    BY <1>1, <1>5, StartFacts, Zenon
  <2>3. \A n \in Mbs : n # m => mb'[n] = mb[n]
    BY <2>2 DEF OnlyRun
  <2>4. \A n \in Mbs : mb'[n].pid = NoPid <=> mb'[n].state = "new"
    BY <1>1, <1>2, <2>2, <2>3 DEF PidsGood
  <2>5. ASSUME NEW k \in Mbs, NEW n \in Mbs, k # n,
               mb'[k].state = "live", mb'[n].state = "live"
        PROVE  mb'[k].pid # mb'[n].pid
    BY <1>1, <2>1, <2>2, <2>3, <2>5 DEF PidsGood, Live
  <2> QED
    BY <2>4, <2>5 DEF PidsGood, Live
<1>6. ASSUME NEW m \in Mbs, NEW name \in Names, NEW length \in Lengths,
             PrepareExec(m, name, length)
      PROVE  PidsGood'
  <2>1. Live(m)
    BY <1>6 DEF PrepareExec, CanPrepare
  <2>2. mb[m].pid \in Pids
    BY <1>1, <2>1, PidType DEF Live
  <2>3. OnlyRun(m) /\ mb'[m].state = mb[m].state /\ mb'[m].pid = mb[m].pid
    BY <1>1, <1>6, <2>2, PrepareFacts, Zenon
  <2> QED
    BY <1>3, <2>3
<1>7. ASSUME NEW m \in Mbs, PrepareExecFails(m) PROVE PidsGood'
  BY <1>1, <1>3, <1>7, PrepareFailsFacts
<1>8. ASSUME NEW m \in Mbs, NEW parallel \in BOOLEAN, Fork(m, parallel) PROVE PidsGood'
  <2>1. OnlyRun(m) /\ mb'[m].state = mb[m].state /\ mb'[m].pid = mb[m].pid
    BY <1>1, <1>8, ForkFacts, Zenon
  <2> QED
    BY <1>3, <2>1
<1>9. ASSUME NEW m \in Mbs, NEW removed, Ends(m, removed) PROVE PidsGood'
  <2>1. OnlyRun(m) /\ mb'[m].state = "dead" /\ mb'[m].pid = mb[m].pid
    BY <1>1, <1>9, EndsFacts, Zenon
  <2>2. mb[m].state = "live"
    BY <1>9 DEF Ends, Live
  <2> QED
    BY <1>3, <2>1, <2>2
<1>10. ASSUME NEW c \in children, ScriptEnds(c) \/ ExecReturns(c) \/ RemoveScript(c)
       PROVE  PidsGood'
  BY <1>4, <1>10 DEF ScriptEnds, ExecReturns, RemoveScript
<1>11. UNCHANGED vars => PidsGood'
  BY <1>4 DEF vars
<1> QED
  BY Cases, <1>5, <1>6, <1>7, <1>8, <1>9, <1>10, <1>11, Zenon

\* A run that is not live any more leaves only shells that run.
LEMMA OrphansRun ==
    ASSUME Typed, PidsGood, Forked, [Next]_vars, NEW c \in children, c \in children',
           ~(Live(c.script[1]))'
    PROVE  c.runs
<1> DEFINE n == c.script[1]
<1>1. n \in Mbs /\ mb[n].state # "new" /\ (~Live(n) => c.runs)
  BY ChildType DEF Forked
<1>2. SUFFICES ASSUME Live(n) PROVE c.runs
  BY <1>1
<1>3. ASSUME NEW m \in Mbs, OnlyRun(m), mb'[m].state = "live" \/ mb'[m].state = mb[m].state
      PROVE  FALSE
  BY <1>1, <1>2, <1>3 DEF OnlyRun, Live
<1>4. ASSUME mb' = mb PROVE FALSE
  BY <1>2, <1>4 DEF Live
<1>5. ASSUME NEW m \in Mbs, NEW p \in Pids, StartMb(m, p) PROVE FALSE
  BY <1>3, <1>5, StartFacts
<1>6. ASSUME NEW m \in Mbs, NEW name \in Names, NEW length \in Lengths,
             PrepareExec(m, name, length)
      PROVE  FALSE
  <2>1. Live(m)
    BY <1>6 DEF PrepareExec, CanPrepare
  <2>2. mb[m].pid \in Pids
    BY <2>1, PidType DEF Live
  <2>3. OnlyRun(m) /\ mb'[m].state = mb[m].state
    BY <1>6, <2>2, PrepareFacts, Zenon
  <2> QED
    BY <1>3, <2>3
<1>7. ASSUME NEW m \in Mbs, PrepareExecFails(m) PROVE FALSE
  BY <1>3, <1>7, PrepareFailsFacts
<1>8. ASSUME NEW m \in Mbs, NEW parallel \in BOOLEAN, Fork(m, parallel) PROVE FALSE
  <2>1. OnlyRun(m) /\ mb'[m].state = mb[m].state
    BY <1>8, ForkFacts, Zenon
  <2> QED
    BY <1>3, <2>1
<1>9. ASSUME NEW m \in Mbs, NEW removed, Ends(m, removed) PROVE c.runs
  <2>1. OnlyRun(m) /\ \A d \in children' : d.script[1] = m => d.runs
    BY <1>9, EndsFacts, Zenon
  <2>2. n = m
    BY <1>1, <1>2, <2>1 DEF OnlyRun, Live
  <2> QED
    BY <2>1, <2>2
<1>10. ASSUME NEW d \in children, ScriptEnds(d) \/ ExecReturns(d) \/ RemoveScript(d)
       PROVE  FALSE
  BY <1>4, <1>10 DEF ScriptEnds, ExecReturns, RemoveScript
<1>11. UNCHANGED vars => mb' = mb
  BY DEF vars
<1> QED
  BY Cases, <1>4, <1>5, <1>6, <1>7, <1>8, <1>9, <1>10, <1>11, Zenon

LEMMA ForkedKept ==
    ASSUME Inv, [Next]_vars
    PROVE  Forked'
<1>1. /\ Typed /\ PidsGood /\ Forked
      /\ mb' \in [Mbs -> MbRecord] /\ \A n \in Mbs : Grows(n)
  BY Growth DEF Inv
<1>2. \A n \in Mbs : mb[n].counter \in Nat /\ mb'[n].counter \in Nat
  BY <1>1, RunType DEF MbRecord
\* A shell's name does not change with its run.
<1>3. ASSUME NEW c \in children
      PROVE  /\ c.script[1] \in Mbs /\ c.script[2] \in Nat
             /\ mb'[c.script[1]].state # "new"
             /\ c.script[2] > 0 /\ c.script[2] <= mb'[c.script[1]].counter
             /\ NameOf(c.path, mb'[c.script[1]].pid, c.script[2] - 1)
  <2>1. /\ c.script[1] \in Mbs /\ c.script[2] \in Nat
        /\ mb[c.script[1]].state # "new"
        /\ c.script[2] > 0 /\ c.script[2] <= mb[c.script[1]].counter
        /\ NameOf(c.path, mb[c.script[1]].pid, c.script[2] - 1)
    BY <1>1, ChildType DEF Forked
  <2>2. /\ mb'[c.script[1]].state # "new" /\ mb'[c.script[1]].pid = mb[c.script[1]].pid
        /\ mb'[c.script[1]].counter >= mb[c.script[1]].counter
    BY <1>1, <2>1 DEF Grows
  <2> QED
    BY <1>2, <2>1, <2>2
<1>4. \A c \in children : /\ \A d \in children : d.script = c.script => d = c
                          /\ ~c.parallel => \A d \in children :
                                              d.script[1] = c.script[1] => d = c
  BY <1>1 DEF Forked
<1>5. CASE children' \subseteq children
  <2> SUFFICES ASSUME NEW c \in children'
               PROVE  /\ mb'[c.script[1]].state # "new"
                      /\ c.script[2] > 0 /\ c.script[2] <= mb'[c.script[1]].counter
                      /\ NameOf(c.path, mb'[c.script[1]].pid, c.script[2] - 1)
                      /\ ~(Live(c.script[1]))' => c.runs
                      /\ \A d \in children' : d.script = c.script => d = c
                      /\ ~c.parallel => \A d \in children' :
                                          d.script[1] = c.script[1] => d = c
    BY Zenon DEF Forked, NameOf, Live
  <2>1. c \in children
    BY <1>5
  <2>2. ~(Live(c.script[1]))' => c.runs
    BY <1>1, <2>1, OrphansRun
  <2>3. /\ \A d \in children' : d.script = c.script => d = c
        /\ ~c.parallel => \A d \in children' : d.script[1] = c.script[1] => d = c
    BY <1>4, <1>5, <2>1
  <2> QED
    BY <1>3, <2>1, <2>2, <2>3
<1>6. ASSUME NEW m \in Mbs, NEW parallel \in BOOLEAN, Fork(m, parallel)
      PROVE  Forked'
  <2> DEFINE e == Shell(m, parallel)
  <2>1. /\ OnlyRun(m) /\ mb'[m].state = mb[m].state /\ mb'[m].pid = mb[m].pid
        /\ mb'[m].counter = mb[m].counter /\ children' = children \cup {e}
        /\ e.script = <<m, mb[m].counter>> /\ e.path = mb[m].path
        /\ e.parallel = parallel /\ e.runs
    BY <1>1, <1>6, ForkFacts, Zenon
  <2>2. /\ Live(m) /\ mb[m].counter \in Nat /\ mb[m].counter > 0
        /\ NameOf(mb[m].path, mb[m].pid, mb[m].counter - 1)
        /\ \A c \in children : c.script[1] = m =>
             c.script[2] < mb[m].counter /\ c.parallel /\ parallel
    BY <1>6, ShellFacts, Zenon
  <2> HIDE DEF e
  <2>3. e.script[1] = m /\ e.script[2] = mb[m].counter
    BY <2>1
  <2>4. \A c \in children : c.script # e.script
    BY <1>3, <2>2, <2>3
  <2> SUFFICES ASSUME NEW c \in children'
               PROVE  /\ mb'[c.script[1]].state # "new"
                      /\ c.script[2] > 0 /\ c.script[2] <= mb'[c.script[1]].counter
                      /\ NameOf(c.path, mb'[c.script[1]].pid, c.script[2] - 1)
                      /\ ~(Live(c.script[1]))' => c.runs
                      /\ \A d \in children' : d.script = c.script => d = c
                      /\ ~c.parallel => \A d \in children' :
                                          d.script[1] = c.script[1] => d = c
    BY Zenon DEF Forked, NameOf, Live
  <2>5. CASE c = e
    <3>1. /\ mb'[c.script[1]].state # "new"
          /\ c.script[2] > 0 /\ c.script[2] <= mb'[c.script[1]].counter
      BY <2>1, <2>2, <2>3, <2>5 DEF Live
    <3>2. NameOf(c.path, mb'[c.script[1]].pid, c.script[2] - 1)
      BY <2>1, <2>2, <2>3, <2>5
    <3>3. \A d \in children' : d.script = c.script => d = c
      BY <2>1, <2>4, <2>5
    <3>4. ~c.parallel => \A d \in children' : d.script[1] = c.script[1] => d = c
      BY <2>1, <2>2, <2>3, <2>5
    <3> QED
      BY <2>1, <2>5, <3>1, <3>2, <3>3, <3>4
  <2>6. CASE c \in children
    <3>1. \A d \in children' : d.script = c.script => d = c
      BY <1>4, <2>1, <2>4, <2>6
    <3>2. ~c.parallel => \A d \in children' : d.script[1] = c.script[1] => d = c
      BY <1>4, <2>1, <2>2, <2>3, <2>6
    <3>3. ~(Live(c.script[1]))' => c.runs
      BY <1>1, <2>6, OrphansRun
    <3> QED
      BY <1>3, <2>6, <3>1, <3>2, <3>3
  <2> QED
    BY <2>1, <2>5, <2>6
<1>7. ASSUME NEW d0 \in children, ScriptEnds(d0)
      PROVE  Forked'
  \* Each shell after the step was one before, with the same script.
  <2>1. /\ mb' = mb
        /\ \A e \in children' :
             \/ e \in children /\ e # d0
             \/ /\ Live(d0.script[1]) /\ e \in ChildRecord /\ e.script = d0.script
                /\ e.path = d0.path /\ e.parallel = d0.parallel /\ ~e.runs
    BY <1>1, <1>7, ScriptEndsFacts
  <2>2. \A e, f \in children' : e \notin children /\ f \notin children => e = f
    BY <1>7 DEF ScriptEnds
  <2>3. ASSUME NEW e \in children'
        PROVE  \E c \in children : /\ e.script = c.script /\ e.path = c.path
                                   /\ e.parallel = c.parallel
                                   /\ e \in children => e = c /\ c # d0
                                   /\ e \notin children => c = d0 /\ Live(c.script[1])
    <3>1. CASE e \in children
      <4>1. e # d0
        <5>1. d0.runs
          BY <1>7 DEF ScriptEnds
        <5> QED
          BY <2>1, <2>3, <5>1
      <4> QED
        BY <3>1, <4>1
    <3>2. CASE e \notin children
      BY <2>1, <3>2
    <3> QED
      BY <3>1, <3>2
  <2> SUFFICES ASSUME NEW e \in children'
               PROVE  /\ mb'[e.script[1]].state # "new"
                      /\ e.script[2] > 0 /\ e.script[2] <= mb'[e.script[1]].counter
                      /\ NameOf(e.path, mb'[e.script[1]].pid, e.script[2] - 1)
                      /\ ~(Live(e.script[1]))' => e.runs
                      /\ \A f \in children' : f.script = e.script => f = e
                      /\ ~e.parallel => \A f \in children' :
                                          f.script[1] = e.script[1] => f = e
    BY Zenon DEF Forked, NameOf, Live
  <2>4. PICK c \in children : /\ e.script = c.script /\ e.path = c.path
                              /\ e.parallel = c.parallel
                              /\ e \in children => e = c /\ c # d0
                              /\ e \notin children => c = d0 /\ Live(c.script[1])
    BY <2>3
  <2>5. /\ mb'[e.script[1]].state # "new"
        /\ e.script[2] > 0 /\ e.script[2] <= mb'[e.script[1]].counter
        /\ NameOf(e.path, mb'[e.script[1]].pid, e.script[2] - 1)
    BY <1>3, <2>4
  <2>6. ~(Live(e.script[1]))' => e.runs
    <3>1. CASE e \in children
      BY <1>1, <3>1, OrphansRun
    <3>2. CASE e \notin children
      BY <2>1, <2>4, <3>2 DEF Live
    <3> QED
      BY <3>1, <3>2
  <2>7. ASSUME NEW f \in children',
               f.script = e.script \/ (~e.parallel /\ f.script[1] = e.script[1])
        PROVE  f = e
    <3>1. PICK d \in children : /\ f.script = d.script /\ f.parallel = d.parallel
                                /\ f \in children => f = d /\ d # d0
                                /\ f \notin children => d = d0
      BY <2>3
    <3>2. d = c
      BY <1>4, <2>4, <2>7, <3>1
    <3> QED
      BY <2>2, <2>4, <3>1, <3>2
  <2> QED
    BY <2>5, <2>6, <2>7
<1> QED
  BY <1>1, <1>5, <1>6, <1>7, ChildCases, Zenon

\* How a run comes to have a file that is written and not run yet.
LEMMA PathCases ==
    ASSUME Inv, [Next]_vars, NEW n \in Mbs, mb'[n].path # NoPath
    PROVE  \/ mb'[n] = mb[n]
           \/ \E name \in Names, length \in Lengths : PrepareExec(n, name, length)
<1>1. Typed /\ PidsGood /\ Prepared
  BY DEF Inv
<1> DEFINE Goal == \/ mb'[n] = mb[n]
                   \/ \E name \in Names, length \in Lengths : PrepareExec(n, name, length)
<1>2. ASSUME NEW m \in Mbs, OnlyRun(m), mb'[m].path = NoPath PROVE Goal
  BY <1>2 DEF OnlyRun
<1>3. ASSUME NEW m \in Mbs, NEW p \in Pids, StartMb(m, p) PROVE Goal
  <2>1. mb[m].path = NoPath
    BY <1>1, <1>3 DEF StartMb, Prepared, Live
  <2> QED
    BY <1>1, <1>2, <1>3, <2>1, StartFacts
<1>4. ASSUME NEW m \in Mbs, NEW name \in Names, NEW length \in Lengths,
             PrepareExec(m, name, length)
      PROVE  Goal
  <2>1. Live(m)
    BY <1>4 DEF PrepareExec, CanPrepare
  <2>2. mb[m].pid \in Pids
    BY <1>1, <2>1, PidType DEF Live
  <2>3. OnlyRun(m)
    BY <1>1, <1>4, <2>2, PrepareFacts, Zenon
  <2>4. m # n => mb'[n] = mb[n]
    BY <2>3 DEF OnlyRun
  <2> QED
    BY <1>4, <2>4
<1>5. ASSUME NEW m \in Mbs, PrepareExecFails(m) PROVE Goal
  <2>1. mb[m].path = NoPath
    BY <1>5 DEF PrepareExecFails, CanPrepare
  <2> QED
    BY <1>1, <1>2, <1>5, <2>1, PrepareFailsFacts
<1>6. ASSUME NEW m \in Mbs, NEW parallel \in BOOLEAN, Fork(m, parallel) PROVE Goal
  <2>1. OnlyRun(m) /\ mb'[m].path = NoPath
    BY <1>1, <1>6, ForkFacts, Zenon
  <2> QED
    BY <1>2, <2>1
<1>7. ASSUME NEW m \in Mbs, NEW removed, Ends(m, removed) PROVE Goal
  <2>1. OnlyRun(m) /\ mb'[m].path = NoPath
    BY <1>1, <1>7, EndsFacts, Zenon
  <2> QED
    BY <1>2, <2>1
<1>8. ASSUME NEW c \in children, ScriptEnds(c) \/ ExecReturns(c) \/ RemoveScript(c)
      PROVE  Goal
  BY <1>8 DEF ScriptEnds, ExecReturns, RemoveScript
<1>9. UNCHANGED vars => Goal
  BY DEF vars
<1> HIDE DEF Goal
<1>10. Goal
  BY Cases, <1>3, <1>4, <1>5, <1>6, <1>7, <1>8, <1>9, Zenon
<1> QED
  BY <1>10 DEF Goal

LEMMA PreparedKept ==
    ASSUME Inv, [Next]_vars
    PROVE  Prepared'
<1>1. Typed /\ PidsGood /\ Forked /\ Prepared
  BY DEF Inv
<1> SUFFICES ASSUME NEW n \in Mbs, mb'[n].path # NoPath
             PROVE  /\ mb'[n].state = "live" /\ mb'[n].counter > 0 /\ mb'[n].wrote \in Lengths
                    /\ NameOf(mb'[n].path, mb'[n].pid, mb'[n].counter - 1)
                    /\ \A c \in children' : c.script[1] = n =>
                         c.script[2] < mb'[n].counter /\ c.parallel
  BY Zenon DEF Prepared, Live, NameOf
<1>2. CASE mb'[n] = mb[n]
  <2>1. /\ mb[n].state = "live" /\ mb[n].counter > 0 /\ mb[n].wrote \in Lengths
        /\ NameOf(mb[n].path, mb[n].pid, mb[n].counter - 1)
        /\ \A c \in children : c.script[1] = n => c.script[2] < mb[n].counter /\ c.parallel
    BY <1>1, <1>2 DEF Prepared, Live
  <2>2. \A c \in children' : c.script[1] = n => c.script[2] < mb[n].counter /\ c.parallel
    <3>1. CASE children' \subseteq children
      BY <2>1, <3>1
    <3>2. ASSUME NEW m \in Mbs, NEW parallel \in BOOLEAN, Fork(m, parallel)
          PROVE  \A c \in children' : c.script[1] = n =>
                   c.script[2] < mb[n].counter /\ c.parallel
      <4>1. /\ mb'[m].path = NoPath /\ children' = children \cup {Shell(m, parallel)}
            /\ Shell(m, parallel).script = <<m, mb[m].counter>>
        BY <1>1, <3>2, ForkFacts, Zenon
      <4>2. Shell(m, parallel).script[1] # n
        BY <4>1
      <4> QED
        BY <2>1, <4>1, <4>2
    <3>3. ASSUME NEW d \in children, ScriptEnds(d)
          PROVE  \A c \in children' : c.script[1] = n =>
                   c.script[2] < mb[n].counter /\ c.parallel
      <4>1. \A e \in children' : \/ e \in children
                                 \/ e.script = d.script /\ e.parallel = d.parallel
        BY <1>1, <3>3, ScriptEndsFacts
      <4> QED
        BY <2>1, <4>1
    <3> QED
      BY <1>1, <3>1, <3>2, <3>3, ChildCases, Zenon
  <2> QED
    BY <1>2, <2>1, <2>2
<1>3. ASSUME NEW name \in Names, NEW length \in Lengths, PrepareExec(n, name, length)
      PROVE  /\ mb'[n].state = "live" /\ mb'[n].counter > 0 /\ mb'[n].wrote \in Lengths
             /\ NameOf(mb'[n].path, mb'[n].pid, mb'[n].counter - 1)
             /\ \A c \in children' : c.script[1] = n =>
                  c.script[2] < mb'[n].counter /\ c.parallel
  <2>1. Live(n) /\ \A c \in Own(n) : c.parallel
    BY <1>3 DEF PrepareExec, CanPrepare
  <2>2. mb[n].pid \in Pids /\ mb[n].counter \in Nat
    BY <1>1, <2>1, PidType, RunType DEF Live
  <2>3. /\ mb'[n].state = mb[n].state /\ mb'[n].pid = mb[n].pid
        /\ mb'[n].counter = mb[n].counter + 1 /\ mb'[n].wrote = length
        /\ NameOf(mb'[n].path, mb[n].pid, mb[n].counter)
        /\ children' = children
    BY <1>1, <1>3, <2>2, PrepareFacts, Zenon
  <2>4. \A c \in children : c.script[1] = n =>
          c.script[2] \in Nat /\ c.script[2] <= mb[n].counter /\ c.parallel
    BY <1>1, <2>1, ChildType DEF Forked, Own
  <2>5. mb'[n].counter - 1 = mb[n].counter /\ mb'[n].counter > 0
    BY <2>2, <2>3
  <2>6. \A c \in children' : c.script[1] = n => c.script[2] < mb'[n].counter /\ c.parallel
    BY <2>2, <2>3, <2>4
  <2>7. NameOf(mb'[n].path, mb'[n].pid, mb'[n].counter - 1)
    BY <2>3, <2>5
  <2> QED
    BY <2>1, <2>3, <2>5, <2>6, <2>7 DEF Live
<1> QED
  BY <1>2, <1>3, PathCases

\* WrittenBy after a step.
WrittenNext(x, s) ==
    /\ mb'[s[1]].state # "new"
    /\ s[2] > 0 /\ s[2] <= mb'[s[1]].counter
    /\ NameOf(x, mb'[s[1]].pid, s[2] - 1)

LEMMA WrittenByStays ==
    ASSUME Typed, PidsGood, [Next]_vars, NEW x, NEW s \in Mbs \X Nat, WrittenBy(x, s)
    PROVE  WrittenNext(x, s)
<1> DEFINE m == s[1]
<1>1. /\ m \in Mbs /\ s[2] \in Nat /\ s[2] > 0 /\ s[2] <= mb[m].counter
      /\ mb[m].state # "new" /\ NameOf(x, mb[m].pid, s[2] - 1)
  BY DEF WrittenBy
<1>2. mb' \in [Mbs -> MbRecord] /\ Grows(m)
  BY <1>1, Growth
<1>3. /\ mb'[m].state # "new" /\ mb'[m].pid = mb[m].pid
      /\ mb[m].counter \in Nat /\ mb'[m].counter \in Nat /\ mb'[m].counter >= mb[m].counter
  BY <1>1, <1>2, RunType DEF Grows, MbRecord
<1>4. s[2] <= mb'[m].counter
  BY <1>1, <1>3
<1>5. NameOf(x, mb'[m].pid, s[2] - 1)
  BY <1>1, <1>3
<1> QED
  BY <1>1, <1>3, <1>4, <1>5 DEF WrittenNext

LEMMA WrittenKept ==
    ASSUME Inv, [Next]_vars
    PROVE  Written'
<1>1. Typed /\ PidsGood /\ Written
  BY DEF Inv
<1> SUFFICES ASSUME NEW x \in DOMAIN files', NEW i \in DOMAIN files'[x],
                    NEW s, s = files'[x][i]
             PROVE  WrittenNext(x, s)
  BY DEF Written, WrittenBy, WrittenNext, NameOf
<1>2. ASSUME x \in DOMAIN files, i \in DOMAIN files[x], s = files[x][i]
      PROVE  WrittenNext(x, s)
  <2>1. s \in Mbs \X Nat /\ WrittenBy(x, s)
    BY <1>1, <1>2 DEF Written, Typed
  <2> QED
    BY <1>1, <2>1, WrittenByStays
<1>3. ASSUME NEW m \in Mbs, NEW name \in Names, NEW length \in Lengths,
             PrepareExec(m, name, length)
      PROVE  WrittenNext(x, s)
  <2> DEFINE path == mb'[m].path
             new == <<m, mb[m].counter + 1>>
  <2>1. Live(m)
    BY <1>3 DEF PrepareExec, CanPrepare
  <2>2. mb[m].pid \in Pids /\ mb[m].counter \in Nat
    BY <1>1, <2>1, PidType, RunType DEF Live
  <2>3. /\ mb'[m].state = mb[m].state /\ mb'[m].pid = mb[m].pid
        /\ mb'[m].counter = mb[m].counter + 1
        /\ NameOf(path, mb[m].pid, mb[m].counter)
        /\ DOMAIN files' = DOMAIN files \cup {path}
        /\ files'[path] = Overwrite(Contents(path), new, length)
        /\ \A y \in DOMAIN files : y # path => files'[y] = files[y]
    BY <1>1, <1>3, <2>2, PrepareFacts, Zenon
  <2>4. new \in Mbs \X Nat /\ length \in Nat \ {0}
    BY <2>2, ScriptFilesAssumption
  <2>5. WrittenNext(path, new)
    <3>1. mb'[m].state # "new" /\ mb[m].counter + 1 > 0 /\ mb[m].counter + 1 <= mb'[m].counter
      BY <2>1, <2>2, <2>3 DEF Live
    <3>2. new[1] = m /\ new[2] = mb[m].counter + 1 /\ new[2] - 1 = mb[m].counter
      BY <2>2
    <3>3. NameOf(path, mb[m].pid, mb[m].counter) /\ mb'[m].pid = mb[m].pid
      BY <2>3
    <3> HIDE DEF path, new
    <3>4. NameOf(path, mb'[m].pid, new[2] - 1)
      BY <3>2, <3>3
    <3> QED
      BY <3>1, <3>2, <3>4 DEF WrittenNext
  <2> HIDE DEF path, new
  <2>6. CASE x = path
    <3>1. Contents(path) \in Seq(Mbs \X Nat)
      BY <1>1 DEF Contents, Typed
    <3>2. IF i <= length THEN s = new
          ELSE i \in DOMAIN Contents(path) /\ s = Contents(path)[i]
      BY <2>3, <2>4, <2>6, <3>1, OverwriteFacts
    <3>3. i \in DOMAIN Contents(path) => x \in DOMAIN files /\ Contents(path) = files[x]
      BY <2>6 DEF Contents
    <3> QED
      BY <1>2, <2>5, <2>6, <3>2, <3>3
  <2>7. CASE x # path
    BY <1>2, <2>3, <2>7
  <2> QED
    BY <2>6, <2>7
<1>4. CASE DOMAIN files' \subseteq DOMAIN files /\ \A y \in DOMAIN files' : files'[y] = files[y]
  BY <1>2, <1>4
<1> QED
  BY <1>1, <1>3, <1>4, FileCases, Zenon

\* A new shell that runs a script is the one that was forked.
LEMMA NewShell ==
    ASSUME Typed, [Next]_vars, NEW c \in children', c \notin children, c.runs
    PROVE  \E m \in Mbs, parallel \in BOOLEAN : Fork(m, parallel) /\ c = Shell(m, parallel)
<1>1. CASE children' \subseteq children
  BY <1>1
<1>2. ASSUME NEW m \in Mbs, NEW parallel \in BOOLEAN, Fork(m, parallel)
      PROVE  c = Shell(m, parallel)
  <2>1. children' = children \cup {Shell(m, parallel)}
    BY <1>2, ForkFacts, Zenon
  <2> QED
    BY <2>1
<1>3. ASSUME NEW d \in children, ScriptEnds(d)
      PROVE  FALSE
  BY <1>3, ScriptEndsFacts
<1> QED
  BY <1>1, <1>2, <1>3, ChildCases, Zenon

LEMMA KeptKept ==
    ASSUME Inv, [Next]_vars
    PROVE  Kept'
<1>1. Typed /\ PidsGood /\ Forked /\ Prepared /\ Written /\ Kept
  BY DEF Inv
<1> SUFFICES ASSUME NEW n \in Mbs, (Live(n))', ~(CounterCut(n))'
             PROVE  /\ \A c \in children' : c.runs /\ c.script[1] = n =>
                         TextNext(c.path, c.script, c.length)
                    /\ mb'[n].path # NoPath =>
                         TextNext(mb'[n].path, <<n, mb'[n].counter>>, mb'[n].wrote)
  BY DEF Kept, Script, OwnText, SamePid, TextNext
<1>2. ASSUME NEW c \in children', c.runs, c.script[1] = n
      PROVE  TextNext(c.path, c.script, c.length)
  <2>1. CASE c \in children
    <3>1. c.path \in DOMAIN files' /\ files'[c.path] = files[c.path]
      <4>1. (Live(c.script[1]))' /\ ~(CounterCut(c.script[1]))'
        BY <1>2
      <4> QED
        BY <1>2, <2>1, <4>1, RunningStays
    <3>2. mb[n].state # "new"
      BY <1>1, <1>2, <2>1 DEF Forked
    <3>3. Live(n) /\ ~CounterCut(n)
      BY <1>1, <3>2, Persist
    <3>4. OwnText(c.path, c.script, c.length)
      BY <1>1, <1>2, <2>1, <3>3 DEF Kept
    <3>5. c.script \in Mbs \X Nat /\ c.length \in Nat
      BY <1>1, <2>1, ChildType
    <3> QED
      BY <1>1, <1>2, <3>1, <3>2, <3>4, <3>5, TextStays
  <2>2. CASE c \notin children
    <3>1. PICK m \in Mbs, parallel \in BOOLEAN : Fork(m, parallel) /\ c = Shell(m, parallel)
      BY <1>1, <1>2, <2>2, NewShell
    <3>2. /\ c.script = <<m, mb[m].counter>> /\ c.path = mb[m].path
          /\ c.length = mb[m].wrote /\ files' = files
      BY <1>1, <3>1, ForkFacts, Zenon
    <3>3. m = n /\ mb[n].path # NoPath /\ mb[n].state # "new"
      BY <1>2, <3>1, <3>2 DEF Fork, Live
    <3>4. Live(n) /\ ~CounterCut(n)
      BY <1>1, <3>3, Persist
    <3>5. OwnText(c.path, c.script, c.length)
      BY <1>1, <3>2, <3>3, <3>4 DEF Kept, Script
    <3>6. c.script \in Mbs \X Nat /\ c.length \in Nat
      BY <1>1, <3>2, RunType
    <3>7. c.path \in DOMAIN files' /\ files'[c.path] = files[c.path]
      BY <3>2, <3>5 DEF OwnText
    <3> QED
      BY <1>1, <1>2, <3>3, <3>5, <3>6, <3>7, TextStays
  <2> QED
    BY <2>1, <2>2
<1>3. ASSUME mb'[n].path # NoPath
      PROVE  TextNext(mb'[n].path, <<n, mb'[n].counter>>, mb'[n].wrote)
  <2>1. CASE mb'[n] = mb[n]
    <3>1. mb[n].path # NoPath
      BY <1>3, <2>1
    <3>2. mb[n].path \in DOMAIN files' /\ files'[mb[n].path] = files[mb[n].path]
      BY <3>1, WrittenStays
    <3>3. mb[n].state # "new"
      BY <1>1, <3>1 DEF Prepared, Live
    <3>4. Live(n) /\ ~CounterCut(n)
      BY <1>1, <3>3, Persist
    <3> DEFINE x == mb[n].path
               s == <<n, mb[n].counter>>
               l == mb[n].wrote
    <3>5. OwnText(x, s, l)
      BY <1>1, <3>1, <3>4 DEF Kept, Script
    <3>6. s \in Mbs \X Nat /\ l \in Nat /\ s[1] = n
      BY <1>1, RunType
    <3>7. x \in DOMAIN files' /\ files'[x] = files[x]
      BY <3>2
    <3> HIDE DEF x, s, l
    <3>8. TextNext(x, s, l)
      BY <1>1, <3>3, <3>5, <3>6, <3>7, TextStays
    <3> QED
      BY <2>1, <3>8 DEF x, s, l
  <2>2. ASSUME NEW name \in Names, NEW length \in Lengths, PrepareExec(n, name, length)
        PROVE  TextNext(mb'[n].path, <<n, mb'[n].counter>>, mb'[n].wrote)
    <3> DEFINE x == mb'[n].path
               s == <<n, mb[n].counter + 1>>
               old == Contents(x)
    <3>1. Live(n)
      BY <2>2 DEF PrepareExec, CanPrepare
    <3>2. mb[n].pid \in Pids /\ mb[n].counter \in Nat /\ mb[n].state # "new"
      BY <1>1, <3>1, PidType, RunType DEF Live
    <3>3. /\ mb'[n].counter = mb[n].counter + 1 /\ mb'[n].wrote = length
          /\ mb'[n].pid = mb[n].pid /\ OnlyRun(n)
          /\ NameOf(x, mb[n].pid, mb[n].counter)
          /\ DOMAIN files' = DOMAIN files \cup {x}
          /\ files'[x] = Overwrite(old, s, length)
      BY <1>1, <2>2, <3>2, PrepareFacts, Zenon
    <3>4. \A k \in Nat : k < mb'[n].counter => Fits(mb[n].pid, k)
      BY <1>1, <3>2, Persist
    <3>5. s \in Mbs \X Nat /\ s[1] = n /\ length \in Nat \ {0}
      BY <3>2, ScriptFilesAssumption
    <3>6. old \in Seq(Mbs \X Nat)
      BY <1>1 DEF Contents, Typed
    <3> HIDE DEF x, s, old
    \* What was there before is of another run with the pid.
    <3>7. ASSUME NEW i \in DOMAIN old
          PROVE  old[i][1] # n /\ mb'[old[i][1]].pid = mb'[n].pid
      <4> DEFINE m == old[i][1]
                 k == old[i][2] - 1
      <4>1. x \in DOMAIN files /\ old = files[x]
        BY <3>7 DEF old, Contents
      <4>2. /\ mb[m].state # "new" /\ old[i][2] > 0 /\ old[i][2] <= mb[m].counter
            /\ NameOf(x, mb[m].pid, k)
        BY <1>1, <4>1 DEF Written, WrittenBy
      <4>3. m \in Mbs /\ old[i][2] \in Nat /\ k \in Nat
        BY <3>6, <4>2
      <4>4. mb[m].counter \in Nat /\ mb[m].pid \in Pids
        BY <1>1, <4>2, <4>3, PidType, RunType
      <4>5. k < mb[m].counter
        BY <4>2, <4>3, <4>4
      <4> HIDE DEF m, k
      <4>6. mb[m].pid = mb[n].pid
        BY <3>2, <3>3, <4>2, <4>3, <4>4, NamePid
      <4>7. m # n
        <5> SUFFICES ASSUME m = n PROVE FALSE
          OBVIOUS
        <5>1. Fits(mb[n].pid, k) /\ Fits(mb[n].pid, mb[n].counter)
          BY <3>2, <3>3, <3>4, <4>3, <4>5
        <5>2. k = mb[n].counter
          BY <3>2, <3>3, <4>2, <4>3, <5>1, NameCounter
        <5> QED
          BY <3>2, <4>5, <5>2
      <4>8. mb'[m] = mb[m]
        BY <3>3, <4>3, <4>7 DEF OnlyRun
      <4> QED
        BY <3>3, <4>6, <4>7, <4>8 DEF m
    <3>8. /\ length <= Len(files'[x])
          /\ \A i \in DOMAIN files'[x] :
               IF i <= length THEN files'[x][i] = s
               ELSE i \in DOMAIN old /\ files'[x][i] = old[i]
      <4>1. Len(old) \in Nat
        BY <3>6
      <4>2. Len(files'[x]) = IF Len(old) <= length THEN length ELSE Len(old)
        BY <3>3, <3>5, <3>6, OverwriteFacts
      <4> QED
        BY <3>3, <3>5, <3>6, <4>1, <4>2, OverwriteFacts
    <3>9. TextNext(x, s, length)
      BY <3>3, <3>5, <3>7, <3>8 DEF TextNext
    <3> QED
      BY <3>3, <3>9 DEF x, s
  <2> QED
    BY <1>3, <2>1, <2>2, PathCases
<1> QED
  BY <1>2, <1>3

LEMMA InvInitially ==
    ASSUME Init
    PROVE  Inv
<1>1. /\ mb = [m \in Mbs |-> [state |-> "new", pid |-> NoPid, counter |-> 0,
                             wrote |-> 0, path |-> NoPath]]
      /\ children = {} /\ files = <<>>
  BY DEF Init
<1>2. DOMAIN files = {}
  BY <1>1
<1>3. \A m \in Mbs : mb[m].state = "new" /\ mb[m].pid = NoPid /\ mb[m].path = NoPath
  BY <1>1
<1>4. Typed
  BY <1>1, <1>2 DEF Typed, MbRecord
<1>5. PidsGood /\ Prepared
  BY <1>3 DEF PidsGood, Prepared, Live
<1>6. Forked
  BY <1>1 DEF Forked
<1>7. Written
  BY <1>2 DEF Written
<1>8. Kept
  BY <1>3 DEF Kept, Live
<1> QED
  BY <1>4, <1>5, <1>6, <1>7, <1>8 DEF Inv

\* Inv is inductive.
LEMMA Invariance ==
    Spec => []Inv
<1>1. Init => Inv
  BY InvInitially
<1>2. Inv /\ [Next]_vars => Inv'
  <2> SUFFICES ASSUME Inv, [Next]_vars PROVE Inv'
    OBVIOUS
  <2> QED
    BY TypedKept, PidsGoodKept, ForkedKept, PreparedKept, WrittenKept, KeptKept, Zenon DEF Inv
<1> QED
  BY <1>1, <1>2, PTL DEF Spec

-----------------------------------------------------------------------------
(* What follows from it.                                                   *)

\* The state of every run of mb, of its shells and of the files stays well-formed;
\* live runs have different pids, and mb_exec runs one script at a time.
THEOREM TypeCorrect == Spec => []TypeOK
<1>1. Inv => TypeOK
  <2> SUFFICES ASSUME Inv PROVE TypeOK
    OBVIOUS
  <2>1. Typed /\ PidsGood /\ Forked
    BY DEF Inv
  <2>2. mb \in [Mbs -> [state : {"new", "live", "dead"}, pid : Pids \cup {NoPid},
                        counter : Nat, wrote : Nat, path : {NoPath} \cup Seq(Nat)]]
    BY <2>1 DEF Typed, MbRecord
  <2>3. \A c \in children :
          /\ DOMAIN c = {"script", "path", "length", "parallel", "runs"}
          /\ c.length \in Lengths /\ c.parallel \in BOOLEAN /\ c.runs \in BOOLEAN
          /\ c.script \in Mbs \X Nat
    BY <2>1 DEF Typed, ChildRecord
  <2>4. \A p \in DOMAIN files : files[p] # <<>> /\ Len(files[p]) \in Lengths
    BY <2>1 DEF Typed
  <2>5. \A m \in Mbs : /\ mb[m].pid = NoPid <=> mb[m].state = "new"
                       /\ \A n \in Mbs \ {m} : mb[m].state = "live" /\ mb[n].state = "live"
                                                 => mb[m].pid # mb[n].pid
    BY <2>1 DEF PidsGood, Live
  <2>6. ASSUME NEW m \in Mbs, NEW c \in Own(m), ~c.parallel
        PROVE  Cardinality(Own(m)) = 1
    <3>1. Own(m) = {c}
      BY <2>1, <2>6 DEF Forked, Own
    <3> QED
      BY <3>1, FS_Singleton
  <2> QED
    BY <2>2, <2>3, <2>4, <2>5, <2>6 DEF TypeOK
<1> QED
  BY <1>1, Invariance, PTL

\* Where the counter is not cut off, no earlier one was.
LEMMA FitsAll ==
    ASSUME Typed, NEW m \in Mbs, mb[m].pid \in Pids, ~CounterCut(m),
           NEW k \in Nat, k < mb[m].counter
    PROVE  Fits(mb[m].pid, k)
<1>1. mb[m].counter \in Nat
  BY RunType
<1>2. mb[m].counter > 0 /\ mb[m].counter - 1 \in Nat /\ k <= mb[m].counter - 1
  BY <1>1
<1>3. Fits(mb[m].pid, mb[m].counter - 1)
  BY <1>2, CutMeans
<1> QED
  BY <1>2, <1>3, FitsBefore

\* create_name_frompid: two scripts that run share a file only if the counter of
\* their run was cut off, or if one is an orphan of a run whose pid was given to the
\* run of the other.
THEOREM PathsCorrect == Spec => []PathsDiffer
<1>1. Inv => PathsDiffer
  <2> SUFFICES ASSUME Inv, NEW c \in children, NEW d \in children, c # d, c.path = d.path
               PROVE  IF c.script[1] = d.script[1] THEN CounterCut(c.script[1])
                      ELSE /\ SamePid(c.script[1], d.script[1])
                           /\ Orphan(c) \/ Orphan(d)
    BY DEF PathsDiffer, Running
  <2> DEFINE m == c.script[1]
             n == d.script[1]
             j == c.script[2] - 1
             k == d.script[2] - 1
  <2>1. Typed /\ PidsGood /\ Forked
    BY DEF Inv
  <2>2. /\ m \in Mbs /\ c.script[2] \in Nat /\ c.script[2] > 0
        /\ mb[m].state # "new" /\ c.script[2] <= mb[m].counter
        /\ NameOf(c.path, mb[m].pid, j)
    BY <2>1, ChildType DEF Forked
  <2>3. /\ n \in Mbs /\ d.script[2] \in Nat /\ d.script[2] > 0
        /\ mb[n].state # "new" /\ d.script[2] <= mb[n].counter
        /\ NameOf(d.path, mb[n].pid, k)
    BY <2>1, ChildType DEF Forked
  <2>4. mb[m].pid \in Pids /\ mb[n].pid \in Pids /\ mb[m].counter \in Nat
    BY <2>1, <2>2, <2>3, PidType, RunType
  <2>5. j \in Nat /\ k \in Nat
    BY <2>2, <2>3
  <2>6. NameOf(c.path, mb[n].pid, k)
    BY <2>3
  <2>7. ASSUME m = n PROVE CounterCut(m)
    <3> SUFFICES ASSUME ~CounterCut(m) PROVE FALSE
      OBVIOUS
    <3>1. j < mb[m].counter /\ k < mb[m].counter
      BY <2>2, <2>3, <2>4, <2>7
    <3> HIDE DEF m, n, j, k
    <3>2. Fits(mb[m].pid, j) /\ Fits(mb[m].pid, k)
      BY <2>1, <2>2, <2>4, <2>5, <3>1, FitsAll
    <3>3. j = k
      BY <2>2, <2>4, <2>5, <2>6, <2>7, <3>2, NameCounter
    <3>4. c.script[2] = d.script[2]
      BY <2>2, <2>3, <3>3 DEF j, k
    <3>5. c.script = d.script
      BY <2>1, <2>7, <3>4, SameScript DEF m, n
    <3> QED
      BY <2>1, <3>5 DEF Forked
  <2>8. ASSUME m # n PROVE SamePid(m, n) /\ (mb[m].state = "dead" \/ mb[n].state = "dead")
    <3> HIDE DEF m, n, j, k
    <3>1. mb[m].pid = mb[n].pid
      BY <2>2, <2>4, <2>5, <2>6, NamePid
    <3>2. ~(Live(m) /\ Live(n))
      BY <2>1, <2>2, <2>3, <2>8, <3>1 DEF PidsGood
    <3> QED
      BY <2>1, <2>2, <2>3, <2>8, <3>1, <3>2, RunType DEF SamePid, Live
  <2> QED
    BY <2>7, <2>8 DEF Orphan
<1> QED
  BY <1>1, Invariance, PTL

\* A script a run of mb waits for stands in its file with nothing before it; what
\* stands behind it is of an earlier run with the same pid, whose file was longer
\* (_prepare_exec opens the file without O_TRUNC). A cut off counter is excepted.
THEOREM OwnScriptCorrect == Spec => []RunsOwnScript
<1>1. Inv => RunsOwnScript
  <2> SUFFICES ASSUME Inv, NEW c \in children, c.runs,
                      ~CounterCut(c.script[1]), ~Orphan(c)
               PROVE  OwnText(c.path, c.script, c.length)
    BY DEF RunsOwnScript, Running
  <2>1. Typed /\ Forked /\ Kept
    BY DEF Inv
  <2>2. c.script[1] \in Mbs /\ mb[c.script[1]].state # "new"
    BY <2>1, ChildType DEF Forked
  <2>3. Live(c.script[1])
    BY <2>1, <2>2, RunType DEF Live, Orphan
  <2> QED
    BY <2>1, <2>2, <2>3 DEF Kept
<1> QED
  BY <1>1, Invariance, PTL

\* While a script runs whose mb is there and whose counter fits, no step writes or
\* removes its file.
THEOREM FileKeptCorrect == Spec => RunningFileKept
<1>1. Inv /\ [Next]_vars =>
        \A c \in Running \cap Running' :
          \/ c.path \in (DOMAIN files) \cap (DOMAIN files') /\ files'[c.path] = files[c.path]
          \/ (Orphan(c))' \/ (CounterCut(c.script[1]))'
  <2> SUFFICES ASSUME Inv, [Next]_vars, NEW c \in children, c \in children', c.runs,
                      ~(Orphan(c))', ~(CounterCut(c.script[1]))'
               PROVE  /\ c.path \in (DOMAIN files) \cap (DOMAIN files')
                      /\ files'[c.path] = files[c.path]
    BY DEF Running
  <2>1. Typed /\ PidsGood /\ Forked
    BY DEF Inv
  <2>2. c.script[1] \in Mbs /\ mb[c.script[1]].state # "new"
    BY <2>1, ChildType DEF Forked
  <2>3. mb' \in [Mbs -> MbRecord] /\ mb'[c.script[1]].state # "new"
    BY <2>1, <2>2, Growth DEF Grows
  <2>4. (Live(c.script[1]))'
    BY <2>2, <2>3 DEF Live, Orphan, MbRecord
  <2> QED
    BY <2>4, RunningStays
<1> QED
  BY <1>1, Invariance, PTL DEF Spec, RunningFileKept
=============================================================================
