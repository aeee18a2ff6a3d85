----------------------------- MODULE DataFacts -----------------------------
(***************************************************************************)
(* What the proofs need of numbers and of sequences and the library does   *)
(* not state: remainders, least elements, and what appending, removing the *)
(* first or some element does to the elements of a sequence that holds     *)
(* none of them twice: the lists, queues and arrays of the driver.         *)
(***************************************************************************)
EXTENDS Integers, SequencesExt, SequenceTheorems, FiniteSetTheorems, TLAPS

-----------------------------------------------------------------------------
(***************************************************************************)
(* Numbers.                                                                *)
(***************************************************************************)
\* A set of natural numbers has a least element: the intervals below its elements are
\* finite sets, among which one has no other inside.
LEMMA LeastElement ==
  ASSUME NEW T, T \subseteq Nat, T # {}
  PROVE  \E m \in T : \A n \in T : m <= n
<1> DEFINE Below(n) == 1 .. n
           Belows == {1 .. n : n \in T}
<1>1. Belows \subseteq FiniteSubsetsOf(Nat) /\ Belows # {}
  <2>1. \A n \in T : IsFiniteSet(1 .. n) /\ 1 .. n \in SUBSET Nat
    BY FS_Interval
  <2>2. QED
    BY <2>1 DEF FiniteSubsetsOf
<1>2. PICK B \in Belows : \A C \in Belows : <<C, B>> \notin StrictSubsetOrdering(Nat)
  BY <1>1, FS_StrictSubsetOrderingWellFounded, WFMin
<1>3. PICK m \in T : B = 1 .. m
  OBVIOUS
<1>4. ASSUME NEW n \in T, ~(m <= n)
      PROVE  FALSE
  <2>1. m \in Nat /\ n \in Nat /\ n < m
    BY <1>4
  <2>2. (1 .. n) \subseteq (1 .. m) /\ m \in 1 .. m /\ m \notin 1 .. n
    BY <2>1
  <2>3. <<1 .. n, B>> \in StrictSubsetOrdering(Nat)
    BY <1>3, <2>1, <2>2 DEF StrictSubsetOrdering
  <2>4. QED
    BY <1>2, <2>3
<1>5. QED
  BY <1>4

LEMMA MultipleIsFar ==
  ASSUME NEW m \in Nat \ {0}, NEW q \in Int, q # 0
  PROVE  m * q >= m \/ m * q <= -m
<1>1. CASE q >= 1
  <2>1. m * (q - 1) >= 0
    BY <1>1
  <2>2. m * q = m * (q - 1) + m
    OBVIOUS
  <2>3. QED
    BY <2>1, <2>2
<1>2. CASE q <= -1
  <2>1. m * (-1 - q) >= 0
    BY <1>2
  <2>2. m * q = -m - m * (-1 - q)
    OBVIOUS
  <2>3. QED
    BY <2>1, <2>2
<1>3. QED
  BY <1>1, <1>2

LEMMA RemainderIs ==
  ASSUME NEW m \in Nat \ {0}, NEW a \in Int, NEW q \in Int, NEW r \in 0 .. m - 1, a = m * q + r
  PROVE  a % m = r
<1>1. a = m * (a \div m) + (a % m) /\ a % m \in 0 .. m - 1 /\ a \div m \in Int
  OBVIOUS
<1> DEFINE d == (a \div m) - q
<1>2. d \in Int /\ m * d = r - (a % m)
  <2>1. m * d = m * (a \div m) - m * q
    BY <1>1
  <2>2. QED
    BY <1>1, <2>1
<1>3. d = 0
  BY <1>1, <1>2, MultipleIsFar
<1>4. QED
  BY <1>1, <1>2, <1>3

LEMMA Remainder ==
  ASSUME NEW m \in Nat \ {0}, NEW a \in Int
  PROVE  a % m \in 0 .. m - 1 /\ \E q \in Int : a = m * q + (a % m)
<1>1. a = m * (a \div m) + (a % m) /\ a % m \in 0 .. m - 1 /\ a \div m \in Int
  OBVIOUS
<1>2. QED
  BY <1>1

\* Remainders can be taken before adding.
LEMMA SumRemainder ==
  ASSUME NEW m \in Nat \ {0}, NEW a \in Int, NEW b \in Int
  PROVE  ((a % m) + b) % m = (a + b) % m
<1> DEFINE x == (a % m) + b
<1>1. PICK q \in Int : a = m * q + (a % m)
  BY Remainder
<1>2. a % m \in Int /\ x \in Int
  BY Remainder
<1> HIDE DEF x
<1>3. PICK p \in Int : x = m * p + (x % m)
  BY <1>2, Remainder
<1>4. x % m \in 0 .. m - 1
  BY <1>2, Remainder
<1>5. m * (q + p) = m * q + m * p /\ q + p \in Int
  OBVIOUS
<1>6. x % m \in Int /\ m * q \in Int /\ m * p \in Int
  BY <1>4
<1>7. a + b = m * (q + p) + (x % m)
  <2>1. x = (a % m) + b
    BY DEF x
  <2> HIDE DEF x
  <2>2. \A s, t, u, v \in Int : a = s + t /\ x = t + b /\ x = u + v => a + b = (s + u) + v
    OBVIOUS
  <2> QED
    BY <1>1, <1>2, <1>3, <1>5, <1>6, <2>1, <2>2
<1>8. (a + b) % m = x % m
  <2> DEFINE e == a + b
             r == x % m
             z == q + p
  <2>1. e \in Int /\ r \in 0 .. m - 1 /\ z \in Int /\ e = m * z + r
    BY <1>4, <1>5, <1>7
  <2> HIDE DEF e, r, z
  <2>2. e % m = r
    BY <2>1, RemainderIs
  <2> QED
    BY <2>2 DEF e, r
<1> QED
  BY <1>8 DEF x

\* A number has one quotient.
LEMMA QuotientIs ==
  ASSUME NEW m \in Nat \ {0}, NEW a \in Int, NEW q \in Int, NEW r \in 0 .. m - 1, a = m * q + r
  PROVE  a \div m = q
<1>1. a = m * (a \div m) + (a % m) /\ a \div m \in Int
  OBVIOUS
<1>2. a % m = r
  BY RemainderIs
<1> DEFINE d == (a \div m) - q
<1>3. d \in Int /\ m * d = 0
  <2>1. m * d = m * (a \div m) - m * q
    BY <1>1
  <2>2. m * (a \div m) \in Int /\ m * q \in Int /\ r \in Int
    BY <1>1
  <2> QED
    BY <1>1, <1>2, <2>1, <2>2
<1>4. d = 0
  BY <1>3, MultipleIsFar
<1>5. QED
  BY <1>1, <1>4

\* Numbers in base m are ordered by their first digits, then by their last one.
LEMMA DigitOrder ==
  ASSUME NEW m \in Nat \ {0}, NEW i \in Int, NEW f \in Int,
         NEW k \in 0 .. m - 1, NEW r \in 0 .. m - 1
  PROVE  m * i + k < m * f + r <=> i < f \/ (i = f /\ k < r)
<1>1. m * i \in Int /\ m * f \in Int
  OBVIOUS
<1>2. CASE i < f
  <2>1. m * (f - i - 1) >= 0
    BY <1>2
  <2>2. m * (f - i - 1) = m * f - m * i - m
    OBVIOUS
  <2>3. QED
    BY <1>1, <1>2, <2>1, <2>2
<1>3. CASE i = f
  BY <1>1, <1>3
<1>4. CASE i > f
  <2>1. m * (i - f - 1) >= 0
    BY <1>4
  <2>2. m * (i - f - 1) = m * i - m * f - m
    OBVIOUS
  <2>3. QED
    BY <1>1, <1>4, <2>1, <2>2
<1>5. QED
  BY <1>2, <1>3, <1>4

-----------------------------------------------------------------------------
(***************************************************************************)
(* Sequences.                                                              *)
(***************************************************************************)
\* RemoveAt closes the gap: what was behind the element moves up by one.
LEMMA RemoveAtShape ==
  ASSUME NEW S, NEW s \in Seq(S), NEW p \in DOMAIN s
  PROVE  /\ RemoveAt(s, p) \in Seq(S)
         /\ DOMAIN RemoveAt(s, p) = 1 .. Len(s) - 1
         /\ \A i \in 1 .. Len(s) - 1 :
              RemoveAt(s, p)[i] = IF i < p THEN s[i] ELSE s[i + 1]
<1> DEFINE n == Len(s)
           left == SubSeq(s, 1, p - 1)
           right == SubSeq(s, p + 1, n)
<1>1. n \in Nat /\ DOMAIN s = 1 .. n /\ p \in 1 .. n
  BY LenProperties
<1>2. left \in Seq(S) /\ Len(left) = p - 1 /\ \A i \in 1 .. p - 1 : left[i] = s[i]
  <2>1. 1 \in 1 .. n + 1 /\ p - 1 \in 1 - 1 .. n
    BY <1>1
  <2>2. \A i \in 1 .. p - 1 : i \in 1 .. n
    BY <1>1
  <2>3. \A i \in 1 .. n : s[i] \in S
    BY <1>1, ElementOfSeq
  <2>4. QED
    BY <1>1, <2>1, <2>2, <2>3, SubSeqProperties
<1>3. right \in Seq(S) /\ Len(right) = n - p /\ \A i \in 1 .. n - p : right[i] = s[p + i]
  <2>1. p + 1 \in 1 .. n + 1 /\ n \in p + 1 - 1 .. n
    BY <1>1
  <2>2. \A i \in 1 .. n : s[i] \in S
    BY <1>1, ElementOfSeq
  <2>3. QED
    BY <1>1, <2>1, <2>2, SubSeqProperties
<1>4. RemoveAt(s, p) = left \o right
  BY DEF RemoveAt
<1> HIDE DEF left, right
<1>5. left \o right \in Seq(S) /\ Len(left \o right) = n - 1
      /\ \A i \in 1 .. n - 1 :
           (left \o right)[i] = IF i <= p - 1 THEN left[i] ELSE right[i - (p - 1)]
  <2>1. Len(left) + Len(right) = n - 1
    BY <1>1, <1>2, <1>3
  <2>2. left \o right \in Seq(S) /\ Len(left \o right) = Len(left) + Len(right)
        /\ \A i \in 1 .. Len(left) + Len(right) :
             (left \o right)[i] = IF i <= Len(left) THEN left[i] ELSE right[i - Len(left)]
    BY <1>2, <1>3, ConcatProperties
  <2>3. QED
    BY <1>2, <2>1, <2>2
<1>6. DOMAIN (left \o right) = 1 .. n - 1
  BY <1>5, LenProperties
<1>7. ASSUME NEW i \in 1 .. n - 1
      PROVE  (left \o right)[i] = IF i < p THEN s[i] ELSE s[i + 1]
  <2>1. CASE i < p
    <3>1. i \in 1 .. p - 1
      BY <1>1, <2>1
    <3>2. QED
      BY <1>1, <1>2, <1>5, <2>1, <3>1
  <2>2. CASE ~(i < p)
    <3>1. i - (p - 1) \in 1 .. n - p /\ p + (i - (p - 1)) = i + 1 /\ ~(i <= p - 1)
      BY <1>1, <2>2
    <3>2. (left \o right)[i] = right[i - (p - 1)]
      BY <1>5, <3>1
    <3>3. QED
      BY <1>3, <2>2, <3>1, <3>2
  <2>3. QED
    BY <2>1, <2>2
<1>8. QED
  BY <1>4, <1>5, <1>6, <1>7

\* A sequence without repetitions has as many elements as places.
LEMMA InjectiveCounts ==
  ASSUME NEW S, NEW s \in Seq(S), IsInjective(s)
  PROVE  IsFiniteSet(ToSet(s)) /\ Cardinality(ToSet(s)) = Len(s)
<1> DEFINE n == Len(s)
<1>1. n \in Nat /\ DOMAIN s = 1 .. n /\ s \in [1 .. n -> S]
  BY LenProperties
<1>2. IsFiniteSet(1 .. n) /\ Cardinality(1 .. n) = n
  BY <1>1, FS_Interval
<1>3. s \in Bijection(1 .. n, ToSet(s))
  BY <1>1 DEF Bijection, Injection, IsInjective, Surjection, ToSet
<1> QED
  BY <1>2, <1>3, FS_Bijection DEF ExistsBijection

LEMMA AppendShape ==
  ASSUME NEW S, NEW s \in Seq(S), NEW e \in S
  PROVE  /\ Append(s, e) \in Seq(S) /\ Len(Append(s, e)) = Len(s) + 1
         /\ ToSet(Append(s, e)) = ToSet(s) \cup {e}
         /\ IsInjective(s) /\ e \notin ToSet(s) => IsInjective(Append(s, e))
<1> DEFINE n == Len(s)
           t == Append(s, e)
<1>1. /\ n \in Nat /\ DOMAIN s = 1 .. n /\ t \in Seq(S) /\ Len(t) = n + 1
      /\ DOMAIN t = 1 .. n + 1 /\ t[n + 1] = e /\ \A i \in 1 .. n : t[i] = s[i]
  BY LenProperties, AppendProperties
<1> HIDE DEF t, n
<1>2. ToSet(t) = ToSet(s) \cup {e}
  BY <1>1 DEF ToSet
<1>3. ASSUME IsInjective(s), e \notin ToSet(s) PROVE IsInjective(t)
  <2>1. \A i \in 1 .. n : s[i] # e
    BY <1>1, <1>3 DEF ToSet
  <2> QED
    BY <1>1, <1>3, <2>1 DEF IsInjective
<1> QED
  BY <1>1, <1>2, <1>3 DEF t, n

LEMMA TailShape ==
  ASSUME NEW S, NEW s \in Seq(S), s # <<>>
  PROVE  /\ Head(s) \in S /\ Head(s) \in ToSet(s)
         /\ Tail(s) \in Seq(S) /\ Len(Tail(s)) = Len(s) - 1
         /\ IsInjective(s) => IsInjective(Tail(s)) /\ ToSet(Tail(s)) = ToSet(s) \ {Head(s)}
<1> DEFINE n == Len(s)
           t == Tail(s)
<1>1. /\ n \in Nat /\ n >= 1 /\ DOMAIN s = 1 .. n /\ Head(s) = s[1] /\ Head(s) \in S
      /\ t \in Seq(S) /\ Len(t) = n - 1 /\ DOMAIN t = 1 .. n - 1
      /\ \A i \in 1 .. n - 1 : t[i] = s[i + 1]
  BY EmptySeq, LenProperties, HeadTailProperties
<1> HIDE DEF t, n
<1>2. Head(s) \in ToSet(s)
  BY <1>1 DEF ToSet
<1>3. ASSUME IsInjective(s) PROVE IsInjective(t)
  <2> SUFFICES ASSUME NEW i \in 1 .. n - 1, NEW j \in 1 .. n - 1, t[i] = t[j] PROVE i = j
    BY <1>1 DEF IsInjective
  <2>1. i + 1 \in 1 .. n /\ j + 1 \in 1 .. n /\ s[i + 1] = s[j + 1]
    BY <1>1
  <2>2. \A a, b \in 1 .. n : s[a] = s[b] => a = b
    BY <1>1, <1>3 DEF IsInjective
  <2>3. i + 1 = j + 1
    BY <2>1, <2>2
  <2> QED
    BY <1>1, <2>3
<1>4. ASSUME IsInjective(s) PROVE ToSet(t) = ToSet(s) \ {Head(s)}
  <2>1. ASSUME NEW e \in ToSet(t) PROVE e \in ToSet(s) /\ e # Head(s)
    <3>1. PICK i \in 1 .. n - 1 : e = s[i + 1]
      BY <1>1 DEF ToSet
    <3>2. i + 1 \in 1 .. n /\ 1 \in 1 .. n /\ i + 1 # 1
      BY <1>1
    <3> QED
      BY <1>1, <1>4, <3>1, <3>2 DEF ToSet, IsInjective
  <2>2. ASSUME NEW e \in ToSet(s), e # Head(s) PROVE e \in ToSet(t)
    <3>1. PICK i \in 1 .. n : e = s[i] /\ i # 1
      BY <1>1, <2>2 DEF ToSet
    <3>2. i - 1 \in 1 .. n - 1 /\ (i - 1) + 1 = i
      BY <1>1, <3>1
    <3>3. t[i - 1] = e
      BY <1>1, <3>1, <3>2
    <3> QED
      BY <1>1, <3>2, <3>3 DEF ToSet
  <2> QED
    BY <2>1, <2>2
<1> QED
  BY <1>1, <1>2, <1>3, <1>4 DEF t, n

LEMMA ConcatIsInjective ==
  ASSUME NEW S, NEW s \in Seq(S), NEW t \in Seq(S),
         IsInjective(s), IsInjective(t), ToSet(s) \cap ToSet(t) = {}
  PROVE  IsInjective(s \o t)
<1> DEFINE n == Len(s)
           m == Len(t)
           u == s \o t
<1>1. /\ n \in Nat /\ m \in Nat /\ DOMAIN s = 1 .. n /\ DOMAIN t = 1 .. m
      /\ DOMAIN u = 1 .. n + m
      /\ \A i \in 1 .. n + m : u[i] = IF i <= n THEN s[i] ELSE t[i - n]
  BY LenProperties, ConcatProperties
<1> HIDE DEF n, m, u
<1>2. \A i \in 1 .. n, j \in 1 .. m : s[i] # t[j]
  BY <1>1 DEF ToSet
<1> SUFFICES ASSUME NEW i \in 1 .. n + m, NEW j \in 1 .. n + m, u[i] = u[j] PROVE i = j
  BY <1>1 DEF IsInjective, u
<1>3. CASE i <= n /\ j <= n
  <2>1. i \in 1 .. n /\ j \in 1 .. n /\ s[i] = s[j]
    BY <1>1, <1>3
  <2> QED
    BY <1>1, <2>1 DEF IsInjective
<1>4. CASE ~(i <= n) /\ ~(j <= n)
  <2>1. i - n \in 1 .. m /\ j - n \in 1 .. m /\ t[i - n] = t[j - n]
    BY <1>1, <1>4
  <2>2. \A a, b \in 1 .. m : t[a] = t[b] => a = b
    BY <1>1 DEF IsInjective
  <2>3. i - n = j - n
    BY <2>1, <2>2
  <2> QED
    BY <1>1, <2>3
<1>5. CASE i <= n /\ ~(j <= n)
  <2>1. i \in 1 .. n /\ j - n \in 1 .. m /\ s[i] = t[j - n]
    BY <1>1, <1>5
  <2> QED
    BY <1>2, <2>1
<1>6. CASE ~(i <= n) /\ j <= n
  <2>1. j \in 1 .. n /\ i - n \in 1 .. m /\ s[j] = t[i - n]
    BY <1>1, <1>6
  <2> QED
    BY <1>2, <2>1
<1> QED
  BY <1>3, <1>4, <1>5, <1>6
=============================================================================
