---------------------------- MODULE EntityProofs ----------------------------
(***************************************************************************)
(* Theorems about the value computations of the entities: about Money for  *)
(* all amounts, factors and currencies, and about Backoff for any number   *)
(* of failures and any jitter.                                             *)
(***************************************************************************)
EXTENDS Money, Backoff, FiniteSetTheorems, TLAPS

\* What integer division means for natural numbers.
LEMMA Division ==
  ASSUME NEW x \in Nat, NEW y \in Nat \ {0}
  PROVE  /\ x \div y \in Nat
         /\ y * (x \div y) <= x
         /\ x < y * (x \div y) + y
BY SMT

\* Rounding half up moves an amount by at most half a cent, and a tie up.
LEMMA HalfUpIsNear ==
  ASSUME NEW n \in Nat, NEW d \in Nat \ {0}
  PROVE  /\ HalfUp(n, d) \in Nat
         /\ 2 * (d * HalfUp(n, d)) <= 2 * n + d
         /\ 2 * n < 2 * (d * HalfUp(n, d)) + d
<1> DEFINE c == HalfUp(n, d)
<1>1. 2 * n + d \in Nat /\ 2 * d \in Nat \ {0}
  OBVIOUS
<1>2. /\ c \in Nat
      /\ (2 * d) * c <= 2 * n + d
      /\ 2 * n + d < (2 * d) * c + 2 * d
  BY <1>1, Division DEF HalfUp
<1>3. (2 * d) * c = 2 * (d * c)
  BY <1>2
<1> QED
  BY <1>2, <1>3

-----------------------------------------------------------------------------
\* The constructor gives an amount or raises.
LEMMA MakeType ==
  ASSUME NEW n \in Int, NEW d \in Nat \ {0}, NEW c \in Currency
  PROVE  Make(n, d, c) \in Amount \cup {Rejected}
<1>1. CASE n < 0
  BY <1>1 DEF Make
<1>2. CASE n >= 0
  <2>1. n \in Nat
    BY <1>2
  <2>2. HalfUp(n, d) \in Nat
    BY <2>1, HalfUpIsNear
  <2> QED
    BY <1>2, <2>2 DEF Make, Amount
<1> QED
  BY <1>1, <1>2

\* So do the operators: no calculation leaves the whole, non-negative cents.
LEMMA OperatorsType ==
  ASSUME NEW a \in Amount
  PROVE  /\ \A b \in Amount : Plus(a, b) \in Amount \cup {Rejected}
                              /\ Minus(a, b) \in Amount \cup {Rejected}
         /\ \A f \in Factor : Times(a, f) \in Amount \cup {Rejected}
                              /\ DividedBy(a, f) \in Amount \cup {Rejected}
<1>1. a.cents \in Nat /\ a.currency \in Currency
  BY DEF Amount
<1>2. ASSUME NEW b \in Amount
      PROVE  Plus(a, b) \in Amount \cup {Rejected} /\ Minus(a, b) \in Amount \cup {Rejected}
  <2>1. a.cents + b.cents \in Int /\ a.cents - b.cents \in Int /\ 1 \in Nat \ {0}
    BY <1>1 DEF Amount
  <2> QED
    BY <1>1, <2>1, MakeType DEF Plus, Minus
<1>3. ASSUME NEW f \in Factor
      PROVE  Times(a, f) \in Amount \cup {Rejected} /\ DividedBy(a, f) \in Amount \cup {Rejected}
  <2>1. f.num \in Int /\ f.den \in Nat \ {0}
    BY MoneyAssumption
  <2>2. a.cents * f.num \in Int /\ a.cents * f.den \in Int /\ -(a.cents * f.den) \in Int
    BY <1>1, <2>1
  <2>3. Times(a, f) \in Amount \cup {Rejected}
    BY <1>1, <2>1, <2>2, MakeType DEF Times
  <2>4. CASE f.num = 0
    BY <2>3, <2>4 DEF DividedBy
  <2>5. CASE f.num > 0
    <3>1. f.num \in Nat \ {0} /\ f.num # 0 /\ ~(f.num < 0)
      BY <2>1, <2>5
    <3>2. DividedBy(a, f) = Make(a.cents * f.den, f.num, a.currency)
      BY <3>1, <2>5 DEF DividedBy
    <3> QED
      BY <1>1, <2>2, <2>3, <3>1, <3>2, MakeType
  <2>6. CASE f.num < 0
    <3>1. -f.num \in Nat \ {0} /\ f.num # 0 /\ ~(f.num > 0)
      BY <2>1, <2>6
    <3>2. DividedBy(a, f) = Make(-(a.cents * f.den), -f.num, a.currency)
      BY <3>1, <2>6 DEF DividedBy
    <3> QED
      BY <1>1, <2>2, <2>3, <3>1, <3>2, MakeType
  <2> QED
    BY <2>1, <2>4, <2>5, <2>6
<1> QED
  BY <1>2, <1>3

\* Every amount a calculation reaches is a non-negative number of cents of
\* a currency.
THEOREM AmountsStayWhole == MoneySpec => []MoneyTypeOK
<1>1. MoneyInit => MoneyTypeOK
  BY DEF MoneyInit, MoneyTypeOK, Amount
<1>2. MoneyTypeOK /\ [MoneyNext]_held => MoneyTypeOK'
  <2> SUFFICES ASSUME MoneyTypeOK, MoneyNext
               PROVE  held' \in Amount
    BY DEF MoneyTypeOK
  <2>1. ASSUME NEW r \in Amount \cup {Rejected}, Becomes(r)
        PROVE  held' \in Amount
    BY <2>1 DEF Becomes, MoneyTypeOK
  <2>2. ASSUME NEW n \in Cents, NEW c \in Currency,
               LET other == [cents |-> n, currency |-> c]
               IN  Becomes(Plus(held, other)) \/ Becomes(Minus(held, other))
        PROVE  held' \in Amount
    <3>1. [cents |-> n, currency |-> c] \in Amount
      BY MoneyAssumption DEF Amount
    <3> QED
      BY <2>1, <2>2, <3>1, OperatorsType DEF MoneyTypeOK
  <2>3. ASSUME NEW f \in Factor, Becomes(Times(held, f)) \/ Becomes(DividedBy(held, f))
        PROVE  held' \in Amount
    BY <2>1, <2>3, OperatorsType DEF MoneyTypeOK
  <2> QED
    BY <2>2, <2>3 DEF MoneyNext
<1> QED
  BY <1>1, <1>2, PTL DEF MoneySpec

\* Splitting makes or loses at most half a cent a share, whatever the amount
\* and however many the shares.
THEOREM SharesNeverDrift == MoneySpec => []SharesAddUp
<1>1. MoneyTypeOK => SharesAddUp
  <2> SUFFICES ASSUME MoneyTypeOK, NEW k \in 1..MaxCents
               PROVE  2 * Distance(k * DividedBy(held, [num |-> k, den |-> 1]).cents, held.cents) <= k
    BY DEF SharesAddUp
  <2> DEFINE n == held.cents
             c == HalfUp(n, k)
  <2>1. k \in Nat \ {0} /\ n \in Nat
    BY MoneyAssumption DEF MoneyTypeOK, Amount
  <2>2. c \in Nat /\ 2 * (k * c) <= 2 * n + k /\ 2 * n < 2 * (k * c) + k
    BY <2>1, HalfUpIsNear
  <2>3. DividedBy(held, [num |-> k, den |-> 1]).cents = c
    <3>1. n * 1 = n /\ ~(n < 0) /\ k # 0 /\ k > 0 /\ ~(k < 0)
      BY <2>1
    <3>2. DividedBy(held, [num |-> k, den |-> 1]) = Make(n * 1, k, held.currency)
      BY <3>1 DEF DividedBy
    <3> QED
      BY <3>1, <3>2 DEF Make
  <2>4. k * c \in Nat
    BY <2>1, <2>2
  <2> HIDE DEF c
  <2> QED
    BY <2>1, <2>2, <2>3, <2>4 DEF Distance
<1> QED
  BY <1>1, AmountsStayWhole, PTL
-----------------------------------------------------------------------------
\* Whole cents are not moved by rounding, in whatever parts they are given.
LEMMA WholeCentsStay ==
  ASSUME NEW q \in Nat, NEW d \in Nat \ {0}
  PROVE  HalfUp(q * d, d) = q
<1> DEFINE h == HalfUp(q * d, d)
<1>1. q * d \in Nat
  OBVIOUS
<1>2. h \in Nat /\ 2 * (d * h) <= 2 * (q * d) + d /\ 2 * (q * d) < 2 * (d * h) + d
  BY <1>1, HalfUpIsNear
<1> HIDE DEF h
<1>3. ~(h >= q + 1)
  <2> SUFFICES ASSUME h >= q + 1
               PROVE  FALSE
    OBVIOUS
  <2> DEFINE k == h - (q + 1)
  <2>1. k \in Nat /\ h = q + 1 + k
    BY <1>2
  <2> HIDE DEF k
  <2>2. d * h = q * d + d + d * k /\ d * k \in Nat
    BY <2>1
  <2> QED
    BY <1>1, <1>2, <2>2
<1>4. ~(q >= h + 1)
  <2> SUFFICES ASSUME q >= h + 1
               PROVE  FALSE
    OBVIOUS
  <2> DEFINE k == q - (h + 1)
  <2>1. k \in Nat /\ q = h + 1 + k
    BY <1>2
  <2> HIDE DEF k
  <2>2. q * d = d * h + d + d * k /\ d * k \in Nat /\ d * h \in Nat
    BY <1>2, <2>1
  <2> QED
    BY <1>2, <2>2
<1>5. h = q
  BY <1>2, <1>3, <1>4
<1> QED
  BY <1>5 DEF h

\* An amount that passes the request validation is stored and shown as it
\* was sent, for every number of digits the column has.
THEOREM AcceptedIsStored == MoneySpec => []StoredAsSent
<1>1. MoneyTypeOK => StoredAsSent
  <2> SUFFICES ASSUME MoneyTypeOK, NEW d \in {1, 10, 100}, NEW r \in 0..99,
                      Accepted(held.cents * d + r, d)
               PROVE  LET n == held.cents * d + r
                          shown == Loaded(Stored(n, d, held.currency))
                      IN  shown # Rejected /\ shown.cents > 0 /\ shown.cents * d = n
    BY DEF StoredAsSent
  <2> DEFINE n == held.cents * d + r
  <2>1. n \in Nat /\ n > 0 /\ n % d = 0 /\ n < CentsEnd * d /\ CentsEnd \in Nat
    <3>1. held.cents \in Nat /\ CentsEnd \in Nat
      BY MoneyAssumption DEF MoneyTypeOK, Amount
    <3>2. n \in Nat
      BY <3>1
    <3> QED
      BY <3>1, <3>2 DEF Accepted
  <2> HIDE DEF n
  <2> DEFINE q == n \div d
             row == [cents |-> q, currency |-> held.currency]
  <2>2. q \in Nat /\ n = q * d
    <3>1. CASE d = 1
      BY <2>1, <3>1
    <3>2. CASE d = 10
      BY <2>1, <3>2
    <3>3. CASE d = 100
      BY <2>1, <3>3
    <3> QED
      BY <3>1, <3>2, <3>3
  <2> HIDE DEF q
  <2>3. q > 0 /\ q < CentsEnd
    BY <2>1, <2>2
  <2>4. row # Rejected
    BY <2>2 DEF Rejected
  <2>5. Make(n, d, held.currency) = row
    <3>1. HalfUp(q * d, d) = q
      BY <2>2, WholeCentsStay
    <3> QED
      BY <2>1, <2>2, <3>1 DEF Make
  <2>6. Make(q, 1, held.currency) = row
    <3>1. HalfUp(q * 1, 1) = q
      BY <2>2, WholeCentsStay
    <3>2. q * 1 = q
      BY <2>2
    <3> QED
      BY <2>2, <3>1, <3>2 DEF Make
  <2>7. Stored(n, d, held.currency) = row
    BY <2>3, <2>4, <2>5 DEF Stored, Column
  <2>8. Loaded(Stored(n, d, held.currency)) = row
    BY <2>4, <2>6, <2>7 DEF Loaded
  <2> QED
    BY <2>2, <2>3, <2>4, <2>8 DEF n
<1> QED
  BY <1>1, AmountsStayWhole, PTL
-----------------------------------------------------------------------------
\* No number of cents is nearer to n/d than HalfUp(n, d), and one as near is
\* smaller.
LEMMA HalfUpIsNearest ==
  ASSUME NEW n \in Nat, NEW d \in Nat \ {0}, NEW other \in Nat
  PROVE  \/ Distance(HalfUp(n, d) * d, n) < Distance(other * d, n)
         \/ Distance(HalfUp(n, d) * d, n) = Distance(other * d, n) /\ HalfUp(n, d) >= other
<1> DEFINE c == HalfUp(n, d)
<1>1. c \in Nat /\ 2 * (d * c) <= 2 * n + d /\ 2 * n < 2 * (d * c) + d
  BY HalfUpIsNear
<1> HIDE DEF c
<1>2. PICK h \in Nat : h = c * d /\ h = d * c
  BY <1>1
<1>3. CASE other = c
  BY <1>1, <1>2, <1>3 DEF Distance, c
<1>4. CASE other > c
  <2> DEFINE k == other - (c + 1)
  <2>1. k \in Nat /\ other = c + 1 + k
    BY <1>1, <1>4
  <2> HIDE DEF k
  <2>2. PICK x \in Nat : other * d = h + d + x
    <3>1. other * d = c * d + d + k * d /\ k * d \in Nat
      BY <1>1, <2>1
    <3> QED
      BY <1>2, <3>1
  <2>3. Distance(h, n) < Distance(h + d + x, n)
    BY <1>1, <1>2, <2>2 DEF Distance
  <2> QED
    BY <1>2, <2>2, <2>3 DEF c
<1>5. CASE other < c
  <2> DEFINE k == c - (other + 1)
  <2>1. k \in Nat /\ c = other + 1 + k
    BY <1>1, <1>5
  <2> HIDE DEF k
  <2>2. PICK x \in Nat : h = other * d + d + x
    <3>1. c * d = other * d + d + k * d /\ k * d \in Nat
      BY <1>1, <2>1
    <3> QED
      BY <1>2, <3>1
  <2>3. PICK o \in Nat : o = other * d
    OBVIOUS
  <2>4. Distance(h, n) <= Distance(o, n)
    BY <1>1, <1>2, <2>2, <2>3 DEF Distance
  <2>5. Distance(h, n) \in Nat /\ Distance(o, n) \in Nat
    BY <2>3 DEF Distance
  <2> QED
    BY <1>1, <1>2, <1>5, <2>3, <2>4, <2>5 DEF c
<1> QED
  BY <1>1, <1>3, <1>4, <1>5

\* So HalfUp is what Nearest chooses: among 0..n there is no other choice.
LEMMA HalfUpIsChosen ==
  ASSUME NEW n \in Nat, NEW d \in Nat \ {0}
  PROVE  Nearest(n, d) = HalfUp(n, d)
<1> DEFINE c == HalfUp(n, d)
           Best(x) == \A other \in 0..n :
                        \/ Distance(x * d, n) < Distance(other * d, n)
                        \/ Distance(x * d, n) = Distance(other * d, n) /\ x >= other
<1>1. c \in 0..n
  <2>1. c \in Nat /\ 2 * (d * c) <= 2 * n + d
    BY HalfUpIsNear
  <2> HIDE DEF c
  <2>2. ~(c >= n + 1)
    <3> SUFFICES ASSUME c >= n + 1
                 PROVE  FALSE
      OBVIOUS
    <3> DEFINE k == c - (n + 1)
               e == d - 1
    <3>1. k \in Nat /\ c = n + 1 + k /\ e \in Nat /\ d = e + 1
      BY <2>1
    <3> HIDE DEF k, e
    <3>2. d * c = n + e * n + d + d * k /\ e * n \in Nat /\ d * k \in Nat
      BY <3>1
    <3> QED
      BY <2>1, <3>2
  <2> QED
    BY <2>1, <2>2
<1>2. Best(c)
  BY HalfUpIsNearest
<1>3. ASSUME NEW x \in 0..n, Best(x)
      PROVE  x = c
  <2>1. \/ Distance(x * d, n) < Distance(c * d, n)
        \/ Distance(x * d, n) = Distance(c * d, n) /\ x >= c
    BY <1>1, <1>3
  <2>2. \/ Distance(c * d, n) < Distance(x * d, n)
        \/ Distance(c * d, n) = Distance(x * d, n) /\ c >= x
    BY <1>2
  <2>3. Distance(x * d, n) \in Nat /\ Distance(c * d, n) \in Nat
    <3>1. x * d \in Nat /\ c * d \in Nat
      BY <1>1
    <3> QED
      BY <3>1 DEF Distance
  <2> HIDE DEF c
  <2> QED
    BY <1>1, <2>1, <2>2, <2>3
<1>4. Nearest(n, d) = CHOOSE x \in 0..n : Best(x)
  BY DEF Nearest
<1> HIDE DEF c, Best
<1>5. (CHOOSE x \in 0..n : Best(x)) = c
  BY <1>1, <1>2, <1>3
<1> QED
  BY <1>4, <1>5 DEF c

\* A product is the nearest cent to the exact one, for every amount and
\* factor: ties go up, never to the even cent.
THEOREM ProductsNeverDrift == MoneySpec => []ProductsAreNearest
<1>1. MoneyTypeOK => ProductsAreNearest
  <2> SUFFICES ASSUME MoneyTypeOK, NEW f \in Factor, f.num >= 0
               PROVE  Times(held, f).cents = Nearest(held.cents * f.num, f.den)
    BY DEF ProductsAreNearest
  <2>1. held.cents \in Nat /\ f.num \in Nat /\ f.den \in Nat \ {0}
    BY MoneyAssumption DEF MoneyTypeOK, Amount
  <2>2. held.cents * f.num \in Nat
    BY <2>1
  <2>3. Times(held, f).cents = HalfUp(held.cents * f.num, f.den)
    BY <2>2 DEF Times, Make
  <2> QED
    BY <2>1, <2>2, <2>3, HalfUpIsChosen
<1> QED
  BY <1>1, AmountsStayWhole, PTL

-----------------------------------------------------------------------------
(* Delays.                                                                 *)

\* Powers of two are numbers of subsets: they are positive, double with each
\* step, and never fall.
LEMMA Powers ==
  ASSUME NEW n \in Nat
  PROVE  /\ 2 ^ n \in Nat \ {0}
         /\ 2 ^ (n + 1) = 2 * 2 ^ n
         /\ \A m \in Nat : n <= m => 2 ^ n <= 2 ^ m
<1>1. ASSUME NEW m \in Nat
      PROVE  IsFiniteSet(SUBSET (1..m)) /\ Cardinality(SUBSET (1..m)) = 2 ^ m
  <2>1. 1 \in Int /\ m \in Int
    OBVIOUS
  <2>2. IsFiniteSet(1..m) /\ Cardinality(1..m) = IF 1 > m THEN 0 ELSE m - 1 + 1
    BY <2>1, FS_Interval
  <2>3. Cardinality(1..m) = m
    BY <2>1, <2>2
  <2> QED
    BY <2>2, <2>3, FS_SUBSET
<1>2. ASSUME NEW m \in Nat
      PROVE  2 ^ m \in Nat \ {0}
  <2>1. Cardinality(SUBSET (1..m)) \in Nat /\ Cardinality(SUBSET (1..m)) # 0
    <3>1. {} \in SUBSET (1..m)
      OBVIOUS
    <3>2. SUBSET (1..m) # {}
      BY <3>1
    <3> QED
      BY <1>1, <3>2, FS_CardinalityType, FS_EmptySet
  <2> QED
    BY <1>1, <2>1
<1>3. ASSUME NEW m \in Nat, n <= m
      PROVE  2 ^ n <= 2 ^ m
  <2>1. SUBSET (1..n) \subseteq SUBSET (1..m)
    BY <1>3
  <2>2. Cardinality(SUBSET (1..n)) <= Cardinality(SUBSET (1..m))
    BY <1>1, <2>1, FS_Subset
  <2> QED
    BY <1>1, <2>2
<1>4. 2 ^ (n + 1) = 2 * 2 ^ n
  <2> DEFINE A == SUBSET (1..n)
             B == {T \cup {n + 1} : T \in A}
             f == [T \in A |-> T \cup {n + 1}]
  <2>1. \A T \in A : n + 1 \notin T
    OBVIOUS
  <2>2. f \in Bijection(A, B)
    <3>1. f \in [A -> B]
      OBVIOUS
    <3>2. \A T, U \in A : f[T] = f[U] => T = U
      <4> SUFFICES ASSUME NEW T \in A, NEW U \in A, T \cup {n + 1} = U \cup {n + 1}
                   PROVE  T = U
        OBVIOUS
      <4>1. T = (T \cup {n + 1}) \ {n + 1} /\ U = (U \cup {n + 1}) \ {n + 1}
        BY <2>1
      <4> QED
        BY <4>1
    <3>3. \A S \in B : \E T \in A : f[T] = S
      OBVIOUS
    <3>4. DOMAIN f = A
      OBVIOUS
    <3> HIDE DEF f, A, B
    <3> QED
      BY <3>1, <3>2, <3>3, <3>4 DEF Bijection, Injection, Surjection, IsInjective
  <2>3. IsFiniteSet(A) /\ Cardinality(A) = 2 ^ n
    BY <1>1
  <2>4. A \cap B = {}
    BY <2>1
  <2>5. SUBSET (1..n + 1) = A \cup B
    <3>1. 1..n + 1 = (1..n) \cup {n + 1}
      OBVIOUS
    <3>2. ASSUME NEW S \in SUBSET (1..n + 1)
          PROVE  S \in A \cup B
      <4>1. S \ {n + 1} \in A
        BY <3>1
      <4>2. n + 1 \notin S => S \in A
        BY <3>1
      <4>3. n + 1 \in S => S = (S \ {n + 1}) \cup {n + 1}
        OBVIOUS
      <4> QED
        BY <4>1, <4>2, <4>3
    <3>3. A \cup B \subseteq SUBSET (1..n + 1)
      BY <3>1
    <3> QED
      BY <3>2, <3>3
  <2> HIDE DEF f, A, B
  <2>6. IsFiniteSet(B) /\ Cardinality(B) = Cardinality(A)
    BY <2>2, <2>3, FS_Bijection DEF ExistsBijection
  <2>7. Cardinality(A \cup B) = Cardinality(A) + Cardinality(B) - Cardinality(A \cap B)
    BY <2>3, <2>6, FS_Union
  <2>8. Cardinality(A \cap B) = 0
    BY <2>4, FS_EmptySet
  <2>9. n + 1 \in Nat
    OBVIOUS
  <2>10. Cardinality(SUBSET (1..n + 1)) = 2 ^ (n + 1)
    BY <1>1, <2>9
  <2>11. PICK a \in Nat : a = Cardinality(A)
    BY <2>3, FS_CardinalityType
  <2>12. Cardinality(A \cup B) = a + a
    BY <2>6, <2>7, <2>8, <2>11
  <2>13. 2 ^ (n + 1) = a + a
    BY <2>5, <2>10, <2>12, Zenon
  <2>14. a = 2 ^ n
    BY <2>3, <2>11, Zenon
  <2>15. a + a = 2 * a
    OBVIOUS
  <2> QED
    BY <2>13, <2>14, <2>15, Zenon
<1> QED
  BY <1>2, <1>3, <1>4

\* The minutes of a delay before its jitter: doubled, up to the cap.
Minutes(n) ==
  LET doubled == 2 ^ (IF n = 0 THEN 0 ELSE n - 1)
  IN  IF doubled < MaxMinutes THEN doubled ELSE MaxMinutes

\* The delay before its jitter is that many minutes, at most the cap.
LEMMA BaseIsCapped ==
  ASSUME NEW n \in Nat
  PROVE  Base(n) = 60 * Minutes(n) /\ Minutes(n) \in 0..MaxMinutes
<1> DEFINE k == IF n = 0 THEN 0 ELSE n - 1
           doubled == 2 ^ k
<1>1. k \in Nat
  OBVIOUS
<1>2. doubled \in Nat
  BY <1>1, Powers
<1>3. Base(n) = 60 * (IF doubled < MaxMinutes THEN doubled ELSE MaxMinutes)
      /\ Minutes(n) = IF doubled < MaxMinutes THEN doubled ELSE MaxMinutes
  BY DEF Base, Minutes
<1> HIDE DEF k, doubled
<1> QED
  BY <1>2, <1>3, BackoffAssumption

\* The jitter adds up to half of the base.
LEMMA JitterIsHalf ==
  ASSUME NEW n \in Nat, NEW d \in Delays(n)
  PROVE  d \in Nat /\ 60 * Minutes(n) <= d /\ d <= 90 * Minutes(n)
<1>1. PICK i \in 0..Steps : d = Base(n) + (Base(n) * i) \div (2 * Steps)
  BY DEF Delays
<1>2. PICK m \in Nat : m = Minutes(n) /\ Base(n) = 60 * m
  BY BaseIsCapped, BackoffAssumption
<1>3. Steps \in Nat \ {0} /\ i \in Nat /\ i <= Steps
  BY BackoffAssumption
<1> DEFINE x == (60 * m) * i
           y == 2 * Steps
           j == x \div y
<1>4. x \in Nat /\ y \in Nat \ {0}
  BY <1>3
<1>5. x <= 30 * (m * y)
  <2>1. PICK r \in Nat : Steps = i + r
    <3>1. Steps - i \in Nat /\ Steps = i + (Steps - i)
      BY <1>3
    <3> QED
      BY <3>1
  <2>2. x = 60 * (m * i) /\ m * i \in Nat /\ m * r \in Nat
    BY <1>3
  <2>3. m * y = 2 * (m * i) + 2 * (m * r)
    BY <1>3, <2>1
  <2> QED
    BY <2>2, <2>3
<1> HIDE DEF x, y
<1>6. j \in Nat /\ y * j <= x
  BY <1>4, Division
<1>7. j <= 30 * m
  <2>1. CASE j >= 30 * m + 1
    <3>1. PICK r \in Nat : j = 30 * m + 1 + r
      <4>1. j - (30 * m + 1) \in Nat /\ j = 30 * m + 1 + (j - (30 * m + 1))
        BY <1>6, <2>1
      <4> QED
        BY <4>1
    <3>2. y * j = 30 * (m * y) + y + y * r
      BY <1>4, <3>1
    <3>3. y * r \in Nat /\ m * y \in Nat
      BY <1>4
    <3> QED
      BY <1>4, <1>5, <1>6, <3>2, <3>3
  <2> QED
    BY <1>6, <2>1
<1>8. d = 60 * m + j
  BY <1>1, <1>2 DEF x, y
<1> HIDE DEF j
<1> QED
  BY <1>2, <1>6, <1>7, <1>8

\* No delay is longer than the cap and half of it.
THEOREM DelaysStayCapped == BackoffSpec => []BackoffTypeOK
<1>1. BackoffInit => BackoffTypeOK
  BY BackoffAssumption DEF BackoffInit, BackoffTypeOK
<1>2. BackoffTypeOK /\ [Fail]_backoffVars => BackoffTypeOK'
  <2> SUFFICES ASSUME BackoffTypeOK, [Fail]_backoffVars
               PROVE  BackoffTypeOK'
    OBVIOUS
  <2>1. CASE UNCHANGED backoffVars
    BY <2>1 DEF BackoffTypeOK, backoffVars
  <2>2. CASE Fail
    <3>1. failures' \in Nat /\ failures' \in 0..MaxFailures /\ delay' \in Delays(failures')
      BY <2>2, BackoffAssumption DEF Fail, BackoffTypeOK
    <3>2. PICK n \in Nat : n = failures'
      BY <3>1
    <3>3. PICK m \in 0..MaxMinutes : m = Minutes(n)
      BY <3>2, BaseIsCapped
    <3>4. delay' \in Nat /\ delay' <= 90 * m
      BY <3>1, <3>2, <3>3, JitterIsHalf
    <3> QED
      BY <3>1, <3>3, <3>4, BackoffAssumption DEF BackoffTypeOK
  <2> QED
    BY <2>1, <2>2
<1> QED
  BY <1>1, <1>2, PTL DEF BackoffSpec

\* A base below the cap, with the longest jitter that is added to it, stays
\* below the next base: its double, or the cap.
CapIsFar == \A n \in Nat : 2 ^ n < MaxMinutes => 3 * 2 ^ n < 2 * MaxMinutes

\* OUTBOX_BACKOFF_MAX_MINUTES is 60: 32 minutes are followed by more than 48.
LEMMA SixtyIsFar == MaxMinutes = 60 => CapIsFar
<1> SUFFICES ASSUME MaxMinutes = 60, NEW n \in Nat, 2 ^ n < MaxMinutes
             PROVE  3 * 2 ^ n < 2 * MaxMinutes
  BY DEF CapIsFar
<1>1. n <= 5
  <2>1. 2 ^ 6 = 64
    OBVIOUS
  <2>2. PICK p \in Nat : p = 2 ^ n
    BY Powers
  <2>3. 6 <= n => 2 ^ 6 <= 2 ^ n
    BY Powers
  <2>4. 6 <= n => 64 <= p
    BY <2>1, <2>2, <2>3
  <2>5. p < 60
    BY <2>2
  <2> QED
    BY <2>2, <2>4, <2>5
<1>2. 2 ^ n <= 2 ^ 5
  BY <1>1, Powers
<1>3. 2 ^ 5 = 32
  OBVIOUS
<1>4. PICK p \in Nat : p = 2 ^ n
  BY Powers
<1> QED
  BY <1>2, <1>3, <1>4

\* A longest delay is shorter than the next base, until the base is the cap.
LEMMA NextMinutes ==
  ASSUME CapIsFar, NEW n \in Nat, Minutes(n) # MaxMinutes
  PROVE  /\ Minutes(n) > 0
         /\ 90 * Minutes(n) < 60 * Minutes(n + 1) \/ (n = 0 /\ Minutes(n + 1) > 0)
<1>1. MaxMinutes \in Nat
  BY BackoffAssumption
<1>2. CASE n = 0
  <2>1. 2 ^ 0 = 1
    OBVIOUS
  <2>2. Minutes(n) = IF 1 < MaxMinutes THEN 1 ELSE MaxMinutes
    BY <1>2, <2>1 DEF Minutes
  <2>3. n + 1 # 0 /\ n + 1 - 1 = 0
    BY <1>2
  <2>4. Minutes(n + 1) = IF 1 < MaxMinutes THEN 1 ELSE MaxMinutes
    BY <2>1, <2>3 DEF Minutes
  <2> QED
    BY <1>1, <1>2, <2>2, <2>4
<1>3. CASE n # 0
  <2>1. PICK k \in Nat : n = k + 1
    <3>1. n - 1 \in Nat /\ n = (n - 1) + 1
      BY <1>3
    <3> QED
      BY <3>1
  <2>2. PICK p \in Nat \ {0} : p = 2 ^ k /\ 2 * p = 2 ^ (k + 1)
    BY Powers
  <2>3. n - 1 = k /\ n + 1 # 0 /\ n + 1 - 1 = k + 1
    BY <2>1
  <2>4. Minutes(n) = IF p < MaxMinutes THEN p ELSE MaxMinutes
    BY <1>3, <2>2, <2>3 DEF Minutes
  <2>5. Minutes(n + 1) = IF 2 * p < MaxMinutes THEN 2 * p ELSE MaxMinutes
    BY <2>2, <2>3 DEF Minutes
  <2>6. p < MaxMinutes => 3 * p < 2 * MaxMinutes
    BY <2>2 DEF CapIsFar
  <2> QED
    BY <1>1, <2>2, <2>4, <2>5, <2>6
<1> QED
  BY <1>2, <1>3

\* Each delay is longer than the one before, until the base is the cap.
THEOREM DelaysGrowToTheCap ==
  ASSUME CapIsFar
  PROVE  BackoffSpec => DelaysGrow
<1> DEFINE Inv == /\ failures \in Nat
                  /\ failures = 0 => delay = 0
                  /\ failures # 0 => delay \in 0..90 * Minutes(failures)
<1>1. BackoffInit => Inv
  BY DEF BackoffInit
<1>2. ASSUME Inv, Fail
      PROVE  Inv' /\ (delay' > delay \/ Base(failures) = 60 * MaxMinutes)
  <2>1. PICK n \in Nat : n = failures
    BY <1>2
  <2>2. failures' = n + 1 /\ delay' \in Delays(n + 1) /\ n + 1 \in Nat /\ n + 1 # 0
    BY <1>2, <2>1 DEF Fail
  <2>3. PICK m \in Nat, q \in Nat : m = Minutes(n) /\ q = Minutes(n + 1)
    BY <2>2, BaseIsCapped, BackoffAssumption
  <2>4. delay' \in Nat /\ 60 * q <= delay' /\ delay' <= 90 * q
    BY <2>2, <2>3, JitterIsHalf
  <2>5. Inv'
    BY <2>2, <2>3, <2>4
  <2>6. CASE m = MaxMinutes
    BY <2>1, <2>3, <2>5, <2>6, BaseIsCapped
  <2>7. CASE m # MaxMinutes
    <3>1. 90 * m < 60 * q \/ (n = 0 /\ q > 0)
      BY <2>3, <2>7, NextMinutes
    <3>2. n = 0 => delay = 0
      BY <1>2, <2>1
    <3>3. n # 0 => delay \in Nat /\ delay <= 90 * m
      BY <1>2, <2>1, <2>3
    <3>4. delay' > delay
      BY <2>3, <2>4, <3>1, <3>2, <3>3
    <3> QED
      BY <2>5, <3>4
  <2> QED
    BY <2>6, <2>7
<1>3. Inv /\ [Fail]_backoffVars => Inv'
  BY <1>2 DEF backoffVars
<1>4. Inv /\ [Fail]_backoffVars => [delay' > delay \/ Base(failures) = 60 * MaxMinutes]_backoffVars
  BY <1>2 DEF backoffVars
<1> QED
  BY <1>1, <1>3, <1>4, PTL DEF BackoffSpec, DelaysGrow
=============================================================================
