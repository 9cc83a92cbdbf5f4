--------------------------- MODULE ArithmeticLemmas ----------------------------
(***************************************************************************)
(* Division, as the proofs about the cache's geometry, the divider and the *)
(* serial port need it.                                                    *)
(***************************************************************************)
EXTENDS Integers, TLAPS

\* Quotient and remainder.
LEMMA DivisionLaw ==
    ASSUME NEW a \in Nat, NEW b \in Nat \ {0}
    PROVE  /\ a \div b \in Nat /\ a % b \in 0 .. b - 1
           /\ a = (a \div b) * b + (a % b)
<1>1. ASSUME NEW x \in Int, NEW y \in Int, y > 0
      PROVE  y * (x \div y) + (x % y) = x
  BY <1>1
<1>2. a \div b \in Nat /\ a % b \in 0 .. b - 1
  OBVIOUS
<1> DEFINE q == a \div b
           r == a % b
<1>3. b * q + r = a
  BY <1>1
<1> HIDE DEF q, r
<1>4. q \in Int /\ r \in Int
  BY <1>2 DEF q, r
<1>5. a = q * b + r
  BY <1>3, <1>4
<1>6. QED
  BY <1>2, <1>5 DEF q, r

\* Multiples of b are b apart.
LEMMA ProductGap ==
    ASSUME NEW p \in Int, NEW q \in Int, NEW b \in Nat \ {0}, p < q
    PROVE  p * b + b <= q * b /\ p * b \in Int /\ q * b \in Int
<1>1. (q - p - 1) * b \in Nat
  OBVIOUS
<1>2. (q - p - 1) * b = q * b - p * b - b
  OBVIOUS
<1>3. QED
  BY <1>1, <1>2

\* There is one quotient and one remainder.
LEMMA DivisionUnique ==
    ASSUME NEW b \in Nat \ {0}, NEW p \in Int, NEW q \in Int,
           NEW r \in 0 .. b - 1, NEW s \in 0 .. b - 1, p * b + r = q * b + s
    PROVE  p = q /\ r = s
<1>1. p * b \in Int /\ q * b \in Int
  OBVIOUS
<1>2. ~(p < q)
  BY <1>1, ProductGap
<1>3. ~(q < p)
  BY <1>1, ProductGap
<1>4. QED
  BY <1>1, <1>2, <1>3

\* The quotient and remainder of a number given by them.
LEMMA QuotientOf ==
    ASSUME NEW b \in Nat \ {0}, NEW q \in Nat, NEW r \in 0 .. b - 1
    PROVE  /\ q * b + r \in Nat
           /\ (q * b + r) \div b = q /\ (q * b + r) % b = r
<1>1. q * b \in Nat
  OBVIOUS
<1>2. q * b + r \in Nat
  BY <1>1
<1> DEFINE a == q * b + r
<1> HIDE DEF a
<1>3. /\ a \div b \in Nat /\ a % b \in 0 .. b - 1
      /\ a = (a \div b) * b + (a % b)
  BY <1>2, DivisionLaw, Zenon DEF a
<1>4. q = a \div b /\ r = a % b
  BY <1>2, <1>3, DivisionUnique DEF a
<1>5. QED
  BY <1>2, <1>4 DEF a

\* Dividing by a product is dividing by its factors in turn.
LEMMA DivideTwice ==
    ASSUME NEW a \in Nat, NEW b \in Nat \ {0}, NEW c \in Nat \ {0}
    PROVE  a \div (b * c) = (a \div b) \div c
<1> DEFINE q == a \div b
           r == a % b
           t == q \div c
           u == q % c
<1>1. q \in Nat /\ r \in 0 .. b - 1 /\ a = q * b + r
  BY DivisionLaw, Zenon
<1> HIDE DEF q, r
<1>2. t \in Nat /\ u \in 0 .. c - 1 /\ q = t * c + u
  BY <1>1, DivisionLaw, Zenon
<1> HIDE DEF t, u
<1>3. b * c \in Nat \ {0}
  OBVIOUS
<1>4. q * b = t * (b * c) + u * b
  BY <1>1, <1>2
<1>5. u * b + r \in 0 .. (b * c) - 1
  <2>1. u * b \in Nat
    BY <1>2
  <2>2. u * b + b <= c * b
    BY <1>2, ProductGap
  <2>3. QED
    BY <1>1, <1>3, <2>1, <2>2
<1>6. a = t * (b * c) + (u * b + r)
  <2>1. t * (b * c) \in Int /\ u * b \in Int /\ q * b \in Int
    BY <1>1, <1>2, <1>3
  <2>2. QED
    BY <1>1, <1>4, <2>1
<1>7. a \div (b * c) = t
  BY <1>2, <1>3, <1>5, <1>6, QuotientOf
<1>8. QED
  BY <1>7 DEF t, q

----------------------------------------------------------------------------
(* Remainders.                                                             *)

\* A remainder is given by any quotient, also of a negative number.
LEMMA RemainderOf ==
    ASSUME NEW b \in Nat \ {0}, NEW s \in Int, NEW q \in Int, NEW r \in 0 .. b - 1,
           s = q * b + r
    PROVE  s % b = r
<1>1. ASSUME NEW x \in Int, NEW y \in Int, y > 0
      PROVE  y * (x \div y) + (x % y) = x
  BY <1>1
<1> DEFINE p == s \div b
           t == s % b
<1>2. p \in Int /\ t \in 0 .. b - 1
  OBVIOUS
<1>3. b * p + t = s
  BY <1>1
<1> HIDE DEF p, t
<1>4. p * b + t = q * b + r
  BY <1>2, <1>3
<1>5. t = r
  BY <1>2, <1>4, DivisionUnique
<1>6. QED
  BY <1>5 DEF t

\* The remainders of the numbers on both sides of zero.
LEMMA NearRemainder ==
    ASSUME NEW b \in Nat \ {0}
    PROVE  /\ \A s \in 0 .. b - 1 : s % b = s
           /\ \A s \in -b .. -1 : s % b = s + b
<1>1. ASSUME NEW s \in 0 .. b - 1 PROVE s % b = s
  BY RemainderOf, s = 0 * b + s
<1>2. ASSUME NEW s \in -b .. -1 PROVE s % b = s + b
  <2>1. s = (-1) * b + (s + b) /\ s + b \in 0 .. b - 1
    OBVIOUS
  <2>2. QED
    BY <2>1, RemainderOf
<1>3. QED
  BY <1>1, <1>2

\* A remainder of a remainder, when one modulus divides the other.
LEMMA RemainderTwice ==
    ASSUME NEW b \in Nat \ {0}, NEW c \in Nat \ {0}, NEW s \in Int
    PROVE  (s % (b * c)) % b = s % b
<1>0. b * c \in Nat \ {0}
  OBVIOUS
<1>1. ASSUME NEW x \in Int, NEW y \in Nat \ {0}
      PROVE  /\ x \div y \in Int /\ x % y \in 0 .. y - 1
             /\ x = (x \div y) * y + (x % y)
  <2>1. y * (x \div y) + (x % y) = x /\ x \div y \in Int /\ x % y \in 0 .. y - 1
    OBVIOUS
  <2>2. QED
    BY <2>1
<1>2. PICK p \in Int, t \in 0 .. b * c - 1 : s = p * (b * c) + t /\ s % (b * c) = t
  BY <1>0, <1>1, Zenon
<1>3. PICK q \in Int, r \in 0 .. b - 1 : t = q * b + r /\ t % b = r
  <2>1. t \in Int
    BY <1>0
  <2>2. QED
    BY <1>1, <2>1, Zenon
<1>4. s = (p * c + q) * b + r
  <2>1. p * (b * c) = (p * c) * b
    OBVIOUS
  <2>2. (p * c + q) * b = (p * c) * b + q * b
    OBVIOUS
  <2>3. p * (b * c) \in Int /\ (p * c) * b \in Int /\ q * b \in Int /\ p * c + q \in Int
    OBVIOUS
  <2>4. QED
    BY <1>2, <1>3, <2>1, <2>2, <2>3
<1>5. s % b = r
  <2>1. p * c + q \in Int
    OBVIOUS
  <2>2. QED
    BY <1>4, <2>1, RemainderOf
<1>6. QED
  BY <1>2, <1>3, <1>5

===============================================================================
