----------------------------- MODULE DividerProofs ----------------------------
(***************************************************************************)
(* Proof that Divider.v computes what iss.py does: DoneCorrect of module   *)
(* Divider, for every width of registers and words, all four operations,   *)
(* their word forms and every way the pipeline can hold the divide.        *)
(***************************************************************************)
EXTENDS Divider, PowerLemmas

(***************************************************************************)
(* The integers the unit divides, and the quotient rounded towards zero    *)
(* and its remainder, with RISC-V's values for a division by zero.         *)
(***************************************************************************)
Value(signed, x, w) == IF signed THEN ToInt(x, w) ELSE x
TrueQ(m, n) ==
  IF n = 0 THEN -1
  ELSE IF (m < 0) # (n < 0) THEN -(Iss!Magnitude(m) \div Iss!Magnitude(n))
  ELSE Iss!Magnitude(m) \div Iss!Magnitude(n)
TrueR(m, n) ==
  IF n = 0 THEN m
  ELSE IF m < 0 THEN -(Iss!Magnitude(m) % Iss!Magnitude(n))
  ELSE Iss!Magnitude(m) % Iss!Magnitude(n)

(***************************************************************************)
(* After k iterations on dividend m and divisor n, R and Q hold r and q:   *)
(* the top k bits hi of m are divided, the quotient p of that is in the    *)
(* low k bits of q and the rest lo of m in its high bits.                  *)
(***************************************************************************)
Divided(m, n, k, r, q) ==
  \E hi, lo, p \in Word :
    /\ m = hi * 2^(XLEN - k) + lo /\ lo < 2^(XLEN - k) /\ hi < 2^k
    /\ q = lo * 2^k + p
    /\ hi = p * n + r /\ r < n

(***************************************************************************)
(* The inductive invariant: a running division is one of the operands of   *)
(* the divide in EX, and that divide has operands to lose only if its      *)
(* division runs or is over.                                               *)
(***************************************************************************)
IInv ==
  /\ TypeOK
  /\ busy => LET a == DivIn(op.a)
                 b == DivIn(op.b)
             IN  /\ isDivRem /\ b # 0
                 /\ D = Abs(op.signed, b)
                 /\ neg_quotient = (op.signed /\ TopBit(a, XLEN) # TopBit(b, XLEN))
                 /\ neg_remainder = (op.signed /\ TopBit(a, XLEN) = 1)
                 /\ Divided(Abs(op.signed, a), D, count, R, Q)
  /\ done => isDivRem
  /\ moved => busy \/ done
  /\ DoneCorrect

----------------------------------------------------------------------------
(* The iteration.                                                          *)

\* The powers the widths give, and how they are related.
LEMMA Widths ==
  /\ 2^XLEN \in Nat \ {0} /\ 2^(XLEN - 1) \in Nat \ {0} /\ 2^XLEN = 2 * 2^(XLEN - 1)
  /\ 2^WLEN \in Nat \ {0} /\ 2^(WLEN - 1) \in Nat \ {0} /\ 2^WLEN = 2 * 2^(WLEN - 1)
  /\ \E c \in Nat \ {0, 1} : 2^XLEN = 2^WLEN * c
<1>0. /\ XLEN \in Nat /\ WLEN \in Nat /\ XLEN - 1 \in Nat /\ WLEN - 1 \in Nat
      /\ XLEN - WLEN \in Nat /\ XLEN - WLEN - 1 \in Nat
  BY WidthAssumption
<1>1. 2^1 = 2
  OBVIOUS
<1>2. ASSUME NEW n \in Nat, n - 1 \in Nat
      PROVE  2^n = 2 * 2^(n - 1)
  <2>1. 2^(1 + (n - 1)) = 2^1 * 2^(n - 1)
    BY <1>2, PowerSum, Zenon
  <2>2. 1 + (n - 1) = n
    OBVIOUS
  <2>3. QED
    BY <1>1, <2>1, <2>2, Zenon
<1>3. 2^XLEN = 2 * 2^(XLEN - 1) /\ 2^WLEN = 2 * 2^(WLEN - 1)
  BY <1>0, <1>2, Zenon
<1>4. /\ 2^XLEN \in Nat \ {0} /\ 2^(XLEN - 1) \in Nat \ {0}
      /\ 2^WLEN \in Nat \ {0} /\ 2^(WLEN - 1) \in Nat \ {0}
  BY <1>0, PowerPositive, Zenon
<1>5. 2^XLEN = 2^WLEN * 2^(XLEN - WLEN)
  <2>1. 2^(WLEN + (XLEN - WLEN)) = 2^WLEN * 2^(XLEN - WLEN)
    BY <1>0, PowerSum, Zenon
  <2>2. WLEN + (XLEN - WLEN) = XLEN
    BY <1>0
  <2>3. QED
    BY <2>1, <2>2, Zenon
<1>6. 2^(XLEN - WLEN) = 2 * 2^(XLEN - WLEN - 1)
  BY <1>0, <1>2, Zenon
<1>7. 2^(XLEN - WLEN) \in Nat \ {0, 1}
  <2>1. 2^(XLEN - WLEN) \in Nat \ {0} /\ 2^(XLEN - WLEN - 1) \in Nat \ {0}
    BY <1>0, PowerPositive, Zenon
  <2>2. QED
    BY <1>6, <2>1
<1>8. QED
  BY <1>3, <1>4, <1>5, <1>7, Zenon

\* Before the first iteration nothing is divided.
LEMMA DividedStart ==
    ASSUME NEW m \in Word, NEW n \in Word \ {0}
    PROVE  Divided(m, n, 0, 0, m)
<1>1. 2^XLEN \in Nat \ {0} /\ 2^0 = 1 /\ XLEN - 0 = XLEN
  BY Widths, WidthAssumption
<1>2. 0 \in Word
  BY <1>1 DEF Word
<1>3. /\ m = 0 * 2^(XLEN - 0) + m /\ m < 2^(XLEN - 0) /\ 0 < 2^0
      /\ m = m * 2^0 + 0 /\ 0 = 0 * n + 0 /\ 0 < n
  BY <1>1 DEF Word
<1>4. QED
  BY <1>2, <1>3, Zenon DEF Divided

\* The registers hold words.
LEMMA DividedTypes ==
    ASSUME NEW m \in Word, NEW n \in Word \ {0}, NEW k \in 0 .. XLEN - 1,
           NEW r \in Nat, NEW q \in Nat, Divided(m, n, k + 1, r, q)
    PROVE  r \in Word /\ q \in Word
<1>0. /\ XLEN \in Nat /\ k + 1 \in Nat /\ XLEN - (k + 1) \in Nat
      /\ XLEN = (XLEN - (k + 1)) + (k + 1)
  BY WidthAssumption
<1>1. PICK K \in Nat \ {0} : K = 2^(k + 1)
  BY <1>0, PowerPositive, Zenon
<1>2. PICK P \in Nat \ {0} : P = 2^(XLEN - (k + 1))
  BY <1>0, PowerPositive, Zenon
<1>3. 2^XLEN = P * K
  <2>1. 2^((XLEN - (k + 1)) + (k + 1)) = P * K
    BY <1>0, <1>1, <1>2, PowerSum, Zenon
  <2>2. QED
    BY <1>0, <2>1, Zenon
<1>4. Word = 0 .. 2^XLEN - 1 /\ 2^XLEN \in Nat \ {0}
  BY Widths, Zenon DEF Word
<1>5. PICK hi, lo, p \in Word :
        /\ m = hi * 2^(XLEN - (k + 1)) + lo /\ lo < 2^(XLEN - (k + 1)) /\ hi < 2^(k + 1)
        /\ q = lo * 2^(k + 1) + p
        /\ hi = p * n + r /\ r < n
  BY Zenon DEF Divided
<1>6. n \in Nat \ {0} /\ hi \in Nat /\ lo \in Nat /\ p \in Nat
  BY <1>4
<1>7. lo < P /\ hi < K /\ q = lo * K + p /\ hi = p * n + r /\ r < n
  BY <1>1, <1>2, <1>5, Zenon
<1>8. r \in Word
  BY <1>4, <1>6, <1>7
<1>9. p * n = p + p * (n - 1) /\ p * (n - 1) \in Nat
  BY <1>6
<1>10. p < K
  BY <1>6, <1>7, <1>9
<1>11. lo * K + K <= P * K /\ lo * K \in Int /\ P * K \in Int
  BY <1>6, <1>7, ProductGap
<1>12. q < 2^XLEN
  BY <1>3, <1>6, <1>7, <1>10, <1>11
<1>13. QED
  BY <1>4, <1>8, <1>12

\* After the last one everything is.
LEMMA DividedEnd ==
    ASSUME NEW m \in Word, NEW n \in Word \ {0}, NEW r \in Nat, NEW q \in Nat,
           Divided(m, n, XLEN, r, q)
    PROVE  q = m \div n /\ r = m % n
<1>1. 2^0 = 1 /\ XLEN - XLEN = 0 /\ 2^XLEN \in Nat \ {0}
  BY Widths, WidthAssumption
<1>2. PICK hi, lo, p \in Word :
        /\ m = hi * 2^(XLEN - XLEN) + lo /\ lo < 2^(XLEN - XLEN) /\ hi < 2^XLEN
        /\ q = lo * 2^XLEN + p
        /\ hi = p * n + r /\ r < n
  BY Zenon DEF Divided
<1>3. lo \in Nat /\ p \in Nat /\ hi \in Nat /\ n \in Nat \ {0}
  BY <1>1 DEF Word
<1>4. 2^(XLEN - XLEN) = 1
  BY <1>1, Zenon
<1> DEFINE one == 2^(XLEN - XLEN)
           all == 2^XLEN
<1>5. /\ m = hi * one + lo /\ lo < one /\ q = lo * all + p
      /\ hi = p * n + r /\ r < n /\ one = 1 /\ all \in Nat
  BY <1>1, <1>2, <1>4, Zenon
<1> HIDE DEF one, all
<1>6. lo = 0
  BY <1>3, <1>5
<1>7. q = p
  BY <1>3, <1>5, <1>6
<1>8. m = p * n + r
  BY <1>3, <1>5, <1>6
<1>9. r \in 0 .. n - 1
  BY <1>3, <1>5
<1>10. QED
  BY <1>3, <1>7, <1>8, <1>9, QuotientOf, Zenon

\* One iteration of Divider.v divides one more bit.
LEMMA DividedStep ==
    ASSUME NEW m \in Word, NEW n \in Word \ {0}, NEW k \in 0 .. XLEN - 1,
           NEW r \in Word, NEW q \in Word, Divided(m, n, k, r, q)
    PROVE  LET s == ((2 * r) % 2^XLEN) + TopBit(q, XLEN)
               u == (2 * q) % 2^XLEN
           IN  /\ s \in Nat /\ u + 1 \in Nat
               /\ s >= n => Divided(m, n, k + 1, s - n, u + 1)
               /\ ~(s >= n) => Divided(m, n, k + 1, s, u)
<1>0. /\ XLEN \in Nat /\ k \in Nat /\ XLEN - k - 1 \in Nat /\ XLEN - k \in Nat
      /\ XLEN - 1 = (XLEN - k - 1) + k /\ XLEN - k = 1 + (XLEN - k - 1)
      /\ XLEN - (k + 1) = XLEN - k - 1
  BY WidthAssumption
<1>1. PICK K \in Nat \ {0} : K = 2^k
  BY <1>0, PowerPositive, Zenon
<1>2. PICK P \in Nat \ {0} : P = 2^(XLEN - k - 1)
  BY <1>0, PowerPositive, Zenon
<1>3. 2^(XLEN - k) = 2 * P /\ 2^(k + 1) = 2 * K
  <2>1. 2^(1 + (XLEN - k - 1)) = 2^1 * P /\ 2^(k + 1) = K * 2^1 
    BY <1>0, <1>1, <1>2, PowerSum, Zenon
  <2>2. 2^1 = 2
    OBVIOUS
  <2>3. QED
    BY <1>0, <2>1, <2>2
<1>4. 2^(XLEN - 1) = P * K /\ 2^XLEN = 2 * (P * K)
  <2>1. 2^((XLEN - k - 1) + k) = P * K
    BY <1>0, <1>1, <1>2, PowerSum, Zenon
  <2>2. QED
    BY <1>0, <2>1, Widths, Zenon
<1>5. PICK hi, lo, p \in Word :
        /\ m = hi * 2^(XLEN - k) + lo /\ lo < 2^(XLEN - k) /\ hi < 2^k
        /\ q = lo * 2^k + p
        /\ hi = p * n + r /\ r < n
  BY Zenon DEF Divided
<1>6. /\ m \in Nat /\ n \in Nat /\ n > 0 /\ r \in Nat /\ q \in Nat
      /\ hi \in Nat /\ lo \in Nat /\ p \in Nat
  BY Widths DEF Word
<1>7. /\ m = hi * (2 * P) + lo /\ lo < 2 * P /\ hi < K /\ q = lo * K + p
      /\ hi = p * n + r /\ r < n
  BY <1>1, <1>3, <1>5, Zenon
<1> DEFINE t == q \div (P * K)
           s == ((2 * r) % 2^XLEN) + TopBit(q, XLEN)
           u == (2 * q) % 2^XLEN
           h == 2 * hi + t
\* The top bit t of lo moves into hi and the rest of q up.
<1>8. /\ t \in {0, 1} /\ (2 * r) % (2 * (P * K)) = 2 * r /\ h < 2 * K
      /\ \E l \in 0 .. P - 1 : /\ m = h * P + l
                               /\ (2 * q) % (2 * (P * K)) = l * (2 * K) + 2 * p
  <2> USE <1>6, <1>7
  <2>0. PICK H \in Nat : H = P * K
    OBVIOUS
  <2>1. H >= K
    <3>1. (P - 1) * K \in Nat
      OBVIOUS
    <3>2. (P - 1) * K = P * K - K /\ P * K \in Nat
      OBVIOUS
    <3>3. QED
      BY <2>0, <3>1, <3>2
  <2>2. p <= hi /\ r <= hi
    <3>1. p * n \in Nat /\ p * (n - 1) \in Nat
      OBVIOUS
    <3>2. p * (n - 1) = p * n - p
      OBVIOUS
    <3>3. QED
      BY <3>1, <3>2
  <2>3. PICK c \in {0, 1}, l \in 0 .. P - 1 : lo = c * P + l
    <3>1. CASE lo < P
      <4>1. lo = 0 * P + lo /\ lo \in 0 .. P - 1
        BY <3>1
      <4>2. QED
        BY <4>1, Zenon
    <3>2. CASE ~(lo < P)
      <4>1. lo = 1 * P + (lo - P) /\ lo - P \in 0 .. P - 1
        BY <3>2
      <4>2. QED
        BY <4>1, Zenon
    <3>3. QED
      BY <3>1, <3>2, Zenon
  <2>4. l * K + p \in 0 .. H - 1
    <3>1. l * K + K <= P * K /\ l * K \in Int
      BY ProductGap
    <3>2. l * K \in Nat
      OBVIOUS
    <3>3. QED
      BY <2>0, <2>2, <3>1, <3>2
  <2>5. q = c * H + (l * K + p)
    <3>1. lo * K = c * (P * K) + l * K
      BY <2>3
    <3>2. lo * K \in Nat /\ c * (P * K) \in Nat /\ l * K \in Nat
      OBVIOUS
    <3>3. QED
      BY <2>0, <3>1, <3>2
  <2>6. q \div H = c
    <3>1. H \in Nat \ {0}
      BY <2>1
    <3>2. c \in Nat
      OBVIOUS
    <3>3. (c * H + (l * K + p)) \div H = c
      BY <2>4, <3>1, <3>2, QuotientOf, Zenon
    <3>4. QED
      BY <2>5, <3>3, Zenon
  <2>7. (2 * q) % (2 * H) = l * (2 * K) + 2 * p
    <3>1. 2 * q = c * (2 * H) + 2 * (l * K + p)
      BY <2>4, <2>5
    <3>2. 2 * (l * K + p) = l * (2 * K) + 2 * p
      OBVIOUS
    <3>3. 2 * (l * K + p) \in 0 .. 2 * H - 1 /\ 2 * H \in Nat \ {0}
      BY <2>1, <2>4
    <3>4. (2 * q) % (2 * H) = 2 * (l * K + p)
      <4>1. 2 * q \in Int /\ c \in Int
        OBVIOUS
      <4>2. QED
        BY <3>1, <3>3, <4>1, RemainderOf, Zenon
    <3>5. QED
      BY <3>2, <3>4, Zenon
  <2>8. (2 * r) % (2 * H) = 2 * r
    <3>1. 2 * r \in 0 .. 2 * H - 1 /\ 2 * H \in Nat \ {0}
      BY <2>1, <2>2
    <3>2. QED
      BY <3>1, NearRemainder, Zenon
  <2>9. m = (2 * hi + c) * P + l
    <3>1. hi * (2 * P) = (2 * hi) * P
      OBVIOUS
    <3>2. (2 * hi + c) * P = (2 * hi) * P + c * P
      OBVIOUS
    <3>3. hi * (2 * P) \in Nat /\ (2 * hi) * P \in Nat /\ c * P \in Nat
      OBVIOUS
    <3>4. QED
      BY <2>3, <3>1, <3>2, <3>3
  <2>10. 2 * hi + c < 2 * K
    OBVIOUS
  <2>11. QED
    BY <2>0, <2>6, <2>7, <2>8, <2>9, <2>10, Zenon
<1>9. PICK l \in 0 .. P - 1 : m = h * P + l /\ u = l * (2 * K) + 2 * p
  BY <1>4, <1>8, Zenon
<1>10. s = 2 * r + t
  BY <1>4, <1>8, Zenon DEF TopBit
<1>11. l * (2 * K) \in Nat /\ u \in Nat /\ s \in Nat
  BY <1>6, <1>8, <1>9, <1>10
<1> HIDE DEF t, s, u
<1>12. h = (2 * p) * n + s
  <2>1. (2 * p) * n = 2 * (p * n) /\ p * n \in Nat
    BY <1>6
  <2>2. QED
    BY <1>6, <1>7, <1>8, <1>10, <2>1
<1>13. s < 2 * n
  BY <1>6, <1>7, <1>8, <1>10
<1>14. h \in Word /\ l \in Word
  <2>1. h * P \in Nat /\ h \in Nat /\ h <= h * P
    <3>1. h * P = h + h * (P - 1) /\ h \in Nat
      BY <1>6, <1>8
    <3>2. h * (P - 1) \in Nat
      BY <3>1
    <3>3. QED
      BY <3>1, <3>2
  <2>2. h <= m /\ l <= m
    BY <1>6, <1>9, <2>1
  <2>3. QED
    BY <2>1, <2>2, Widths DEF Word
<1>15. ASSUME NEW e \in Nat, NEW f \in Nat, NEW g \in Nat,
              h = e * n + f, f < n, g = l * (2 * K) + e
       PROVE  Divided(m, n, k + 1, f, g)
  <2>1. e \in Word
    <3>1. e * n = e + e * (n - 1) /\ e * (n - 1) \in Nat
      BY <1>6
    <3>2. h \in Nat /\ e <= h
      BY <1>6, <1>8, <1>15, <3>1
    <3>3. QED
      BY <1>14, <3>2, Widths DEF Word
  <2>2. 2^(XLEN - (k + 1)) = P /\ 2^(k + 1) = 2 * K
    BY <1>0, <1>2, <1>3, Zenon
  <2>3. /\ m = h * 2^(XLEN - (k + 1)) + l /\ l < 2^(XLEN - (k + 1)) /\ h < 2^(k + 1)
        /\ g = l * 2^(k + 1) + e /\ h = e * n + f /\ f < n
    <3> HIDE DEF h
    <3>1. m = h * P + l /\ l < P /\ h < 2 * K /\ g = l * (2 * K) + e
      BY <1>8, <1>9, <1>15
    <3>2. QED
      BY <1>15, <2>2, <3>1, Zenon
  <2>4. QED
    BY <1>14, <2>1, <2>3, Zenon DEF Divided
<1>16. s >= n => Divided(m, n, k + 1, s - n, u + 1)
  <2> SUFFICES ASSUME s >= n PROVE Divided(m, n, k + 1, s - n, u + 1)
    BY Zenon
  <2>1. h = (2 * p + 1) * n + (s - n)
    <3>1. (2 * p + 1) * n = (2 * p) * n + n /\ (2 * p) * n \in Nat
      BY <1>6
    <3>2. QED
      BY <1>6, <1>11, <1>12, <3>1
  <2>2. s - n \in Nat /\ s - n < n /\ 2 * p + 1 \in Nat /\ u + 1 \in Nat
    BY <1>6, <1>11, <1>13
  <2>3. u + 1 = l * (2 * K) + (2 * p + 1)
    BY <1>6, <1>9, <1>11
  <2>4. QED
    BY <1>15, <2>1, <2>2, <2>3, Zenon
<1>17. ~(s >= n) => Divided(m, n, k + 1, s, u)
  <2> SUFFICES ASSUME ~(s >= n) PROVE Divided(m, n, k + 1, s, u)
    BY Zenon
  <2>1. s < n /\ 2 * p \in Nat
    BY <1>6, <1>11
  <2>2. QED
    BY <1>9, <1>11, <1>12, <1>15, <2>1, Zenon
<1>18. u + 1 \in Nat
  BY <1>11
<1>19. QED
  BY <1>11, <1>16, <1>17, <1>18, Zenon DEF s, u

----------------------------------------------------------------------------
(* Two's complement.                                                       *)

\* What a word of w bits stands for.
LEMMA TwosComplement ==
    ASSUME NEW w \in {XLEN, WLEN}, NEW x \in 0 .. 2^w - 1
    PROVE  /\ 2^w \in Nat \ {0} /\ 2^(w - 1) \in Nat \ {0} /\ 2^w = 2 * 2^(w - 1)
           /\ TopBit(x, w) = (IF x >= 2^(w - 1) THEN 1 ELSE 0)
           /\ ToInt(x, w) = (IF x >= 2^(w - 1) THEN x - 2^w ELSE x)
           /\ ToInt(x, w) \in -(2^(w - 1)) .. 2^(w - 1) - 1
           /\ Iss!sxlen(x, w) = ToInt(x, w)
           /\ ToInt(x, w) % 2^w = x
<1>1. 2^w \in Nat \ {0} /\ 2^(w - 1) \in Nat \ {0} /\ 2^w = 2 * 2^(w - 1)
  BY Widths, Zenon
<1> DEFINE f == 2^w
           h == 2^(w - 1)
<1>2. f \in Nat \ {0} /\ h \in Nat \ {0} /\ f = 2 * h /\ x \in 0 .. f - 1
  BY <1>1, Zenon
<1>3. TopBit(x, w) = x \div h
  BY Zenon DEF TopBit
<1>4. ToInt(x, w) = IF TopBit(x, w) = 1 THEN x - f ELSE x
  BY Zenon DEF ToInt
<1>5. Iss!sxlen(x, w) = IF x % f >= h THEN (x % f) - f ELSE x % f
  BY Zenon DEF Iss!sxlen
<1> HIDE DEF f, h
<1>6. TopBit(x, w) = IF x >= h THEN 1 ELSE 0
  <2>1. CASE x >= h
    <3>1. x = 1 * h + (x - h) /\ x - h \in 0 .. h - 1
      BY <1>2, <2>1
    <3>2. x \div h = 1
      BY <1>2, <3>1, QuotientOf, Zenon
    <3>3. QED
      BY <1>3, <2>1, <3>2, Zenon
  <2>2. CASE ~(x >= h)
    <3>1. x = 0 * h + x /\ x \in 0 .. h - 1
      BY <1>2, <2>2
    <3>2. x \div h = 0
      BY <1>2, <3>1, QuotientOf, Zenon
    <3>3. QED
      BY <1>3, <2>2, <3>2, Zenon
  <2>3. QED
    BY <2>1, <2>2, Zenon
<1>7. ToInt(x, w) = IF x >= h THEN x - f ELSE x
  BY <1>4, <1>6
<1>8. x % f = x
  BY <1>2, NearRemainder, Zenon
<1>9. ToInt(x, w) \in -h .. h - 1
  BY <1>2, <1>7
<1>10. Iss!sxlen(x, w) = ToInt(x, w)
  BY <1>5, <1>7, <1>8, Zenon
<1>11. ToInt(x, w) % f = x
  <2>1. CASE x >= h
    <3>1. x - f \in -f .. -1
      BY <1>2, <2>1
    <3>2. (x - f) % f = (x - f) + f
      BY <1>2, <3>1, NearRemainder, Zenon
    <3>3. QED
      BY <1>2, <1>7, <2>1, <3>2
  <2>2. CASE ~(x >= h)
    BY <1>7, <1>8, <2>2, Zenon
  <2>3. QED
    BY <2>1, <2>2, Zenon
<1>12. QED
  BY <1>1, <1>6, <1>7, <1>9, <1>10, <1>11, Zenon DEF f, h

\* A word stands for zero only if it is zero.
LEMMA ValueZero ==
    ASSUME NEW w \in {XLEN, WLEN}, NEW x \in 0 .. 2^w - 1, NEW s \in BOOLEAN
    PROVE  Value(s, x, w) \in Int /\ (Value(s, x, w) = 0 <=> x = 0)
<1>1. /\ 2^w \in Nat \ {0}
      /\ ToInt(x, w) = (IF x >= 2^(w - 1) THEN x - 2^w ELSE x)
      /\ 2^(w - 1) \in Nat \ {0}
  BY TwosComplement, Zenon
<1> DEFINE f == 2^w
           h == 2^(w - 1)
<1>2. /\ f \in Nat \ {0} /\ h \in Nat \ {0} /\ x \in 0 .. f - 1
      /\ ToInt(x, w) = IF x >= h THEN x - f ELSE x
  BY <1>1, Zenon
<1> HIDE DEF f, h
<1>3. QED
  BY <1>2 DEF Value

\* Quotients and remainders of naturals are no larger than what is divided.
LEMMA Bounded ==
    ASSUME NEW m \in Nat, NEW n \in Nat \ {0}
    PROVE  /\ m \div n \in Nat /\ m \div n <= m
           /\ m % n \in Nat /\ m % n < n /\ m % n <= m
<1> DEFINE q == m \div n
           r == m % n
<1>1. q \in Nat /\ r \in 0 .. n - 1 /\ m = q * n + r
  BY DivisionLaw, Zenon
<1> HIDE DEF q, r
<1>2. q * n = q + q * (n - 1) /\ q * (n - 1) \in Nat
  BY <1>1
<1>3. q <= m /\ r <= m /\ r < n
  BY <1>1, <1>2
<1>4. QED
  BY <1>1, <1>3 DEF q, r

\* The true quotient and remainder are integers.
LEMMA TrueInt ==
    ASSUME NEW m \in Int, NEW n \in Int
    PROVE  TrueQ(m, n) \in Int /\ TrueR(m, n) \in Int
<1>1. CASE n = 0
  BY <1>1 DEF TrueQ, TrueR
<1>2. CASE n # 0
  <2> DEFINE q == Iss!Magnitude(m) \div Iss!Magnitude(n)
             r == Iss!Magnitude(m) % Iss!Magnitude(n)
  <2>1. Iss!Magnitude(m) \in Nat /\ Iss!Magnitude(n) \in Nat \ {0}
    BY <1>2 DEF Iss!Magnitude
  <2>2. q \in Nat /\ r \in Nat
    BY <2>1, Bounded, Zenon
  <2> HIDE DEF q, r
  <2>3. -q \in Int /\ -r \in Int
    BY <2>2
  <2>4. QED
    BY <1>2, <2>2, <2>3 DEF TrueQ, TrueR, q, r
<1>3. QED
  BY <1>1, <1>2, Zenon

\* What iss.py computes for unsigned operands of width w.
LEMMA IssUnsigned ==
    ASSUME NEW w \in {XLEN, WLEN}, NEW a \in 0 .. 2^w - 1, NEW b \in 0 .. 2^w - 1
    PROVE  /\ Iss!IssDivU(a, b, w) = TrueQ(a, b) % 2^w
           /\ Iss!IssRemU(a, b) = TrueR(a, b) % 2^w
<1> DEFINE f == 2^w
<1>1. f \in Nat \ {0} /\ a \in 0 .. f - 1 /\ b \in 0 .. f - 1
  BY TwosComplement, Zenon
<1>2. Iss!IssDivU(a, b, w) = IF b = 0 THEN (-1) % f ELSE a \div b
  BY Zenon DEF Iss!IssDivU, Iss!uxlen
<1>3. Iss!IssRemU(a, b) = IF b = 0 THEN a ELSE a % b
  BY Zenon DEF Iss!IssRemU
<1> HIDE DEF f
<1>4. CASE b = 0
  <2>1. TrueQ(a, b) = -1 /\ TrueR(a, b) = a
    BY <1>4, Zenon DEF TrueQ, TrueR
  <2>2. a % f = a
    BY <1>1, NearRemainder, Zenon
  <2>3. QED
    BY <1>2, <1>3, <1>4, <2>1, <2>2, Zenon DEF f
<1>5. CASE b # 0
  <2>1. a \in Nat /\ b \in Nat \ {0} /\ ~(a < 0) /\ ~(b < 0)
    BY <1>1, <1>5
  <2>2. TrueQ(a, b) = a \div b /\ TrueR(a, b) = a % b
    BY <1>5, <2>1 DEF TrueQ, TrueR, Iss!Magnitude
  <2>3. /\ a \div b \in Nat /\ a \div b <= a
        /\ a % b \in Nat /\ a % b < b /\ a % b <= a
    BY <2>1, Bounded, Zenon
  <2>4. a \div b \in 0 .. f - 1 /\ a % b \in 0 .. f - 1
    BY <1>1, <2>1, <2>3
  <2>5. (a \div b) % f = a \div b /\ (a % b) % f = a % b
    BY <1>1, <2>4, NearRemainder, Zenon
  <2>6. QED
    BY <1>2, <1>3, <1>5, <2>2, <2>5, Zenon DEF f
<1>6. QED
  BY <1>4, <1>5, Zenon

\* The division of a negative number by -1.
LEMMA ByMinusOne ==
    ASSUME NEW m \in Int, NEW n \in Int, NEW h \in Nat,
           m < 0, n < 0, -m = h, -n = 1
    PROVE  TrueQ(m, n) = h /\ TrueR(m, n) = 0
<1>1. Iss!Magnitude(m) = h /\ Iss!Magnitude(n) = 1
  BY Zenon DEF Iss!Magnitude
<1>2. h \div 1 = h /\ h % 1 = 0
  <2>1. h = h * 1 + 0 /\ 0 \in 0 .. 1 - 1 /\ 1 \in Nat \ {0}
    OBVIOUS
  <2>2. QED
    BY <2>1, QuotientOf
<1>3. TrueQ(m, n) = h \div 1
  BY <1>1 DEF TrueQ
<1>4. TrueR(m, n) = -(h % 1)
  BY <1>1 DEF TrueR
<1>5. QED
  BY <1>2, <1>3, <1>4

\* What it computes for signed ones: the overflowing quotient is no exception.
LEMMA IssSigned ==
    ASSUME NEW w \in {XLEN, WLEN}, NEW a \in 0 .. 2^w - 1, NEW b \in 0 .. 2^w - 1
    PROVE  /\ Iss!IssDivS(a, b, w) = TrueQ(ToInt(a, w), ToInt(b, w)) % 2^w
           /\ Iss!IssRemS(a, b, w) = TrueR(ToInt(a, w), ToInt(b, w)) % 2^w
<1> DEFINE f == 2^w
           h == 2^(w - 1)
           m == ToInt(a, w)
           n == ToInt(b, w)
           q == Iss!Magnitude(m) \div Iss!Magnitude(n)
           r == Iss!Magnitude(m) % Iss!Magnitude(n)
<1>1. /\ f \in Nat \ {0} /\ h \in Nat \ {0} /\ f = 2 * h
      /\ m \in Int /\ n \in Int /\ m % f = a /\ (n = 0 <=> b = 0)
      /\ Iss!sxlen(a, w) = m /\ Iss!sxlen(b, w) = n
  <2>1. Value(TRUE, b, w) = n
    BY Zenon DEF Value
  <2>2. n = 0 <=> b = 0
    BY <2>1, ValueZero, Zenon
  <2>3. QED
    BY <2>2, TwosComplement
<1>2. /\ Iss!IssDivS(a, b, w) =
           IF b = 0 THEN (-1) % f ELSE IF m = -h /\ n = -1 THEN a
           ELSE (IF (m < 0) # (n < 0) THEN -q ELSE q) % f
      /\ Iss!IssRemS(a, b, w) =
           IF b = 0 THEN a ELSE IF m = -h /\ n = -1 THEN 0
           ELSE (IF m < 0 THEN -r ELSE r) % f
  BY <1>1, Zenon DEF Iss!IssDivS, Iss!IssRemS, Iss!IssOverflow, Iss!uxlen
<1>3. /\ TrueQ(m, n) =
           IF n = 0 THEN -1 ELSE IF (m < 0) # (n < 0) THEN -q ELSE q
      /\ TrueR(m, n) = IF n = 0 THEN m ELSE IF m < 0 THEN -r ELSE r
  BY Zenon DEF TrueQ, TrueR
<1> HIDE DEF f, h, m, n
<1>4. CASE b # 0 /\ m = -h /\ n = -1
  <2>1. m < 0 /\ n < 0 /\ -m = h /\ -n = 1
    <3>1. h \in Int /\ h > 0 /\ m = -h /\ n + 1 = 0 /\ m \in Int /\ n \in Int
      BY <1>1, <1>4
    <3>2. QED
      BY <3>1
  <2>3. TrueQ(m, n) = h /\ TrueR(m, n) = 0
    BY <1>1, <2>1, ByMinusOne, Zenon
  <2>4. h % f = h /\ 0 % f = 0 /\ m % f = m + f
    <3>1. h \in 0 .. f - 1 /\ 0 \in 0 .. f - 1 /\ m \in -f .. -1
      BY <1>1, <1>4
    <3>2. QED
      BY <1>1, <3>1, NearRemainder, Zenon
  <2>5. a = h
    BY <1>1, <1>4, <2>4
  <2>6. QED
    BY <1>2, <1>4, <2>3, <2>4, <2>5, Zenon DEF f, m, n
<1>5. CASE ~(b # 0 /\ m = -h /\ n = -1)
  <2> HIDE DEF q, r
  <2>1. Iss!IssDivS(a, b, w) = TrueQ(m, n) % f
    <3>1. CASE b = 0
      <4>1. TrueQ(m, n) = -1 /\ Iss!IssDivS(a, b, w) = (-1) % f
        BY <1>1, <1>2, <1>3, <3>1, Zenon
      <4>2. QED
        BY <4>1, Zenon
    <3>2. CASE b # 0
      <4> DEFINE v == IF (m < 0) # (n < 0) THEN -q ELSE q
      <4>1. TrueQ(m, n) = v /\ Iss!IssDivS(a, b, w) = v % f
        BY <1>1, <1>2, <1>3, <1>5, <3>2, Zenon
      <4>2. QED
        BY <4>1, Zenon
    <3>3. QED
      BY <3>1, <3>2, Zenon
  <2>2. Iss!IssRemS(a, b, w) = TrueR(m, n) % f
    BY <1>1, <1>2, <1>3, <1>5, Zenon
  <2>3. QED
    BY <2>1, <2>2, Zenon DEF f, m, n
<1>6. QED
  BY <1>4, <1>5, Zenon

\* Both at once, as Divider's reference uses them.
LEMMA Reference ==
    ASSUME NEW w \in {XLEN, WLEN}, NEW a \in 0 .. 2^w - 1, NEW b \in 0 .. 2^w - 1,
           NEW s \in BOOLEAN
    PROVE  /\ RefDiv(s, w, a, b).q = TrueQ(Value(s, a, w), Value(s, b, w)) % 2^w
           /\ RefDiv(s, w, a, b).r = TrueR(Value(s, a, w), Value(s, b, w)) % 2^w
BY IssSigned, IssUnsigned, Zenon DEF RefDiv, Value

----------------------------------------------------------------------------
(* What the unit does with its operands, at the full width.                *)

\* Two's-complement negation.
LEMMA Negation ==
    ASSUME NEW x \in Word
    PROVE  Neg(x, XLEN) = (-x) % 2^XLEN /\ x % 2^XLEN = x
<1> DEFINE f == 2^XLEN
<1>1. f \in Nat \ {0} /\ x \in 0 .. f - 1
  BY Widths, Zenon DEF Word
<1>2. Neg(x, XLEN) = (f - x) % f
  BY Zenon DEF Neg
<1> HIDE DEF f
<1>3. (f - x) % f = (-x) % f
  <2>1. CASE x = 0
    <3>1. f - x = 1 * f + 0 /\ -x = 0 * f + 0 /\ 0 \in 0 .. f - 1
      BY <1>1, <2>1
    <3>2. f - x \in Int /\ -x \in Int
      BY <1>1
    <3>3. (f - x) % f = 0
      BY <1>1, <3>1, <3>2, RemainderOf
    <3>4. (-x) % f = 0
      BY <1>1, <3>1, <3>2, RemainderOf
    <3>5. QED
      BY <3>3, <3>4, Zenon
  <2>2. CASE x # 0
    <3>1. f - x \in 0 .. f - 1 /\ -x \in -f .. -1 /\ -x + f = f - x
      BY <1>1, <2>2
    <3>2. QED
      BY <1>1, <3>1, NearRemainder, Zenon
  <2>3. QED
    BY <2>1, <2>2, Zenon
<1>4. x % f = x
  BY <1>1, NearRemainder, Zenon
<1>5. QED
  BY <1>2, <1>3, <1>4, Zenon DEF f

\* Words stay words when their sign is put back.
LEMMA NegateTypes ==
    ASSUME NEW x \in Word, NEW n
    PROVE  Negate(n, x) \in Word
<1>1. 2^XLEN \in Nat \ {0} /\ x \in Int
  BY Widths DEF Word
<1>2. (2^XLEN - x) % 2^XLEN \in 0 .. 2^XLEN - 1
  BY <1>1
<1>3. QED
  BY <1>2, Zenon DEF Negate, Neg, Word

\* Abs gives the magnitude, and the top bit of a signed word its sign.
LEMMA Magnitudes ==
    ASSUME NEW x \in Word, NEW s \in BOOLEAN
    PROVE  /\ Abs(s, x) \in Word /\ Abs(s, x) = Iss!Magnitude(Value(s, x, XLEN))
           /\ (Value(s, x, XLEN) < 0) = (s /\ TopBit(x, XLEN) = 1)
           /\ Value(s, x, XLEN) \in Int /\ Value(s, x, XLEN) % 2^XLEN = x
           /\ Value(s, x, XLEN) = 0 <=> x = 0
<1> DEFINE f == 2^XLEN
           h == 2^(XLEN - 1)
           v == Value(s, x, XLEN)
<1>1. x \in 0 .. 2^XLEN - 1 /\ XLEN \in {XLEN, WLEN}
  BY Zenon DEF Word
<1>2. /\ f \in Nat \ {0} /\ h \in Nat \ {0} /\ f = 2 * h /\ x \in 0 .. f - 1
      /\ TopBit(x, XLEN) = (IF x >= h THEN 1 ELSE 0)
      /\ ToInt(x, XLEN) = (IF x >= h THEN x - f ELSE x)
      /\ ToInt(x, XLEN) % f = x /\ x % f = x
  BY <1>1, TwosComplement, Negation, Zenon
<1>3. v \in Int /\ (v = 0 <=> x = 0)
  BY <1>1, ValueZero, Zenon
<1>4. Abs(s, x) = IF s /\ TopBit(x, XLEN) = 1 THEN (f - x) % f ELSE x
  BY Zenon DEF Abs, Neg
<1>5. v = IF s THEN ToInt(x, XLEN) ELSE x
  BY Zenon DEF Value
<1>6. Word = 0 .. f - 1
  BY Zenon DEF Word
<1>7. Iss!Magnitude(v) = IF v < 0 THEN -v ELSE v
  BY Zenon DEF Iss!Magnitude
<1> HIDE DEF f, h, v
<1>8. CASE s /\ x >= h
  <2>1. v = x - f /\ v < 0 /\ TopBit(x, XLEN) = 1 /\ v % f = x /\ s
    BY <1>2, <1>5, <1>8
  <2>2. f - x \in 0 .. f - 1
    BY <1>2, <1>8
  <2>3. Abs(s, x) = f - x
    BY <1>2, <1>4, <2>1, <2>2, NearRemainder, Zenon
  <2>4. -v = f - x
    BY <1>2, <2>1
  <2>5. QED
    BY <1>3, <1>6, <1>7, <2>1, <2>2, <2>3, <2>4, Zenon DEF v, f
<1>9. CASE ~(s /\ x >= h)
  <2>1. v = x /\ ~(v < 0) /\ ~(s /\ TopBit(x, XLEN) = 1) /\ v % f = x
    BY <1>2, <1>5, <1>9
  <2>2. QED
    BY <1>2, <1>3, <1>4, <1>6, <1>7, <2>1 DEF v, f
<1>10. QED
  BY <1>8, <1>9, Zenon

\* A divisor that is zero, as Divider.v answers it.
LEMMA UnitZero ==
    ASSUME NEW a \in Word, NEW s \in BOOLEAN
    PROVE  /\ 2^XLEN - 1 = TrueQ(Value(s, a, XLEN), Value(s, 0, XLEN)) % 2^XLEN
           /\ a = TrueR(Value(s, a, XLEN), Value(s, 0, XLEN)) % 2^XLEN
<1>1. 0 \in Word /\ 2^XLEN \in Nat \ {0}
  BY Widths DEF Word
<1>2. Value(s, 0, XLEN) = 0 /\ Value(s, a, XLEN) % 2^XLEN = a
  BY <1>1, Magnitudes, Zenon
<1>3. (-1) % 2^XLEN = 2^XLEN - 1
  <2>1. -1 \in -(2^XLEN) .. -1
    BY <1>1
  <2>2. (-1) % 2^XLEN = -1 + 2^XLEN
    BY <1>1, <2>1, NearRemainder, Zenon
  <2>3. QED
    BY <1>1, <2>2
<1>4. QED
  BY <1>2, <1>3, Zenon DEF TrueQ, TrueR

\* The quotient that does not fit.
LEMMA UnitOverflow ==
    ASSUME NEW a \in Word, NEW b \in Word, a = 2^(XLEN - 1), b = 2^XLEN - 1
    PROVE  /\ a = TrueQ(Value(TRUE, a, XLEN), Value(TRUE, b, XLEN)) % 2^XLEN
           /\ 0 = TrueR(Value(TRUE, a, XLEN), Value(TRUE, b, XLEN)) % 2^XLEN
<1> DEFINE f == 2^XLEN
           h == 2^(XLEN - 1)
           m == Value(TRUE, a, XLEN)
           n == Value(TRUE, b, XLEN)
<1>1. /\ f \in Nat \ {0} /\ h \in Nat \ {0} /\ f = 2 * h
      /\ m = (IF a >= h THEN a - f ELSE a) /\ n = (IF b >= h THEN b - f ELSE b)
  <2>1. a \in 0 .. 2^XLEN - 1 /\ b \in 0 .. 2^XLEN - 1 /\ XLEN \in {XLEN, WLEN}
    BY Zenon DEF Word
  <2>2. QED
    BY <2>1, TwosComplement, Zenon DEF Value
<1>2. a = h /\ b = f - 1 /\ a % f = a /\ 0 % f = 0
  <2>1. 0 \in Word
    BY <1>1 DEF Word
  <2>2. QED
    BY <2>1, Negation, Zenon
<1> HIDE DEF f, h, m, n
<1>3. m \in Int /\ n \in Int /\ m < 0 /\ n < 0 /\ -m = h /\ -n = 1
  <2>1. m = a - f /\ n = b - f
    BY <1>1, <1>2
  <2>2. n + 1 = 0 /\ m + h = 0
    BY <1>1, <1>2, <2>1
  <2>3. m \in Int /\ n \in Int
    BY <1>1, <1>2, <2>1
  <2>4. QED
    BY <1>1, <2>2, <2>3
<1>4. TrueQ(m, n) = h /\ TrueR(m, n) = 0
  BY <1>1, <1>3, ByMinusOne, Zenon
<1>5. QED
  BY <1>2, <1>4, Zenon DEF m, n, f

\* All other divisions: the magnitudes are divided and the signs put back.
LEMMA UnitDivides ==
    ASSUME NEW a \in Word, NEW b \in Word \ {0}, NEW s \in BOOLEAN
    PROVE  /\ Abs(s, b) \in Word \ {0}
           /\ Negate(s /\ TopBit(a, XLEN) # TopBit(b, XLEN), Abs(s, a) \div Abs(s, b))
                = TrueQ(Value(s, a, XLEN), Value(s, b, XLEN)) % 2^XLEN
           /\ Negate(s /\ TopBit(a, XLEN) = 1, Abs(s, a) % Abs(s, b))
                = TrueR(Value(s, a, XLEN), Value(s, b, XLEN)) % 2^XLEN
<1> DEFINE m == Value(s, a, XLEN)
           n == Value(s, b, XLEN)
           q == Abs(s, a) \div Abs(s, b)
           r == Abs(s, a) % Abs(s, b)
<1>1. /\ Abs(s, a) \in Word /\ Abs(s, a) = Iss!Magnitude(m)
      /\ (m < 0) = (s /\ TopBit(a, XLEN) = 1) /\ m \in Int
  BY Magnitudes, Zenon
<1>2. /\ Abs(s, b) \in Word /\ Abs(s, b) = Iss!Magnitude(n)
      /\ (n < 0) = (s /\ TopBit(b, XLEN) = 1) /\ n \in Int /\ n # 0
  BY Magnitudes, Zenon
<1>3. TopBit(a, XLEN) \in {0, 1} /\ TopBit(b, XLEN) \in {0, 1}
  <2>1. a \in 0 .. 2^XLEN - 1 /\ b \in 0 .. 2^XLEN - 1 /\ XLEN \in {XLEN, WLEN}
    BY Zenon DEF Word
  <2>2. QED
    BY <2>1, TwosComplement, Zenon
<1> HIDE DEF m, n
<1>4. Abs(s, b) # 0
  BY <1>2 DEF Iss!Magnitude
<1>5. q \in Word /\ r \in Word
  <2>1. Word = 0 .. 2^XLEN - 1 /\ 2^XLEN \in Nat \ {0}
    BY Widths, Zenon DEF Word
  <2>2. Abs(s, a) \in Nat /\ Abs(s, b) \in Nat \ {0}
    BY <1>1, <1>2, <1>4, <2>1
  <2>3. q \in Nat /\ q <= Abs(s, a) /\ r \in Nat /\ r <= Abs(s, a)
    BY <2>2, Bounded, Zenon
  <2> HIDE DEF q, r
  <2>4. QED
    BY <1>1, <2>1, <2>2, <2>3
<1>6. /\ TrueQ(m, n) = IF (m < 0) # (n < 0) THEN -q ELSE q
      /\ TrueR(m, n) = IF m < 0 THEN -r ELSE r
  BY <1>1, <1>2, Zenon DEF TrueQ, TrueR
<1> HIDE DEF q, r
<1>7. ((m < 0) # (n < 0)) <=> (s /\ TopBit(a, XLEN) # TopBit(b, XLEN))
  BY <1>1, <1>2, <1>3, Zenon
<1>8. /\ Neg(q, XLEN) = (-q) % 2^XLEN /\ q % 2^XLEN = q
      /\ Neg(r, XLEN) = (-r) % 2^XLEN /\ r % 2^XLEN = r
  BY <1>5, Negation, Zenon
<1>9. Negate(s /\ TopBit(a, XLEN) # TopBit(b, XLEN), q) = TrueQ(m, n) % 2^XLEN
  <2>1. CASE (m < 0) # (n < 0)
    <3>1. TrueQ(m, n) = -q
      BY <1>6, <2>1, Zenon
    <3>2. Negate(s /\ TopBit(a, XLEN) # TopBit(b, XLEN), q) = Neg(q, XLEN)
      BY <1>7, <2>1, Zenon DEF Negate
    <3>3. QED
      BY <1>8, <3>1, <3>2, Zenon
  <2>2. CASE ~((m < 0) # (n < 0))
    <3>1. TrueQ(m, n) = q
      BY <1>6, <2>2, Zenon
    <3>2. Negate(s /\ TopBit(a, XLEN) # TopBit(b, XLEN), q) = q
      BY <1>7, <2>2, Zenon DEF Negate
    <3>3. QED
      BY <1>8, <3>1, <3>2, Zenon
  <2>3. QED
    BY <2>1, <2>2, Zenon
<1>10. Negate(s /\ TopBit(a, XLEN) = 1, r) = TrueR(m, n) % 2^XLEN
  BY <1>1, <1>6, <1>8, Zenon DEF Negate
<1>11. QED
  BY <1>2, <1>4, <1>9, <1>10, Zenon DEF m, n, q, r

----------------------------------------------------------------------------
(* The word forms.                                                         *)

\* A word fits into the lower half of a register.
LEMMA WordFits == 2^WLEN <= 2^(XLEN - 1)
<1>1. PICK c \in Nat \ {0, 1} : 2^XLEN = 2^WLEN * c
  BY Widths, Zenon
<1> DEFINE f == 2^XLEN
           h == 2^(XLEN - 1)
           g == 2^WLEN
<1>2. f \in Nat /\ h \in Nat /\ g \in Nat /\ f = 2 * h /\ f = g * c
  BY <1>1, Widths, Zenon
<1> HIDE DEF f, h, g
<1>3. g * c = 2 * g + g * (c - 2) /\ g * (c - 2) \in Nat
  BY <1>2
<1>4. g <= h
  BY <1>2, <1>3
<1>5. QED
  BY <1>4, Zenon DEF g, h

\* Sign extension keeps the number a word stands for, and cutting to a word
\* makes one that stands for itself.
LEMMA Widen ==
    ASSUME NEW x \in Word
    PROVE  /\ x % 2^WLEN \in 0 .. 2^WLEN - 1 /\ x % 2^WLEN \in Word
           /\ SignExtend(x) \in Word
           /\ ToInt(SignExtend(x), XLEN) = ToInt(x % 2^WLEN, WLEN)
<1> DEFINE f == 2^XLEN
           h == 2^(XLEN - 1)
           g == 2^WLEN
           e == 2^(WLEN - 1)
           u == x % g
           v == ToInt(u, WLEN)
           y == v % f
<1>1. /\ f \in Nat \ {0} /\ h \in Nat \ {0} /\ f = 2 * h
      /\ g \in Nat \ {0} /\ e \in Nat \ {0} /\ g = 2 * e /\ g <= h
      /\ Word = 0 .. f - 1
  BY Widths, WordFits, Zenon DEF Word
<1>2. u \in 0 .. g - 1
  BY <1>1
<1>3. v \in -e .. e - 1
  <2> HIDE DEF u
  <2>1. u \in 0 .. 2^WLEN - 1 /\ WLEN \in {XLEN, WLEN}
    BY <1>2, Zenon
  <2>2. QED
    BY <2>1, TwosComplement, Zenon
<1>4. SignExtend(x) = y
  BY Zenon DEF SignExtend
<1>5. ASSUME NEW z \in 0 .. f - 1
      PROVE  ToInt(z, XLEN) = IF z >= h THEN z - f ELSE z
  <2>1. z \in 0 .. 2^XLEN - 1 /\ XLEN \in {XLEN, WLEN}
    BY Zenon
  <2>2. QED
    BY <2>1, TwosComplement, Zenon
<1> HIDE DEF f, h, g, e, u, v
<1>6. y \in 0 .. f - 1 /\ ToInt(y, XLEN) = v
  <2>1. CASE v >= 0
    <3>1. v \in 0 .. f - 1 /\ ~(v >= h)
      BY <1>1, <1>3, <2>1
    <3>2. y = v
      BY <1>1, <3>1, NearRemainder, Zenon
    <3>3. QED
      BY <1>5, <3>1, <3>2, Zenon
  <2>2. CASE v < 0
    <3>1. v \in -f .. -1 /\ v + f \in 0 .. f - 1 /\ v + f >= h
      BY <1>1, <1>3, <2>2
    <3>2. y = v + f
      BY <1>1, <3>1, NearRemainder, Zenon
    <3>3. ToInt(v + f, XLEN) = (v + f) - f
      BY <1>5, <3>1, Zenon
    <3>4. (v + f) - f = v
      BY <1>1, <1>3
    <3>5. QED
      BY <3>1, <3>2, <3>3, <3>4, Zenon
  <2>3. QED
    BY <1>3, <2>1, <2>2
<1>7. u \in Word
  BY <1>1, <1>2
<1>8. QED
  BY <1>1, <1>2, <1>4, <1>6, <1>7, Zenon DEF u, v, g

\* The sign extension of a result depends on its low bits only.
LEMMA Narrow ==
    ASSUME NEW v \in Int
    PROVE  SignExtend(v % 2^XLEN) = SignExtend(v % 2^WLEN)
<1>1. PICK c \in Nat \ {0, 1} : 2^XLEN = 2^WLEN * c
  BY Widths, Zenon
<1> DEFINE g == 2^WLEN
<1>2. g \in Nat \ {0} /\ c \in Nat \ {0} /\ 2^XLEN = g * c
  BY <1>1, Widths, Zenon
<1> HIDE DEF g
<1>3. (v % (g * c)) % g = v % g
  BY <1>2, RemainderTwice, Zenon
<1>4. (v % g) % g = v % g
  <2>1. v % g \in 0 .. g - 1
    BY <1>2
  <2>2. QED
    BY <1>2, <2>1, NearRemainder, Zenon
<1>5. (v % 2^XLEN) % 2^WLEN = (v % 2^WLEN) % 2^WLEN
  BY <1>2, <1>3, <1>4, Zenon DEF g
<1>6. QED
  BY <1>5, Zenon DEF SignExtend

\* Results of the right numbers are iss.py's, for all operations.
LEMMA Result ==
    ASSUME op \in Op, NEW x, NEW y,
           x = TrueQ(Value(op.signed, DivIn(op.a), XLEN),
                     Value(op.signed, DivIn(op.b), XLEN)) % 2^XLEN,
           y = TrueR(Value(op.signed, DivIn(op.a), XLEN),
                     Value(op.signed, DivIn(op.b), XLEN)) % 2^XLEN
    PROVE  DivResult(x) = RefResult.q /\ DivResult(y) = RefResult.r
<1>1. /\ op.a \in Word /\ op.b \in Word /\ op.signed \in BOOLEAN /\ op.word \in BOOLEAN
      /\ XLEN \in {XLEN, WLEN} /\ WLEN \in {XLEN, WLEN}
  BY Zenon DEF Op
<1>2. CASE ~op.word
  <2>1. DivIn(op.a) = op.a /\ DivIn(op.b) = op.b /\ DivResult(x) = x /\ DivResult(y) = y
    BY <1>2, Zenon DEF DivIn, DivResult
  <2>2. RefResult = RefDiv(op.signed, XLEN, op.a, op.b)
    BY <1>2, Zenon DEF RefResult
  <2>3. op.a \in 0 .. 2^XLEN - 1 /\ op.b \in 0 .. 2^XLEN - 1
    BY <1>1, Zenon DEF Word
  <2>4. QED
    BY <1>1, <2>1, <2>2, <2>3, Reference
<1>3. CASE op.word
  <2> DEFINE a == op.a % 2^WLEN
             b == op.b % 2^WLEN
             m == Value(op.signed, a, WLEN)
             n == Value(op.signed, b, WLEN)
  <2>1. /\ a \in 0 .. 2^WLEN - 1 /\ b \in 0 .. 2^WLEN - 1
    BY <1>1, Widen, Zenon
  <2>2. /\ Value(op.signed, DivIn(op.a), XLEN) = m
        /\ Value(op.signed, DivIn(op.b), XLEN) = n
    BY <1>1, <1>3, Widen, Zenon DEF DivIn, Value
  <2>3. /\ RefResult.q = SignExtend(RefDiv(op.signed, WLEN, a, b).q)
        /\ RefResult.r = SignExtend(RefDiv(op.signed, WLEN, a, b).r)
    BY <1>3, Zenon DEF RefResult
  <2>4. DivResult(x) = SignExtend(x) /\ DivResult(y) = SignExtend(y)
    BY <1>3, Zenon DEF DivResult
  <2> HIDE DEF a, b
  <2>5. /\ RefDiv(op.signed, WLEN, a, b).q = TrueQ(m, n) % 2^WLEN
        /\ RefDiv(op.signed, WLEN, a, b).r = TrueR(m, n) % 2^WLEN
    BY <1>1, <2>1, Reference, Zenon
  <2>6. m \in Int /\ n \in Int
    BY <1>1, <2>1, ValueZero, Zenon
  <2> HIDE DEF m, n
  <2>7. TrueQ(m, n) \in Int /\ TrueR(m, n) \in Int
    BY <2>6, TrueInt, Zenon
  <2>8. QED
    BY <2>2, <2>3, <2>4, <2>5, <2>7, Narrow, Zenon
<1>4. QED
  BY <1>1, <1>2, <1>3, Zenon

----------------------------------------------------------------------------
(* The invariant.                                                          *)

\* The operands of a divide, and what is right about an answer to them.
LEMMA Operands ==
    ASSUME IInv, isDivRem
    PROVE  /\ op \in Op /\ op.signed \in BOOLEAN
           /\ DivIn(op.a) \in Word /\ DivIn(op.b) \in Word
<1>1. op \in Op
  BY Zenon DEF IInv, TypeOK, isDivRem
<1>2. op.signed \in BOOLEAN /\ op.word \in BOOLEAN /\ op.a \in Word /\ op.b \in Word
  BY <1>1, Zenon DEF Op
<1>3. QED
  BY <1>1, <1>2, Widen, Zenon DEF DivIn

\* A divide that is stalled stays, and keeps its operands while MEM is held.
LEMMA Stalled ==
    ASSUME IInv, NEW hold \in BOOLEAN, Ex(hold), div_stall
    PROVE  op' = op /\ moved' = (moved \/ ~hold) /\ moved' \in BOOLEAN
BY Zenon DEF Ex, div_stall, IInv, TypeOK

\* A start without an iteration answers at once.
LEMMA StartAnswers ==
    ASSUME IInv, isDivRem, ~busy, ~done, op' = op, moved' \in BOOLEAN,
           done' = TRUE, quotient' \in Word, remainder' \in Word,
           quotient' = TrueQ(Value(op.signed, DivIn(op.a), XLEN),
                             Value(op.signed, DivIn(op.b), XLEN)) % 2^XLEN,
           remainder' = TrueR(Value(op.signed, DivIn(op.a), XLEN),
                              Value(op.signed, DivIn(op.b), XLEN)) % 2^XLEN,
           UNCHANGED <<busy, count, R, Q, D, neg_quotient, neg_remainder>>
    PROVE  IInv'
<1>1. TypeOK'
  BY Zenon DEF IInv, TypeOK
<1>2. DivResult(quotient') = RefResult.q /\ DivResult(remainder') = RefResult.r
  BY Operands, Result, Zenon
<1>3. DoneCorrect'
  BY <1>2, Zenon DEF DoneCorrect, DivResult, RefResult
<1>4. QED
  BY <1>1, <1>3, Zenon DEF IInv, isDivRem

\* A start of the iteration.
LEMMA StartDivides ==
    ASSUME IInv, isDivRem, ~busy, ~done, op' = op, moved' \in BOOLEAN,
           NEW a, NEW b, a = DivIn(op.a), b = DivIn(op.b), b # 0,
           R' = 0, Q' = Abs(op.signed, a), D' = Abs(op.signed, b),
           neg_quotient' = (op.signed /\ TopBit(a, XLEN) # TopBit(b, XLEN)),
           neg_remainder' = (op.signed /\ TopBit(a, XLEN) = 1),
           count' = 0, busy' = TRUE, done' = FALSE,
           UNCHANGED <<quotient, remainder>>
    PROVE  IInv'
<1>1. /\ op \in Op /\ op.signed \in BOOLEAN /\ a \in Word /\ b \in Word \ {0}
  BY Operands, Zenon
<1>2. Abs(op.signed, a) \in Word /\ Abs(op.signed, b) \in Word \ {0}
  BY <1>1, Magnitudes, UnitDivides, Zenon
<1>3. 0 \in Word /\ 0 \in 0 .. XLEN - 1
  BY Widths, WidthAssumption DEF Word
<1>4. neg_quotient' \in BOOLEAN /\ neg_remainder' \in BOOLEAN
  BY <1>1, Zenon
<1>5. TypeOK'
  BY <1>2, <1>3, <1>4, Zenon DEF IInv, TypeOK
<1>6. Divided(Abs(op.signed, a), D', count', R', Q')
  BY <1>2, DividedStart, Zenon
<1>7. a = DivIn(op.a)' /\ b = DivIn(op.b)' /\ isDivRem'
  BY Zenon DEF DivIn, isDivRem
<1>8. /\ b # 0 /\ D' = Abs(op'.signed, b)
      /\ neg_quotient' = (op'.signed /\ TopBit(a, XLEN) # TopBit(b, XLEN))
      /\ neg_remainder' = (op'.signed /\ TopBit(a, XLEN) = 1)
      /\ Divided(Abs(op'.signed, a), D', count', R', Q')
  BY <1>6, Zenon
<1>9. QED
  BY <1>5, <1>7, <1>8, Zenon
     DEF IInv, DoneCorrect, Divided, Abs, TopBit, Neg, Word

\* An iteration: the last one answers, the others divide one more bit.
LEMMA StepDivides ==
    ASSUME IInv, DivStep, op' = op, moved' \in BOOLEAN
    PROVE  IInv'
<1> DEFINE a == DivIn(op.a)
           b == DivIn(op.b)
           m == Abs(op.signed, a)
           s == ((2 * R) % 2^XLEN) + TopBit(Q, XLEN)
           u == (2 * Q) % 2^XLEN
           last == count = XLEN - 1
           r == IF s >= D THEN s - D ELSE s
           q == u + (IF s >= D THEN 1 ELSE 0)
<1>1. /\ busy /\ ~done /\ isDivRem /\ b # 0 /\ D = Abs(op.signed, b)
      /\ neg_quotient = (op.signed /\ TopBit(a, XLEN) # TopBit(b, XLEN))
      /\ neg_remainder = (op.signed /\ TopBit(a, XLEN) = 1)
      /\ Divided(m, D, count, R, Q)
      /\ count \in 0 .. XLEN - 1 /\ R \in Word /\ Q \in Word
  BY Zenon DEF IInv, TypeOK, DivStep, DivStepCounting
<1>2. /\ op \in Op /\ op.signed \in BOOLEAN /\ a \in Word /\ b \in Word \ {0}
  BY <1>1, Operands, Zenon
<1>3. m \in Word /\ D \in Word \ {0}
  BY <1>1, <1>2, Magnitudes, UnitDivides, Zenon
<1>4. /\ R' = r /\ Q' = q /\ count' = (count + 1) % XLEN
      /\ busy' = ~last /\ done' = last
      /\ quotient' = (IF last THEN Negate(neg_quotient, q) ELSE quotient)
      /\ remainder' = (IF last THEN Negate(neg_remainder, r) ELSE remainder)
      /\ UNCHANGED <<D, neg_quotient, neg_remainder>>
  BY Zenon DEF DivStep, DivStepCounting
<1>5. /\ s \in Nat /\ u + 1 \in Nat
      /\ s >= D => Divided(m, D, count + 1, s - D, u + 1)
      /\ ~(s >= D) => Divided(m, D, count + 1, s, u)
  BY <1>1, <1>3, DividedStep, Zenon
<1>6. XLEN \in Nat /\ XLEN > 0 /\ 2^XLEN \in Nat \ {0}
  BY WidthAssumption, Widths
<1>7. u \in Nat /\ D \in Nat
  BY <1>1, <1>3, <1>6 DEF Word
<1> HIDE DEF a, b, m, s, u
<1>8. Divided(m, D, count + 1, r, q) /\ r \in Nat /\ q \in Nat
  <2>1. CASE s >= D
    <3>1. r = s - D /\ q = u + 1 /\ s - D \in Nat
      BY <1>5, <1>7, <2>1
    <3>2. QED
      BY <1>5, <2>1, <3>1, Zenon
  <2>2. CASE ~(s >= D)
    <3>1. r = s /\ q = u
      BY <1>5, <1>7, <2>2
    <3>2. QED
      BY <1>5, <1>7, <2>2, <3>1, Zenon
  <2>3. QED
    BY <2>1, <2>2, Zenon
<1> HIDE DEF r, q
<1>9. r \in Word /\ q \in Word
  BY <1>1, <1>3, <1>8, DividedTypes, Zenon
<1>10. CASE last
  <2>1. busy' = FALSE /\ done' = TRUE /\ count' = 0
    <3>1. count + 1 = 1 * XLEN + 0 /\ 0 \in 0 .. XLEN - 1 /\ XLEN \in Nat \ {0}
      BY <1>1, <1>6, <1>10
    <3>2. (count + 1) % XLEN = 0
      BY <1>1, <3>1, RemainderOf
    <3>3. QED
      BY <1>4, <1>10, <3>2, Zenon
  <2>2. q = m \div D /\ r = m % D
    <3>1. count + 1 = XLEN
      BY <1>6, <1>10
    <3>2. Divided(m, D, XLEN, r, q)
      BY <1>8, <3>1, Zenon
    <3>3. QED
      BY <1>3, <1>8, <3>2, DividedEnd, Zenon
  <2>3. /\ quotient' = TrueQ(Value(op.signed, a, XLEN), Value(op.signed, b, XLEN)) % 2^XLEN
        /\ remainder' = TrueR(Value(op.signed, a, XLEN), Value(op.signed, b, XLEN)) % 2^XLEN
    <3>1. quotient' = Negate(neg_quotient, q) /\ remainder' = Negate(neg_remainder, r)
      BY <1>4, <1>10, Zenon
    <3>2. QED
      BY <1>1, <1>2, <2>2, <3>1, UnitDivides DEF m
  <2>4. DivResult(quotient') = RefResult.q /\ DivResult(remainder') = RefResult.r
    BY <1>2, <2>3, Result, Zenon DEF a, b
  <2>5. quotient' \in Word /\ remainder' \in Word
    BY <1>4, <1>9, <1>10, NegateTypes, Zenon
  <2>6. TypeOK'
    BY <1>4, <1>6, <1>9, <2>1, <2>5 DEF IInv, TypeOK
  <2>7. DoneCorrect'
    BY <2>4, Zenon DEF DoneCorrect, DivResult, RefResult
  <2>8. QED
    BY <1>1, <2>1, <2>6, <2>7, Zenon DEF IInv, isDivRem
<1>11. CASE ~last
  <2>1. busy' = TRUE /\ done' = FALSE /\ count' = count + 1 /\ count' \in 0 .. XLEN - 1
    <3>1. count + 1 \in 0 .. XLEN - 1 /\ XLEN \in Nat \ {0}
      BY <1>1, <1>6, <1>11
    <3>2. (count + 1) % XLEN = count + 1
      BY <3>1, NearRemainder, Zenon
    <3>3. QED
      BY <1>4, <1>11, <3>1, <3>2, Zenon
  <2>2. TypeOK'
    BY <1>4, <1>9, <1>11, <2>1, Zenon DEF IInv, TypeOK
  <2>3. Divided(m, D', count', R', Q')
    BY <1>4, <1>8, <2>1, Zenon
  <2>4. a = DivIn(op.a)' /\ b = DivIn(op.b)' /\ isDivRem'
    BY <1>1, Zenon DEF DivIn, isDivRem, a, b
  <2>5. /\ b # 0 /\ D' = Abs(op'.signed, b)
        /\ neg_quotient' = (op'.signed /\ TopBit(a, XLEN) # TopBit(b, XLEN))
        /\ neg_remainder' = (op'.signed /\ TopBit(a, XLEN) = 1)
        /\ Divided(Abs(op'.signed, a), D', count', R', Q')
    BY <1>1, <1>4, <2>3, Zenon DEF m
  <2>6. QED
    BY <2>1, <2>2, <2>4, <2>5, Zenon
       DEF IInv, DoneCorrect, Divided, Abs, TopBit, Neg, Word
<1>12. QED
  BY <1>10, <1>11, Zenon

\* An edge on which the unit rests: an answer that the held EX stage did not
\* take is lost, but then the operands are still there.
LEMMA Rests ==
    ASSUME IInv, DivIdle, NEW hold \in BOOLEAN, Ex(hold), hold => ~moved
    PROVE  IInv'
<1>1. ~busy' /\ ~done' /\ (done => ~div_stall) /\ (~isDivRem => ~div_stall /\ ~moved)
  BY Zenon DEF DivIdle, IInv, div_stall
<1>2. ~div_stall /\ moved \in BOOLEAN
  BY <1>1, Zenon DEF DivIdle, IInv, TypeOK
<1>3. moved' = FALSE /\ op' \in Op \union {NoOp}
  BY <1>1, <1>2, Zenon DEF Ex, IInv, TypeOK, DivIdle
<1>4. TypeOK'
  BY <1>3, Zenon DEF IInv, TypeOK, DivIdle
<1>5. QED
  BY <1>1, <1>3, <1>4, Zenon DEF IInv, DoneCorrect

\* Every clock edge keeps the invariant.
LEMMA IStep ==
    ASSUME IInv, NEW hold \in BOOLEAN, Edge(hold), hold => ~moved
    PROVE  IInv'
<1>1. Ex(hold) /\ DividerEdge
  BY Zenon DEF Edge
<1>2. CASE DivIdle
  BY <1>1, <1>2, Rests, Zenon
<1>3. CASE DivStep
  <2>1. busy /\ div_stall
    BY <1>3, Zenon DEF DivStep, DivStepCounting, div_stall, IInv, TypeOK
  <2>2. QED
    BY <1>1, <1>3, <2>1, Stalled, StepDivides, Zenon
<1>4. CASE DivStart
  <2> DEFINE a == DivIn(op.a)
             b == DivIn(op.b)
  <2>1. isDivRem /\ ~busy /\ ~done /\ div_stall /\ ~moved
    BY <1>4, Zenon DEF DivStart, div_stall, IInv
  <2>2. op' = op /\ moved' \in BOOLEAN
    BY <1>1, <2>1, Stalled, Zenon
  <2>3. Accept(a, b)
    BY <1>4, <2>1, Zenon DEF DivStart, Presented
  <2>4. op.signed \in BOOLEAN /\ a \in Word /\ b \in Word
    BY <2>1, Operands, Zenon
  <2>5. 2^XLEN - 1 \in Word /\ 0 \in Word
    BY Widths DEF Word
  <2>6. CASE b = 0
    <3>1. /\ quotient' = 2^XLEN - 1 /\ remainder' = a /\ done' = TRUE
          /\ UNCHANGED <<busy, count, R, Q, D, neg_quotient, neg_remainder>>
      BY <2>3, <2>6, Zenon DEF Accept
    <3>2. /\ quotient' = TrueQ(Value(op.signed, a, XLEN), Value(op.signed, b, XLEN)) % 2^XLEN
          /\ remainder' = TrueR(Value(op.signed, a, XLEN), Value(op.signed, b, XLEN)) % 2^XLEN
      BY <2>4, <2>6, <3>1, UnitZero, Zenon
    <3>3. QED
      BY <2>1, <2>2, <2>4, <2>5, <3>1, <3>2, StartAnswers, Zenon
  <2>7. CASE b # 0 /\ op.signed /\ a = 2^(XLEN - 1) /\ b = 2^XLEN - 1
    <3>1. /\ quotient' = a /\ remainder' = 0 /\ done' = TRUE
          /\ UNCHANGED <<busy, count, R, Q, D, neg_quotient, neg_remainder>>
      BY <2>3, <2>7, Zenon DEF Accept
    <3>2. /\ quotient' = TrueQ(Value(op.signed, a, XLEN), Value(op.signed, b, XLEN)) % 2^XLEN
          /\ remainder' = TrueR(Value(op.signed, a, XLEN), Value(op.signed, b, XLEN)) % 2^XLEN
      <4>1. op.signed = TRUE
        BY <2>4, <2>7, Zenon
      <4>2. QED
        BY <2>4, <2>7, <3>1, <4>1, UnitOverflow, Zenon
    <3>3. QED
      BY <2>1, <2>2, <2>4, <2>5, <3>1, <3>2, StartAnswers, Zenon
  <2>8. CASE b # 0 /\ ~(op.signed /\ a = 2^(XLEN - 1) /\ b = 2^XLEN - 1)
    <3>1. /\ R' = 0 /\ Q' = Abs(op.signed, a) /\ D' = Abs(op.signed, b)
          /\ neg_quotient' = (op.signed /\ TopBit(a, XLEN) # TopBit(b, XLEN))
          /\ neg_remainder' = (op.signed /\ TopBit(a, XLEN) = 1)
          /\ count' = 0 /\ busy' = TRUE /\ done' = FALSE
          /\ UNCHANGED <<quotient, remainder>>
      BY <2>3, <2>8, Zenon DEF Accept
    <3>2. QED
      BY <2>1, <2>2, <2>8, <3>1, StartDivides, Zenon
  <2>9. QED
    BY <2>6, <2>7, <2>8, Zenon
<1>5. QED
  BY <1>1, <1>2, <1>3, <1>4, Zenon DEF DividerEdge

\* The invariant holds from reset on.
THEOREM Invariant == Spec => []IInv
<1>1. Init => IInv
  <2>1. 0 \in Word /\ 0 \in 0 .. XLEN - 1
    BY Widths, WidthAssumption DEF Word
  <2>2. QED
    BY <2>1, Zenon DEF Init, IInv, TypeOK, DoneCorrect
<1>2. IInv /\ [Next]_vars => IInv'
  <2>1. CASE HeldEdge
    BY <2>1, IStep, Zenon DEF HeldEdge
  <2>2. CASE FreeEdge
    BY <2>2, IStep, Zenon DEF FreeEdge
  <2>3. ASSUME IInv, UNCHANGED vars PROVE IInv'
    BY <2>3, Zenon
       DEF vars, divVars, IInv, TypeOK, DoneCorrect, DivIn, isDivRem, Divided,
                DivResult, RefResult
  <2>4. QED
    BY <2>1, <2>2, <2>3, Zenon DEF Next
<1>3. QED
  BY <1>1, <1>2, PTL DEF Spec

\* Every register of Divider.v keeps its width, and it is never busy and done.
THEOREM TypeCorrect == Spec => []TypeOK
<1>1. IInv => TypeOK
  BY Zenon DEF IInv
<1>2. QED
  BY <1>1, Invariant, PTL

\* Whenever Divider.v pulses done, its outputs are what iss.py computes for
\* the operands the divide in EX came with: for every width, all operations
\* and word forms, zero and overflowing divisors, and however long MEM held
\* the divide and however often its answer was lost and computed again.
THEOREM DividesRight == Spec => []DoneCorrect
<1>1. IInv => DoneCorrect
  BY Zenon DEF IInv
<1>2. QED
  BY <1>1, Invariant, PTL

===============================================================================
