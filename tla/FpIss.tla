-------------------------------- MODULE FpIss --------------------------------
(***************************************************************************)
(* The floating-point half of the golden model (sim/tools/iss.py): every   *)
(* operation computes an exact rational and rounds it once.  A rational    *)
(* (Python's Fraction) is num / den * 2^k, with den > 0.                   *)
(***************************************************************************)
EXTENDS FpFormat

Frac(n, d, e) == [num |-> n, den |-> d, k |-> e]
Pow2(e) == Frac(1, 1, e)
Times(x, y) == Frac(x.num * y.num, x.den * y.den, x.k + y.k)
Over(x, y) == Frac(x.num * y.den, x.den * y.num, x.k - y.k)
Minus(x) == [x EXCEPT !.num = -@]
Least(m, n) == IF m <= n THEN m ELSE n
\* The numerator of x over den 2^-e, for e no larger than x.k.
Scaled(x, den, e) == x.num * den * 2^(x.k - e)
Plus(x, y) == LET e == Least(x.k, y.k)
              IN  Frac(Scaled(x, y.den, e) + Scaled(y, x.den, e), x.den * y.den, e)
Lt(x, y) == LET e == Least(x.k, y.k)
            IN  Scaled(x, y.den, e) < Scaled(y, x.den, e)

\* f32_decode's magnitude; zero for a subnormal, unused for inf and nan.
Magnitude(x) == IF x.exp = 0 THEN Frac(0, 1, 0)
                ELSE Frac(2^MB + x.frac, 1, x.exp - Bias - MB)

\* floor(x), for x >= 0.
Floor(x) == IF x.k >= 0 THEN (x.num * 2^x.k) \div x.den
            ELSE x.num \div (x.den * 2^(-x.k))

Signed(s, m) == IF s = 0 THEN m ELSE Minus(m)

\* How the part below the last kept bit compares with a half.
Classify(floor, v) ==
  LET half == Frac(2 * floor + 1, 1, -1)
  IN  IF ~Lt(Frac(floor, 1, 0), v) THEN "exact"
      ELSE IF Lt(v, half) THEN "below"
      ELSE IF Lt(half, v) THEN "above" ELSE "tie"

\* Mutant: a tie always rounds up.
RoundUp_TieAway(cls, floor, sign, rm) ==
  /\ cls # "exact"
  /\ CASE rm = "RTZ" -> FALSE
       [] rm = "RDN" -> sign = 1
       [] rm = "RUP" -> sign = 0
       [] OTHER      -> cls # "below"

RoundUp(cls, floor, sign, rm) ==
  /\ cls # "exact"
  /\ CASE rm = "RTZ" -> FALSE
       [] rm = "RDN" -> sign = 1
       [] rm = "RUP" -> sign = 0
       [] rm = "RMM" -> cls # "below"
       [] OTHER      -> cls = "above" \/ (cls = "tie" /\ floor % 2 = 1)

PackRounded(sign, e0, floor, cls, rm) ==
  LET sig0  == floor + (IF RoundUp(cls, floor, sign, rm) THEN 1 ELSE 0)
      carry == sig0 = 2^(MB + 1)
      sig   == IF carry THEN sig0 \div 2 ELSE sig0
      e     == IF carry THEN e0 + 1 ELSE e0
      toMax == \/ rm = "RTZ"
               \/ rm = "RDN" /\ sign = 0
               \/ rm = "RUP" /\ sign = 1
  IN  CASE e > EMAX -> Out(IF toMax THEN PackMax(sign) ELSE PackInf(sign),
                           {"OF", "NX"})
        [] e < EMIN -> Out(PackZero(sign), {"UF", "NX"})
        [] OTHER    -> Out(Pack(sign, e + Bias, sig % 2^MB),
                           Flag("NX", cls # "exact"))

\* Every number the model meets has fewer than MAXBITS bits.
MAXBITS == 30
BitLength(n) == CHOOSE k \in 1 .. MAXBITS : 2^(k - 1) <= n /\ n < 2^k

RoundFromFraction(sign, m, rm) ==
  LET e0  == BitLength(m.num) - BitLength(m.den) - 1 + m.k
      e   == CHOOSE x \in {e0, e0 + 1} : ~Lt(m, Pow2(x)) /\ Lt(m, Pow2(x + 1))
      sig == Times(m, Pow2(MB - e))
      floor == Floor(sig)
  IN  PackRounded(sign, e, floor, Classify(floor, sig), rm)

\* math.isqrt
Isqrt(n) == CHOOSE r \in 0 .. 2^(MB + 2) : r * r <= n /\ n < (r + 1) * (r + 1)

RoundFromSqrt(sign, m, rm) ==
  LET e   == CHOOSE x \in EMIN .. EMAX : ~Lt(m, Pow2(2 * x)) /\ Lt(m, Pow2(2 * (x + 1)))
      v   == Times(m, Pow2(2 * (MB - e)))
      n   == Floor(v)
      root == Isqrt(n)
      mid  == (2 * root + 1) * (2 * root + 1)
      cls  == IF root * root = n THEN "exact"
              ELSE IF 4 * n < mid THEN "below"
              ELSE IF 4 * n > mid THEN "above" ELSE "tie"
  IN  PackRounded(sign, e, root, cls, rm)

\* An exact sum, rounded; x + (-x) is +0 except towards minus infinity.
RoundSum(total, rm) ==
  IF total.num = 0 THEN Out(PackZero(IF rm = "RDN" THEN 1 ELSE 0), {})
  ELSE IF total.num < 0 THEN RoundFromFraction(1, Minus(total), rm)
       ELSE RoundFromFraction(0, total, rm)

ZeroSum(s, t, rm) ==
  Out(PackZero(IF s = t THEN s ELSE IF rm = "RDN" THEN 1 ELSE 0), {})

f_add(a, b, rm, is_sub) ==
  LET sb == Xor(b.sign, IF is_sub THEN 1 ELSE 0)
  IN  IF IsNan(a) \/ IsNan(b) THEN NanOut(IsSnan(a) \/ IsSnan(b))
      ELSE IF IsInf(a) /\ IsInf(b) /\ a.sign # sb THEN NanOut(TRUE)
      ELSE IF IsInf(a) THEN Out(PackInf(a.sign), {})
      ELSE IF IsInf(b) THEN Out(PackInf(sb), {})
      ELSE IF IsZeroArith(a) /\ IsZeroArith(b) THEN ZeroSum(a.sign, sb, rm)
      ELSE IF IsZeroArith(a) THEN Out([b EXCEPT !.sign = sb], {})
      ELSE IF IsZeroArith(b) THEN Out(a, {})
      ELSE RoundSum(Plus(Signed(a.sign, Magnitude(a)),
                         Signed(sb, Magnitude(b))), rm)

f_mul(a, b, rm) ==
  LET s == Xor(a.sign, b.sign)
  IN  IF IsNan(a) \/ IsNan(b) THEN NanOut(IsSnan(a) \/ IsSnan(b))
      ELSE IF (IsInf(a) /\ IsZeroArith(b)) \/ (IsZeroArith(a) /\ IsInf(b)) THEN NanOut(TRUE)
      ELSE IF IsInf(a) \/ IsInf(b) THEN Out(PackInf(s), {})
      ELSE IF IsZeroArith(a) \/ IsZeroArith(b) THEN Out(PackZero(s), {})
      ELSE RoundFromFraction(s, Times(Magnitude(a), Magnitude(b)), rm)

f_div(a, b, rm) ==
  LET s == Xor(a.sign, b.sign)
  IN  IF IsNan(a) \/ IsNan(b) THEN NanOut(IsSnan(a) \/ IsSnan(b))
      ELSE IF (IsInf(a) /\ IsInf(b)) \/ (IsZeroArith(a) /\ IsZeroArith(b)) THEN NanOut(TRUE)
      ELSE IF IsInf(a) THEN Out(PackInf(s), {})
      ELSE IF IsInf(b) THEN Out(PackZero(s), {})
      ELSE IF IsZeroArith(b) THEN Out(PackInf(s), {"DZ"})
      ELSE IF IsZeroArith(a) THEN Out(PackZero(s), {})
      ELSE RoundFromFraction(s, Over(Magnitude(a), Magnitude(b)), rm)

f_sqrt(a, rm) ==
  IF IsNan(a) THEN NanOut(IsSnan(a))
  ELSE IF IsZeroArith(a) THEN Out(a, {})
  ELSE IF a.sign = 1 THEN NanOut(TRUE)
  ELSE IF IsInf(a) THEN Out(a, {})
  ELSE RoundFromSqrt(0, Magnitude(a), rm)

f_madd(a, b, c, rm, neg_prod, neg_addend) ==
  LET sp == Xor(Xor(a.sign, b.sign), IF neg_prod THEN 1 ELSE 0)
      sc == Xor(c.sign, IF neg_addend THEN 1 ELSE 0)
      prod_inf == IsInf(a) \/ IsInf(b)
      prod_zero == IsZeroArith(a) \/ IsZeroArith(b)
  IN  IF IsNan(a) \/ IsNan(b) \/ IsNan(c)
      THEN NanOut(IsSnan(a) \/ IsSnan(b) \/ IsSnan(c))
      ELSE IF prod_inf /\ prod_zero THEN NanOut(TRUE)
      ELSE IF prod_inf /\ IsInf(c) /\ sp # sc THEN NanOut(TRUE)
      ELSE IF prod_inf THEN Out(PackInf(sp), {})
      ELSE IF IsInf(c) THEN Out(PackInf(sc), {})
      ELSE IF prod_zero /\ IsZeroArith(c) THEN ZeroSum(sp, sc, rm)
      ELSE IF prod_zero THEN Out([c EXCEPT !.sign = sc], {})
      ELSE RoundSum(Plus(Signed(sp, Times(Magnitude(a), Magnitude(b))),
                         Signed(sc, Magnitude(c))), rm)

f_sgnj(a, b, f3) ==
  Out([a EXCEPT !.sign = CASE f3 = 0 -> b.sign
                           [] f3 = 1 -> 1 - b.sign
                           [] OTHER  -> Xor(a.sign, b.sign)], {})

\* a < b by sign and magnitude; two zeros of either sign are the caller's.
BitsLt(a, b) == CASE a.sign # b.sign -> a.sign = 1
                  [] a.sign = 1      -> Low(a) > Low(b)
                  [] OTHER           -> Low(a) < Low(b)

f_minmax(a, b, f3) ==
  LET both_zero == IsZeroArith(a) /\ IsZeroArith(b)
      lt == IF both_zero THEN a.sign = 1 /\ b.sign = 0 ELSE BitsLt(a, b)
  IN  IF IsNan(a) /\ IsNan(b) THEN NanOut(IsSnan(a) \/ IsSnan(b))
      ELSE IF IsNan(a) THEN Out(b, Flag("NV", IsSnan(a)))
      ELSE IF IsNan(b) THEN Out(a, Flag("NV", IsSnan(b)))
      ELSE Out(IF (f3 = 0) = lt THEN a ELSE b, {})

f_cmp(a, b, f3) ==
  LET both_zero == IsZeroArith(a) /\ IsZeroArith(b)
      eq == both_zero \/ a = b
      lt == ~both_zero /\ BitsLt(a, b)
      res == CASE f3 = 2 -> eq [] f3 = 1 -> lt [] OTHER -> lt \/ eq
  IN  IF IsNan(a) \/ IsNan(b)
      THEN Out(0, Flag("NV", f3 # 2 \/ IsSnan(a) \/ IsSnan(b)))
      ELSE Out(IF res THEN 1 ELSE 0, {})

\* The bit fclass.s sets.
f_class(a) ==
  CASE IsInf(a)                      -> IF a.sign = 1 THEN 0 ELSE 7
    [] IsSnan(a)                     -> 8
    [] IsNan(a) /\ ~IsSnan(a)        -> 9
    [] a.exp = 0 /\ a.frac = 0       -> IF a.sign = 1 THEN 3 ELSE 4
    [] a.exp = 0 /\ a.frac # 0       -> IF a.sign = 1 THEN 2 ELSE 5
    [] OTHER                         -> IF a.sign = 1 THEN 1 ELSE 6

f_cvt_to_int(a, rm, unsigned) ==
  LET m == Magnitude(a)
      floor == Floor(m)
      cls == Classify(floor, m)
      mag == floor + (IF RoundUp(cls, floor, a.sign, rm) THEN 1 ELSE 0)
      out_of_range == \/ unsigned /\ ((a.sign = 1 /\ mag # 0) \/ mag > IntMax(TRUE))
                      \/ ~unsigned /\ mag > IntMax(FALSE) + a.sign
  IN  IF IsNan(a) THEN Out(IntMax(unsigned), {"NV"})
      ELSE IF IsZeroArith(a) THEN Out(0, {})
      ELSE IF IsInf(a) THEN Out(Saturated(unsigned, a.sign), {"NV"})
      ELSE IF out_of_range THEN Out(Saturated(unsigned, a.sign), {"NV"})
      ELSE Out((IF a.sign = 0 THEN mag ELSE -mag) % 2^IB,
               Flag("NX", cls # "exact"))

f_cvt_from_int(n, rm, unsigned) ==
  LET neg == ~unsigned /\ n >= 2^(IB - 1)
      mag == IF neg THEN 2^IB - n ELSE n
  IN  IF n = 0 THEN Out(PackZero(0), {})
      ELSE RoundFromFraction(IF neg THEN 1 ELSE 0, Frac(mag, 1, 0), rm)

=============================================================================
