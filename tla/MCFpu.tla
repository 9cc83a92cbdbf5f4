------------------------------- MODULE MCFpu -------------------------------
(***************************************************************************)
(* The floating-point units next to the golden model's arithmetic, and     *)
(* both next to a definition of correct rounding.                          *)
(***************************************************************************)
EXTENDS Fpu, FpIss

(***************************************************************************)
(* The instance.  The first operand ranges over every fraction at the      *)
(* exponents of Wide, the second over Second; Follow holds one division    *)
(* and one root per way a unit can finish.  Addends are the third operands *)
(* of the fused operations, whose sign the operation itself turns.         *)
(***************************************************************************)
Wide == {0, 1, 2, Bias - 1, Bias, Bias + 1, Bias + 3, ExpMax - 1, ExpMax}
Near == {0, 1, Bias - 1, Bias, ExpMax - 1, ExpMax}
Operand == {x \in Float : x.exp \in Wide}
Second == [sign : {0}, exp : Near, frac : {0, 1, 2^(MB - 1), 2^MB - 1}]
            \union {PackZero(1), PackInf(1), Pack(1, Bias, 1)}
Addends == {Pack(0, 0, 1), Pack(0, 1, 1), Pack(0, Bias, 2^MB - 1), Pack(0, ExpMax - 1, 0),
            PackInf(0), CANONICAL_NAN}

I(u, a, b, rm) == [unit |-> u, a |-> a, b |-> b, rm |-> rm]
One == Pack(0, Bias, 0)
AllFirst ==
  {I("falu", a, b, "RNE") : a \in Operand, b \in Second}
    \union {I("fdiv", a, b, rm) : a \in {x \in Operand : x.sign = 0}, b \in Second, rm \in Rm}
    \union {I("fsqrt", a, One, rm) : a \in Float, rm \in Rm}
SomeFollow ==
  {NoOp, I("fsqrt", PackInf(1), One, "RNE"), I("fsqrt", Pack(0, Bias, 1), One, "RUP")}
    \union {I("fdiv", One, b, "RNE") : b \in {PackZero(0), One, Pack(0, Bias, 3), CANONICAL_NAN}}

-----------------------------------------------------------------------------
(***************************************************************************)
(* The reference.  Results are compared by the position Low(r) of their    *)
(* encoding: 0 (all that is flushed), the normals, infinity.  Val(k) is    *)
(* the number at position k when the exponent is unbounded, Mid(k) the     *)
(* point half-way to the next one.  Leq(x) and Eq(x) tell whether x is at  *)
(* most, or equal to, the magnitude of the exact result.                   *)
(***************************************************************************)
InfAt == ExpMax * 2^MB
MinAt == 2^MB
Significand(k) == IF k = 0 THEN 2^(MB + 1) - 1 ELSE 2^MB + (k % 2^MB)
Exponent(k) == IF k = 0 THEN EMIN - 1 ELSE (k \div 2^MB) - Bias
Succ(k) == IF k = 0 THEN MinAt ELSE k + 1
Pred(k) == IF k = MinAt THEN 0 ELSE k - 1
Val(k) == Frac(Significand(k), 1, Exponent(k) - MB)
Mid(k) == Frac(2 * Significand(k) + 1, 1, Exponent(k) - MB - 1)

CorrectlyRounded(sign, rm, out, Leq(_), Eq(_)) ==
  LET k == Low(out.value)
      down == \/ rm = "RTZ"
              \/ rm = "RDN" /\ sign = 0
              \/ rm = "RUP" /\ sign = 1
      up   == rm \in {"RDN", "RUP"} /\ ~down
      even == Significand(k) % 2 = 0
      over == Leq(Val(InfAt))
  IN  /\ out.value.sign = sign
      /\ CASE down -> /\ k < InfAt
                      /\ k = 0 \/ Leq(Val(k))
                      /\ k = InfAt - 1 \/ ~Leq(Val(k + (IF k = 0 THEN MinAt ELSE 1)))
           [] up   -> /\ k = InfAt \/ ~Leq(Val(k)) \/ Eq(Val(k))
                      /\ k = 0 \/ (Leq(Val(Pred(k))) /\ ~Eq(Val(Pred(k))))
           [] OTHER -> /\ k = 0 \/ (/\ Leq(Mid(Pred(k)))
                                    /\ Eq(Mid(Pred(k))) => even \/ rm = "RMM")
                       /\ k = InfAt \/ ~Leq(Mid(k)) \/ (Eq(Mid(k)) /\ even /\ rm # "RMM")
      /\ ("OF" \in out.flags) = (k = InfAt \/ over)
      /\ ("UF" \in out.flags) = (k = 0)
      /\ ("NX" \in out.flags) = (k \in {0, InfAt} \/ ~Eq(Val(k)))

\* A result that is an exact nonzero number m of the given sign.
Rounds(sign, m, rm, out) ==
  CorrectlyRounded(sign, rm, out, LAMBDA x : ~Lt(m, x),
                   LAMBDA x : ~Lt(m, x) /\ ~Lt(x, m))

RoundsSum(total, rm, out) ==
  IF total.num < 0 THEN Rounds(1, Minus(total), rm, out)
  ELSE total.num = 0 \/ Rounds(0, total, rm, out)

RoundsRoot(m, rm, out) ==
  CorrectlyRounded(0, rm, out, LAMBDA x : ~Lt(m, Times(x, x)),
                   LAMBDA x : ~Lt(m, Times(x, x)) /\ ~Lt(Times(x, x), m))

Normal(x) == x.exp \in 1 .. (ExpMax - 1)

\* The golden model rounds correctly: every result of its add, multiply,
\* divide, square root and fused multiply-add on normal operands is the
\* neighbour of the exact value that the rounding mode asks for, and OF, UF
\* and NX say how the exact value was lost (iss.py rounds exact fractions;
\* the core's tests are compared with it and with nothing else).
IssRoundsCorrectly ==
  LET a == ex.a
      b == ex.b
      A == Signed(a.sign, Magnitude(a))
      B == Signed(b.sign, Magnitude(b))
      s == Xor(a.sign, b.sign)
  IN  /\ ex.unit = "falu" /\ Normal(a) /\ Normal(b) =>
           \A rm \in Rm :
             /\ RoundsSum(Plus(A, B), rm, f_add(a, b, rm, FALSE))
             /\ Rounds(s, Times(Magnitude(a), Magnitude(b)), rm, f_mul(a, b, rm))
             /\ Rounds(s, Over(Magnitude(a), Magnitude(b)), rm, f_div(a, b, rm))
             /\ \A c \in {x \in Addends : Normal(x)} :
                  RoundsSum(Plus(Times(A, B), Minus(Magnitude(c))), rm,
                            f_madd(a, b, c, rm, FALSE, TRUE))
      /\ ex.unit = "fsqrt" /\ Normal(a) /\ a.sign = 0 =>
           RoundsRoot(Magnitude(a), ex.rm, f_sqrt(a, ex.rm))

\* The same value and flags, except that the units report an exact result
\* that was flushed as UF alone (see TinyRaisesInexact).
Agree(rtl, iss) ==
  /\ rtl.value = iss.value
  /\ \/ rtl.flags = iss.flags
     \/ "UF" \in rtl.flags /\ rtl.flags \union {"NX"} = iss.flags

\* Whatever combinational operation is in EX, FALU.v and FMADDUnit.v give
\* the value and the flags iss.py gives, in every rounding mode, for NaNs,
\* infinities, signed zeros, flushed subnormals and saturated conversions
\* too: two independently written datapaths, one of bits shifted with a
\* sticky tail, one of exact fractions.
CombinationalMatchesIss ==
  ex.unit = "falu" =>
    LET a == ex.a
        b == ex.b
        n == (Low(a) + a.sign * 2^(EB + MB)) % 2^IB
    IN  /\ FCLASS(a) = f_class(a)
        /\ \A f3 \in 0 .. 2 : FSGNJ(a, b, f3) = f_sgnj(a, b, f3) /\ FCMP(a, b, f3) = f_cmp(a, b, f3)
        /\ \A f3 \in 0 .. 1 : FMINMAX(a, b, f3) = f_minmax(a, b, f3)
        /\ \A rm \in Rm :
             /\ Agree(FMUL(a, b, rm), f_mul(a, b, rm))
             /\ \A neg \in BOOLEAN :
                  /\ Agree(FADD(a, b, rm, neg), f_add(a, b, rm, neg))
                  /\ FCVT_W_S(a, rm, neg) = f_cvt_to_int(a, rm, neg)
                  /\ FCVT_S_W(n, rm, neg) = f_cvt_from_int(n, rm, neg)
                  /\ \A c \in Addends :
                       Agree(FMADD(a, b, c, rm, neg, FALSE), f_madd(a, b, c, rm, neg, FALSE))

\* When FDivider.v or FSqrt.v raises done for the instruction in EX, its
\* result and flags are those iss.py computes from the operands that
\* instruction had when it entered EX: an older access may have held it past
\* a done, and an earlier operation may have left flags behind.
IterativeMatchesIss ==
  /\ ex.unit = "fdiv" /\ fdiv.done =>
       Agree(Out(fdiv.result, fdiv.flags), f_div(ex.a, ex.b, ex.rm))
  /\ ex.unit = "fsqrt" /\ fsqrt.done =>
       Agree(Out(fsqrt.result, fsqrt.flags), f_sqrt(ex.a, ex.rm))

\* fp_stall never keeps the pipeline for good: the divider or the square
\* root in EX completes, whatever it was given and however often MEM holds.
StallReleased == fp_stall ~> ~fp_stall

\* FALU.v's header on results below the smallest normal: "flushed to a
\* correctly-signed zero, with UF+NX set".
TinyRaisesInexact ==
  ex.unit = "falu" /\ Normal(ex.a) /\ Normal(ex.b) =>
    LET out == FMUL(ex.a, ex.b, "RNE")
    IN  "UF" \in out.flags => "NX" \in out.flags

=============================================================================
