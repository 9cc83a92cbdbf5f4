--------------------------------- MODULE Fpu ---------------------------------
(***************************************************************************)
(* The floating-point units of the core as they sit in EX: the             *)
(* combinational FALU.v and FMADDUnit.v, the iterative FDivider.v and      *)
(* FSqrt.v, the rounding they share (fp_round.vh) and the fp_stall         *)
(* interlock of riscvpipeline.v.  One step is one clock edge.              *)
(*                                                                         *)
(* Vectors of bits are naturals.  A unit's working registers are kept only *)
(* while it is busy and its result only while done is up: nothing reads    *)
(* them otherwise (zeros and NoResult stand for the stale contents).       *)
(* flags keep their old value, as the registers do.                        *)
(***************************************************************************)
EXTENDS FpFormat, FiniteSets

CONSTANTS FRAME,    \* FMADDUnit.v's alignment frame, 112 bits in the code
          First,    \* the instructions that may be in EX first ...
          Follow    \* ... and after that

ASSUME FrameAssumption == FRAME \in Nat /\ FRAME >= 3 * (MB + 1) + 3

Bit(x, i) == (x \div 2^i) % 2 = 1
Bits(x, hi, lo) == (x \div 2^lo) % 2^(hi - lo + 1)
Mant(x) == 2^MB + x.frac
Unbiased(x) == x.exp - Bias
\* How far a nonzero x must go left for its leading one to be at bit top.
LeadShift(x, top) == CHOOSE k \in 0 .. top : 2^(top - k) <= x /\ x < 2^(top - k + 1)

(***************************************************************************)
(* fp_round.vh.  sig has MB + 2 bits: carry, implicit one, fraction.       *)
(***************************************************************************)
RoundUpBit(g, r, st, odd, sign, rm) ==
  CASE rm = "RTZ" -> FALSE
    [] rm = "RDN" -> sign = 1 /\ (g \/ r \/ st)
    [] rm = "RUP" -> sign = 0 /\ (g \/ r \/ st)
    [] rm = "RMM" -> g
    [] OTHER      -> g /\ (r \/ st \/ odd)

\* Guard, round and sticky once the carry has been shifted out.
Carried(sig, g, r, st) == [g |-> sig % 2 = 1, r |-> g, st |-> st \/ r]

round_and_pack(sign, e0, sig0, g0, r0, st0, rm) ==
  LET carry == Bit(sig0, MB + 1)
      x  == IF carry THEN Carried(sig0, g0, r0, st0)
            ELSE [g |-> g0, r |-> r0, st |-> st0]
      s1 == IF carry THEN sig0 \div 2 ELSE sig0
      e1 == IF carry THEN e0 + 1 ELSE e0
      nx == x.g \/ x.r \/ x.st
      s2 == s1 + (IF RoundUpBit(x.g, x.r, x.st, s1 % 2 = 1, sign, rm) THEN 1 ELSE 0)
      carry2 == Bit(s2, MB + 1)
      s  == IF carry2 THEN s2 \div 2 ELSE s2
      e  == IF carry2 THEN e1 + 1 ELSE e1
      toMax == \/ rm = "RTZ"
               \/ rm = "RDN" /\ sign = 0
               \/ rm = "RUP" /\ sign = 1
      zero == s % 2^(MB + 1) = 0
  IN  IF e > EMAX THEN Out(IF toMax THEN PackMax(sign) ELSE PackInf(sign), {"OF", "NX"})
      ELSE IF e < EMIN \/ zero
           THEN Out(PackZero(sign),
                    Flag("UF", e < EMIN /\ ~zero) \union Flag("NX", nx))
           ELSE Out(Pack(sign, e + Bias, s % 2^MB), Flag("NX", nx))

\* Mutant: the bits shifted out are lost instead of sticking.
ShiftSticky_Lossy(sig, amt, width) ==
  IF amt <= 0 THEN sig ELSE IF amt >= width THEN 0 ELSE sig \div 2^amt

\* shift_right_sticky and wide_shift_right_sticky.
ShiftSticky(sig, amt, width) ==
  IF amt <= 0 THEN sig
  ELSE IF amt >= width THEN (IF sig # 0 THEN 1 ELSE 0)
  ELSE LET shifted == sig \div 2^amt
       IN  IF sig % 2^amt # 0 /\ shifted % 2 = 0 THEN shifted + 1 ELSE shifted

-----------------------------------------------------------------------------
(***************************************************************************)
(* FALU.v                                                                  *)
(***************************************************************************)
ZeroSumRtl(s, t, rm) ==
  Out(PackZero(IF s = t THEN s ELSE IF rm = "RDN" THEN 1 ELSE 0), {})

\* The MB + 5 bit sum of the aligned significands, normalised and rounded.
AddAligned(a, b, sb, rm) ==
  LET swap == IF a.exp = b.exp THEN Mant(b) > Mant(a) ELSE b.exp > a.exp
      big  == IF swap THEN b ELSE a
      small == IF swap THEN a ELSE b
      al   == ShiftSticky(Mant(small) * 8, big.exp - small.exp, MB + 4)
      sum  == IF a.sign = sb THEN Mant(big) * 8 + al ELSE Mant(big) * 8 - al
      shl  == IF sum >= 2^(MB + 3) THEN 0 ELSE LeadShift(sum, MB + 3)
      n    == sum * 2^shl
  IN  IF sum = 0 THEN Out(PackZero(IF rm = "RDN" THEN 1 ELSE 0), {})
      ELSE round_and_pack(IF swap THEN sb ELSE a.sign, Unbiased(big) - shl,
                          Bits(n, MB + 4, 3), Bit(n, 2), Bit(n, 1), Bit(n, 0), rm)

FADD(a, b, rm, is_sub) ==
  LET sb == Xor(b.sign, IF is_sub THEN 1 ELSE 0)
  IN  IF IsNan(a) \/ IsNan(b) THEN NanOut(IsSnan(a) \/ IsSnan(b))
      ELSE IF IsInf(a) /\ IsInf(b) /\ a.sign # sb THEN NanOut(TRUE)
      ELSE IF IsInf(a) THEN Out(PackInf(a.sign), {})
      ELSE IF IsInf(b) THEN Out(PackInf(sb), {})
      ELSE IF IsZeroArith(a) /\ IsZeroArith(b) THEN ZeroSumRtl(a.sign, sb, rm)
      ELSE IF IsZeroArith(a) THEN Out([b EXCEPT !.sign = sb], {})
      ELSE IF IsZeroArith(b) THEN Out(a, {})
      ELSE AddAligned(a, b, sb, rm)

\* A product of PW bits with its leading one at the top, cut and rounded.
PW == 2 * MB + 2
RoundProduct(sign, e, p, rm) ==
  round_and_pack(sign, e, Bits(p, PW - 1, MB + 1), Bit(p, MB), Bit(p, MB - 1),
                 p % 2^(MB - 1) # 0, rm)

FMUL(a, b, rm) ==
  LET s == Xor(a.sign, b.sign)
      product == Mant(a) * Mant(b)
      top == Bit(product, PW - 1)
  IN  IF IsNan(a) \/ IsNan(b) THEN NanOut(IsSnan(a) \/ IsSnan(b))
      ELSE IF (IsInf(a) /\ IsZeroArith(b)) \/ (IsZeroArith(a) /\ IsInf(b)) THEN NanOut(TRUE)
      ELSE IF IsInf(a) \/ IsInf(b) THEN Out(PackInf(s), {})
      ELSE IF IsZeroArith(a) \/ IsZeroArith(b) THEN Out(PackZero(s), {})
      ELSE RoundProduct(s, Unbiased(a) + Unbiased(b) + (IF top THEN 1 ELSE 0),
                        IF top THEN product ELSE 2 * product, rm)

FSGNJ(a, b, f3) ==
  Out([a EXCEPT !.sign = CASE f3 = 0 -> b.sign
                           [] f3 = 1 -> 1 - b.sign
                           [] f3 = 2 -> Xor(a.sign, b.sign)], {})

\* a < b, as FALU.v's compares and min/max both derive it.
LessThan(a, b) ==
  IF a.sign # b.sign THEN a.sign = 1
  ELSE IF a.sign = 1 THEN Low(a) > Low(b) ELSE Low(a) < Low(b)

FMINMAX(a, b, f3) ==
  LET both_zero == IsZeroArith(a) /\ IsZeroArith(b)
      a_lt_b == IF both_zero THEN a.sign = 1 /\ b.sign # 1 ELSE LessThan(a, b)
  IN  IF IsNan(a) /\ IsNan(b) THEN NanOut(IsSnan(a) \/ IsSnan(b))
      ELSE IF IsNan(a) THEN Out(b, Flag("NV", IsSnan(a)))
      ELSE IF IsNan(b) THEN Out(a, Flag("NV", IsSnan(b)))
      ELSE IF f3 = 0 THEN Out(IF a_lt_b THEN a ELSE b, {})
      ELSE Out(IF a_lt_b THEN b ELSE a, {})

FCMP(a, b, f3) ==
  LET both_zero == IsZeroArith(a) /\ IsZeroArith(b)
      eq == both_zero \/ a = b
      lt == ~both_zero /\ LessThan(a, b)
      hit == (f3 = 2 /\ eq) \/ (f3 = 1 /\ lt) \/ (f3 = 0 /\ (lt \/ eq))
  IN  IF IsNan(a) \/ IsNan(b)
      THEN Out(0, Flag("NV", IF f3 = 2 THEN IsSnan(a) \/ IsSnan(b) ELSE TRUE))
      ELSE Out(IF hit THEN 1 ELSE 0, {})

FCLASS(a) ==
  LET normal == a.exp # 0 /\ a.exp # ExpMax
      sub    == a.exp = 0 /\ a.frac # 0
  IN  CASE IsInf(a) /\ a.sign = 1 -> 0      [] normal /\ a.sign = 1 -> 1
        [] sub /\ a.sign = 1 -> 2           [] a = PackZero(1) -> 3
        [] a = PackZero(0) -> 4             [] sub /\ a.sign = 0 -> 5
        [] normal /\ a.sign = 0 -> 6        [] IsInf(a) /\ a.sign = 0 -> 7
        [] IsSnan(a) -> 8                   [] IsNan(a) /\ ~IsSnan(a) -> 9

\* fcvt.w.s, fcvt.wu.s: an exact left shift, or a sticky right shift.
FCVT_W_S(a, rm, unsigned) ==
  LET e  == Unbiased(a)
      sh == ShiftSticky(Mant(a) * 8, MB - e, MB + 4)
      exact == e >= MB
      m0 == IF exact THEN Mant(a) * 2^(e - MB) ELSE Bits(sh, MB + 3, 3)
      g  == ~exact /\ Bit(sh, 2)
      r  == ~exact /\ Bit(sh, 1)
      st == ~exact /\ Bit(sh, 0)
      m  == m0 + (IF RoundUpBit(g, r, st, m0 % 2 = 1, a.sign, rm) THEN 1 ELSE 0)
      out_of_range == IF unsigned THEN (a.sign = 1 /\ m # 0) \/ m > 2^IB - 1
                      ELSE m > 2^(IB - 1) - (1 - a.sign)
  IN  IF IsNan(a) THEN Out(IntMax(unsigned), {"NV"})
      ELSE IF IsZeroArith(a) THEN Out(0, {})
      ELSE IF IsInf(a) \/ e > IB - 1 \/ out_of_range
           THEN Out(Saturated(unsigned, a.sign), {"NV"})
           ELSE Out((IF a.sign = 1 THEN 2^IB - m ELSE m) % 2^IB,
                    Flag("NX", g \/ r \/ st))

FCVT_S_W(n, rm, unsigned) ==
  LET neg == ~unsigned /\ Bit(n, IB - 1)
      mag == IF neg THEN 2^IB - n ELSE n
      lead == LeadShift(mag, IB - 1)
      norm == mag * 2^lead
      low  == IB - 1 - MB           \* bits below the kept significand
  IN  IF n = 0 THEN Out(PackZero(0), {})
      ELSE round_and_pack(IF neg THEN 1 ELSE 0, IB - 1 - lead,
                          Bits(norm, IB - 1, low), Bit(norm, low - 1),
                          Bit(norm, low - 2), norm % 2^(low - 2) # 0, rm)

(***************************************************************************)
(* FMADDUnit.v.  The larger of product and addend anchors the frame.       *)
(***************************************************************************)
AddInFrame(sp, pe, p, c, sc, rm) ==
  LET c_is_big == \/ Unbiased(c) > pe
                  \/ Unbiased(c) = pe /\ Mant(c) * 2^(MB + 1) > p
      pf == p * 2^(FRAME - PW)
      cf == Mant(c) * 2^(FRAME - MB - 1)
      small == IF c_is_big THEN ShiftSticky(pf, Unbiased(c) - pe, FRAME)
               ELSE ShiftSticky(cf, pe - Unbiased(c), FRAME)
      big == IF c_is_big THEN cf ELSE pf
      sum == IF sp = sc THEN big + small ELSE big - small
      shl == IF sum >= 2^(FRAME - 1) THEN 0 ELSE LeadShift(sum, FRAME - 1)
      n   == sum * 2^shl
  IN  IF sum = 0 THEN Out(PackZero(IF rm = "RDN" THEN 1 ELSE 0), {})
      ELSE round_and_pack(IF c_is_big THEN sc ELSE sp,
                          (IF c_is_big THEN Unbiased(c) ELSE pe) - shl,
                          Bits(n, FRAME, FRAME - MB - 1), Bit(n, FRAME - MB - 2),
                          Bit(n, FRAME - MB - 3), n % 2^(FRAME - MB - 3) # 0, rm)

FMADD(a, b, c, rm, neg_prod, neg_addend) ==
  LET sp == Xor(Xor(a.sign, b.sign), IF neg_prod THEN 1 ELSE 0)
      sc == Xor(c.sign, IF neg_addend THEN 1 ELSE 0)
      prod_inf == IsInf(a) \/ IsInf(b)
      product == Mant(a) * Mant(b)
      top == Bit(product, PW - 1)
      p   == IF top THEN product ELSE 2 * product
      pe  == Unbiased(a) + Unbiased(b) + (IF top THEN 1 ELSE 0)
  IN  IF IsNan(a) \/ IsNan(b) \/ IsNan(c)
      THEN NanOut(IsSnan(a) \/ IsSnan(b) \/ IsSnan(c))
      ELSE IF (IsInf(a) /\ IsZeroArith(b)) \/ (IsZeroArith(a) /\ IsInf(b)) THEN NanOut(TRUE)
      ELSE IF prod_inf /\ IsInf(c) /\ sp # sc THEN NanOut(TRUE)
      ELSE IF prod_inf THEN Out(PackInf(sp), {})
      ELSE IF IsInf(c) THEN Out(PackInf(sc), {})
      ELSE IF IsZeroArith(a) \/ IsZeroArith(b)
           THEN IF IsZeroArith(c) THEN ZeroSumRtl(sp, sc, rm)
                ELSE Out([c EXCEPT !.sign = sc], {})
      ELSE IF IsZeroArith(c) THEN RoundProduct(sp, pe, p, rm)
      ELSE AddInFrame(sp, pe, p, c, sc, rm)

-----------------------------------------------------------------------------
(***************************************************************************)
(* The iterative units.                                                    *)
(***************************************************************************)
VARIABLES fdiv, fsqrt,    \* the registers of FDivider.v and FSqrt.v
          ex,             \* the F instruction in EX (reg2), or NoOp
          moved           \* reg3/reg4 have advanced since it entered EX

vars == <<fdiv, fsqrt, ex, moved>>

Instr == [unit : {"fdiv", "fsqrt", "falu"}, a : Float, b : Float, rm : Rm]
NoOp == [unit |-> "none", a |-> PackZero(0), b |-> PackZero(0), rm |-> "RNE"]
NoResult == NoOp.a

fp_stall == \/ ex.unit = "fdiv" /\ ~fdiv.done
            \/ ex.unit = "fsqrt" /\ ~fsqrt.done

\* The operands forwarding may present: any, once the producers are gone.
Presented(x) == IF moved THEN Float ELSE {x}

DivReset == [busy |-> FALSE, done |-> FALSE, result |-> NoResult, flags |-> {},
             R |-> 0, Q |-> 0, D |-> 0, count |-> 0, sign |-> 0, e |-> 0]

\* An operation that needs no iteration is done at once.
AtOnce(unit, out) == [unit EXCEPT !.done = TRUE, !.result = out.value, !.flags = out.flags]

\* FDivider.v's shift register: MB + 4 zero bits below the dividend.
PAD == MB + 4
QW == MB + 1 + PAD

\* The general case, told what becomes of flags.
DivBegin(a, b, flags) ==
  [DivReset EXCEPT !.busy = TRUE, !.flags = flags,
                   !.Q = Mant(a) * 2^PAD, !.D = Mant(b),
                   !.sign = Xor(a.sign, b.sign), !.e = Unbiased(a) - Unbiased(b)]

DivAcceptWith(a, b, flags) ==
  LET s == Xor(a.sign, b.sign)
  IN  IF IsNan(a) \/ IsNan(b) THEN AtOnce(fdiv, NanOut(IsSnan(a) \/ IsSnan(b)))
      ELSE IF IsInf(a) /\ IsInf(b) THEN AtOnce(fdiv, NanOut(TRUE))
      ELSE IF IsZeroArith(a) /\ IsZeroArith(b) THEN AtOnce(fdiv, NanOut(TRUE))
      ELSE IF IsInf(a) THEN AtOnce(fdiv, Out(PackInf(s), {}))
      ELSE IF IsInf(b) THEN AtOnce(fdiv, Out(PackZero(s), {}))
      ELSE IF IsZeroArith(b) THEN AtOnce(fdiv, Out(PackInf(s), {"DZ"}))
      ELSE IF IsZeroArith(a) THEN AtOnce(fdiv, Out(PackZero(s), {}))
      ELSE DivBegin(a, b, flags)

\* Mutant: a new division keeps the flags of the last one.
DivAccept_KeepsFlags(a, b) == DivAcceptWith(a, b, fdiv.flags)

DivAccept(a, b) == DivAcceptWith(a, b, {})

\* The quotient is cut where its leading one is; the remainder is sticky.
DivRound(q, rem, rm) ==
  LET top == Bit(q, PAD)
      n   == IF top THEN q ELSE 2 * q      \* leading one at bit PAD
  IN  round_and_pack(fdiv.sign, IF top THEN fdiv.e ELSE fdiv.e - 1,
                     Bits(n, PAD, 4), Bit(n, 3), Bit(n, 2),
                     n % 4 # 0 \/ rem # 0, rm)

\* Mutant: the counter wraps before the last step is seen.
DivIterate_Wraps(rm) == [fdiv EXCEPT !.count = (@ + 1) % (QW - 1)]

\* One restoring step of FDivider.v, on the last of which the result is
\* packed and the divide-by-zero and invalid flags stay clear.
DivIterate(rm) ==
  LET shifted == ((2 * fdiv.R) % 2^(MB + 2)) + (IF Bit(fdiv.Q, QW - 1) THEN 1 ELSE 0)
      fits  == shifted >= fdiv.D
      new_R == IF fits THEN shifted - fdiv.D ELSE shifted
      new_Q == ((2 * fdiv.Q) % 2^QW) + (IF fits THEN 1 ELSE 0)
      out   == DivRound(new_Q, new_R, rm)
  IN  IF fdiv.count = QW - 1
      THEN [DivReset EXCEPT !.done = TRUE, !.result = out.value,
               !.flags = out.flags \union (fdiv.flags \intersect {"DZ"})]
      ELSE [fdiv EXCEPT !.R = new_R, !.Q = new_Q, !.count = @ + 1]

\* One clock edge of FDivider.v.
FDividerEdge ==
  \/ /\ ex.unit = "fdiv" /\ ~fdiv.busy /\ ~fdiv.done
     /\ \E a \in Presented(ex.a), b \in Presented(ex.b) : fdiv' = DivAccept(a, b)
  \/ /\ fdiv.busy
     /\ fdiv' = DivIterate(ex.rm)
  \/ /\ ~fdiv.busy /\ (ex.unit # "fdiv" \/ fdiv.done)
     /\ fdiv' = [fdiv EXCEPT !.done = FALSE, !.result = NoResult]

ROOT_BITS == MB + 3
RADW == 2 * ROOT_BITS
SqrtReset == [busy |-> FALSE, done |-> FALSE, result |-> NoResult, flags |-> {},
              R |-> 0, Q |-> 0, rad |-> 0, count |-> 0, e |-> 0]

\* Twice the significand for an even exponent, four times for an odd one,
\* above ROOT_BITS zero bits.
Radicand(a) == IF Unbiased(a) % 2 = 0 THEN Mant(a) * 2^(ROOT_BITS + 1)
               ELSE Mant(a) * 2^(ROOT_BITS + 2)

SqrtAccept(a) ==
  IF IsNan(a) THEN AtOnce(fsqrt, NanOut(IsSnan(a)))
  ELSE IF IsZeroArith(a) THEN AtOnce(fsqrt, Out(a, {}))
  ELSE IF a.sign = 1 THEN AtOnce(fsqrt, NanOut(TRUE))
  ELSE IF IsInf(a) THEN AtOnce(fsqrt, Out(a, {}))
  ELSE [SqrtReset EXCEPT !.busy = TRUE, !.rad = Radicand(a), !.e = Unbiased(a) \div 2]

SqrtIterate(rm) ==
  LET shifted == ((4 * fsqrt.R) % 2^(ROOT_BITS + 2))
                 + Bits(fsqrt.rad, RADW - 1, RADW - 2)
      trial == 4 * fsqrt.Q + 1
      fits  == shifted >= trial
      new_R == IF fits THEN shifted - trial ELSE shifted
      new_Q == ((2 * fsqrt.Q) % 2^ROOT_BITS) + (IF fits THEN 1 ELSE 0)
      out   == round_and_pack(0, fsqrt.e, Bits(new_Q, ROOT_BITS - 1, 2),
                              Bit(new_Q, 1), Bit(new_Q, 0), new_R # 0, rm)
  IN  IF fsqrt.count = ROOT_BITS - 1
      THEN [SqrtReset EXCEPT !.done = TRUE, !.result = out.value,
               !.flags = out.flags \union (fsqrt.flags \intersect {"NV", "DZ"})]
      ELSE [fsqrt EXCEPT !.R = new_R, !.Q = new_Q, !.rad = (4 * @) % 2^RADW,
                         !.count = @ + 1]

\* One clock edge of FSqrt.v.
FSqrtEdge ==
  \/ /\ ex.unit = "fsqrt" /\ ~fsqrt.busy /\ ~fsqrt.done
     /\ \E a \in Presented(ex.a) : fsqrt' = SqrtAccept(a)
  \/ /\ fsqrt.busy
     /\ fsqrt' = SqrtIterate(ex.rm)
  \/ /\ ~fsqrt.busy /\ (ex.unit # "fsqrt" \/ fsqrt.done)
     /\ fsqrt' = [fsqrt EXCEPT !.done = FALSE, !.result = NoResult]

-----------------------------------------------------------------------------
(***************************************************************************)
(* The EX stage: reg2 keeps the instruction while fp_stall or the hold of  *)
(* an older access in MEM (mem_stall, amo_stall) lasts.                    *)
(***************************************************************************)
Ex(hold) ==
  \/ /\ hold \/ fp_stall
     /\ ex' = ex
     /\ moved' = (moved \/ ~hold)
  \/ /\ ~hold /\ ~fp_stall
     /\ ex' \in Follow
     /\ moved' = FALSE

Edge(hold) == FDividerEdge /\ FSqrtEdge /\ Ex(hold)

\* A stall raised by MEM can only be met by an instruction new in EX.
HeldEdge == ~moved /\ Edge(TRUE)
FreeEdge == Edge(FALSE)

Init == /\ fdiv = DivReset /\ fsqrt = SqrtReset
        /\ ex \in First /\ moved = FALSE

Next == HeldEdge \/ FreeEdge

\* The clock runs and an access in MEM completes.
Spec == Init /\ [][Next]_vars /\ WF_vars(FreeEdge)

=============================================================================
