------------------------------ MODULE FpFormat ------------------------------
(***************************************************************************)
(* The floating-point format the golden model (sim/tools/iss.py) and the   *)
(* FPU (design/FALU.v and its neighbours) share, at any width: EB exponent *)
(* bits, MB fraction bits (8 and 23 in the code) and IB integer bits (32)  *)
(* for the conversions.  A float is its three fields; flags are the set of *)
(* exception names raised, so OR-ing flags is set union.                   *)
(***************************************************************************)
EXTENDS Integers

CONSTANTS EB, MB, IB

\* FSqrt.v pads the radicand by pairs of bits, (MB + 3) / 2 of them; the
\* integer-to-float conversion needs a guard, a round and a sticky bit.
ASSUME FormatAssumption == /\ EB \in Nat /\ MB \in Nat /\ IB \in Nat
                           /\ EB >= 2 /\ MB >= 2 /\ MB % 2 = 1 /\ IB >= MB + 4

Bias == 2^(EB - 1) - 1
ExpMax == 2^EB - 1
EMAX == Bias
EMIN == 1 - Bias

Float == [sign : 0 .. 1, exp : 0 .. ExpMax, frac : 0 .. (2^MB - 1)]
Rm == {"RNE", "RTZ", "RDN", "RUP", "RMM", "reserved"}

Pack(s, e, f) == [sign |-> s, exp |-> e, frac |-> f]
CANONICAL_NAN == Pack(0, ExpMax, 2^(MB - 1))
PackZero(s) == Pack(s, 0, 0)
PackInf(s) == Pack(s, ExpMax, 0)
PackMax(s) == Pack(s, ExpMax - 1, 2^MB - 1)

IsNan(x) == x.exp = ExpMax /\ x.frac # 0
IsSnan(x) == IsNan(x) /\ x.frac < 2^(MB - 1)
IsInf(x) == x.exp = ExpMax /\ x.frac = 0
\* True of a subnormal too: operands are flushed to zero.
IsZeroArith(x) == x.exp = 0

\* The bits below the sign, as a number.
Low(x) == x.exp * 2^MB + x.frac
Xor(s, t) == (s + t) % 2
Flag(name, raised) == IF raised THEN {name} ELSE {}
Out(v, fl) == [value |-> v, flags |-> fl]
NanOut(snan) == Out(CANONICAL_NAN, Flag("NV", snan))

\* The integers the conversions saturate to.
IntMax(unsigned) == IF unsigned THEN 2^IB - 1 ELSE 2^(IB - 1) - 1
Saturated(unsigned, s) ==
  IF s = 0 THEN IntMax(unsigned) ELSE IF unsigned THEN 0 ELSE 2^(IB - 1)

=============================================================================
