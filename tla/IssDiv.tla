-------------------------------- MODULE IssDiv --------------------------------
(***************************************************************************)
(* What ISS.step (sim/tools/iss.py) computes for div, divu, rem and remu,  *)
(* and for their word forms with the low bits of the operands.  xl is the  *)
(* width of the operation.                                                 *)
(***************************************************************************)
EXTENDS Integers

uxlen(v, xl) == v % 2^xl
sxlen(v, xl) == LET u == v % 2^xl IN IF u >= 2^(xl - 1) THEN u - 2^xl ELSE u
Magnitude(n) == IF n < 0 THEN -n ELSE n

IssDivU(a, b, xl) == IF b = 0 THEN uxlen(-1, xl) ELSE a \div b
IssRemU(a, b) == IF b = 0 THEN a ELSE a % b
IssOverflow(a, b, xl) == sxlen(a, xl) = -(2^(xl - 1)) /\ sxlen(b, xl) = -1
IssDivS(a, b, xl) ==
  LET sa == sxlen(a, xl)
      sb == sxlen(b, xl)
      q == Magnitude(sa) \div Magnitude(sb)
  IN  IF b = 0 THEN uxlen(-1, xl)
      ELSE IF IssOverflow(a, b, xl) THEN a
      ELSE uxlen(IF (sa < 0) # (sb < 0) THEN -q ELSE q, xl)
IssRemS(a, b, xl) ==
  LET sa == sxlen(a, xl)
      r == Magnitude(sa) % Magnitude(sxlen(b, xl))
  IN  IF b = 0 THEN a
      ELSE IF IssOverflow(a, b, xl) THEN 0
      ELSE uxlen(IF sa < 0 THEN -r ELSE r, xl)

=============================================================================
