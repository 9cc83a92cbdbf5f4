------------------------------- MODULE Divider -------------------------------
(***************************************************************************)
(* The iterative divider (design/Divider.v) together with the interlock    *)
(* that drives it from the EX stage (design/riscvpipeline.v: isDivRem,     *)
(* div_dividend_in, div_divisor_in, div_stall, div_result).                *)
(*                                                                         *)
(* One step is one clock edge.  The divide instruction in EX presents its  *)
(* operands through the forwarding network, so they are right only while   *)
(* the producers in EX/MEM and MEM/WB have not moved on: as long as        *)
(* reg3/reg4 are held (mem_stall or amo_stall, which can only happen from  *)
(* the divide's first cycle on, reg3 being bubbled afterwards).  Once they *)
(* have moved the presented operands are arbitrary (Presented).            *)
(*                                                                         *)
(* XLEN is the width of a register and WLEN the width of the word forms    *)
(* divw, divuw, remw, remuw (32).                                          *)
(***************************************************************************)
EXTENDS Integers, FiniteSets

CONSTANTS XLEN, WLEN

ASSUME WidthAssumption == /\ XLEN \in Nat /\ WLEN \in Nat
                          /\ 2 <= WLEN /\ WLEN < XLEN

VARIABLES busy, done, count,           \* Divider.v's control registers
          R, Q, D,                     \* working remainder, quotient, divisor
          neg_quotient, neg_remainder,
          quotient, remainder,         \* its outputs
          op,                          \* the divide in EX (reg2), or NoOp
          moved                        \* reg3/reg4 have advanced since op entered EX

divVars == <<busy, done, count, R, Q, D, neg_quotient, neg_remainder,
             quotient, remainder>>
vars == <<divVars, op, moved>>

Word == 0 .. (2^XLEN - 1)
Op == [signed : BOOLEAN, word : BOOLEAN, a : Word, b : Word]
NoOp == [signed |-> FALSE, word |-> FALSE, a |-> -1, b |-> -1]

(***************************************************************************)
(* Two's-complement arithmetic on w-bit words.                             *)
(***************************************************************************)
Neg(x, w) == (2^w - x) % 2^w
TopBit(x, w) == x \div 2^(w - 1)
ToInt(x, w) == IF TopBit(x, w) = 1 THEN x - 2^w ELSE x
SignExtend(x) == ToInt(x % 2^WLEN, WLEN) % 2^XLEN
Abs(signed, x) == IF signed /\ TopBit(x, XLEN) = 1 THEN Neg(x, XLEN) ELSE x
Negate(n, x) == IF n THEN Neg(x, XLEN) ELSE x

(***************************************************************************)
(* div_dividend_in / div_divisor_in: the word forms are cut to WLEN bits and *)
(* extended again before the full-width divider sees them; div_result      *)
(* sign-extends their low WLEN bits.                                       *)
(***************************************************************************)
DivIn(x) ==
  IF ~op.word THEN x
  ELSE IF op.signed THEN SignExtend(x) ELSE x % 2^WLEN

DivResult(x) == IF op.word THEN SignExtend(x) ELSE x

\* The operand values the forwarding network may present this cycle.
Presented(x) == IF moved THEN Word ELSE {x}

isDivRem == op # NoOp
div_stall == isDivRem /\ ~done

Init == /\ busy = FALSE /\ done = FALSE /\ count = 0
        /\ R = 0 /\ Q = 0 /\ D = 0
        /\ neg_quotient = FALSE /\ neg_remainder = FALSE
        /\ quotient = 0 /\ remainder = 0
        /\ op = NoOp /\ moved = FALSE

(***************************************************************************)
(* One clock edge of Divider.v.                                            *)
(***************************************************************************)
Accept(a, b) ==
  LET overflow == op.signed /\ a = 2^(XLEN - 1) /\ b = 2^XLEN - 1
  IN  \/ /\ b = 0
         /\ quotient' = 2^XLEN - 1 /\ remainder' = a /\ done' = TRUE
         /\ UNCHANGED <<busy, count, R, Q, D, neg_quotient, neg_remainder>>
      \/ /\ b # 0 /\ overflow
         /\ quotient' = a /\ remainder' = 0 /\ done' = TRUE
         /\ UNCHANGED <<busy, count, R, Q, D, neg_quotient, neg_remainder>>
      \/ /\ b # 0 /\ ~overflow
         /\ R' = 0 /\ Q' = Abs(op.signed, a) /\ D' = Abs(op.signed, b)
         /\ neg_quotient' = (op.signed /\ TopBit(a, XLEN) # TopBit(b, XLEN))
         /\ neg_remainder' = (op.signed /\ TopBit(a, XLEN) = 1)
         /\ count' = 0 /\ busy' = TRUE /\ done' = FALSE
         /\ UNCHANGED <<quotient, remainder>>

\* Mutant: a start that does not look at done, the bug Divider.v's comment
\* describes.
DivStart_IgnoresDone ==
  /\ isDivRem /\ ~busy
  /\ \E a \in Presented(op.a), b \in Presented(op.b) :
        Accept(DivIn(a), DivIn(b))

DivStart == /\ isDivRem /\ ~busy /\ ~done
            /\ \E a \in Presented(op.a), b \in Presented(op.b) :
                  Accept(DivIn(a), DivIn(b))

DivStepCounting(next) ==
  LET R_shifted == ((2 * R) % 2^XLEN) + TopBit(Q, XLEN)
      fits      == R_shifted >= D
      new_R     == IF fits THEN R_shifted - D ELSE R_shifted
      new_Q     == ((2 * Q) % 2^XLEN) + (IF fits THEN 1 ELSE 0)
      last      == count = XLEN - 1
  IN  /\ busy
      /\ R' = new_R /\ Q' = new_Q
      /\ count' = next
      /\ busy' = ~last /\ done' = last
      /\ quotient' = IF last THEN Negate(neg_quotient, new_Q) ELSE quotient
      /\ remainder' = IF last THEN Negate(neg_remainder, new_R) ELSE remainder
      /\ UNCHANGED <<D, neg_quotient, neg_remainder>>

\* Mutant: the last iteration is never made.
DivStep_NeverLast == IF count = XLEN - 1 THEN busy /\ UNCHANGED divVars
                     ELSE DivStepCounting(count + 1)

DivStep == DivStepCounting((count + 1) % XLEN)

DivIdle == /\ ~busy /\ (~isDivRem \/ done)
           /\ done' = FALSE
           /\ UNCHANGED <<busy, count, R, Q, D, neg_quotient, neg_remainder,
                          quotient, remainder>>

DividerEdge == DivStart \/ DivStep \/ DivIdle

-----------------------------------------------------------------------------
(***************************************************************************)
(* The EX stage.  hold is mem_stall or amo_stall; reg2 keeps the divide    *)
(* while hold or div_stall, and otherwise latches the next instruction.    *)
(***************************************************************************)
Ex(hold) ==
  \/ /\ hold \/ div_stall
     /\ op' = op
     /\ moved' = (moved \/ (isDivRem /\ ~hold))
  \/ /\ ~hold /\ ~div_stall
     /\ op' \in Op \union {NoOp}
     /\ moved' = FALSE

Edge(hold) == DividerEdge /\ Ex(hold)

\* A stall raised by MEM can only be met by a divide that has just entered EX.
HeldEdge == ~moved /\ Edge(TRUE)
FreeEdge == Edge(FALSE)

Next == HeldEdge \/ FreeEdge

(***************************************************************************)
(* Fairness: the clock runs, and a memory access in MEM completes, so      *)
(* edges without mem_stall keep coming.                                    *)
(***************************************************************************)
Spec == Init /\ [][Next]_vars /\ WF_vars(FreeEdge)

-----------------------------------------------------------------------------
(***************************************************************************)
(* The reference is what the instruction-set simulator computes for DIV,   *)
(* DIVU, REM, REMU and their word forms: the quotient is rounded towards   *)
(* zero, the remainder has the sign of the dividend, x / 0 is all ones     *)
(* with remainder x, INT_MIN / -1 is INT_MIN with remainder 0.             *)
(***************************************************************************)
Iss == INSTANCE IssDiv

RefDiv(signed, w, a, b) ==
  IF signed THEN [q |-> Iss!IssDivS(a, b, w), r |-> Iss!IssRemS(a, b, w)]
  ELSE [q |-> Iss!IssDivU(a, b, w), r |-> Iss!IssRemU(a, b)]

RefResult ==
  IF op.word
  THEN LET d == RefDiv(op.signed, WLEN, op.a % 2^WLEN, op.b % 2^WLEN)
       IN  [q |-> SignExtend(d.q), r |-> SignExtend(d.r)]
  ELSE RefDiv(op.signed, XLEN, op.a, op.b)

(***************************************************************************)
(* Registers hold words of their width.                                    *)
(***************************************************************************)
TypeOK == /\ busy \in BOOLEAN /\ done \in BOOLEAN /\ count \in 0 .. (XLEN - 1)
          /\ R \in Word /\ Q \in Word /\ D \in Word
          /\ neg_quotient \in BOOLEAN /\ neg_remainder \in BOOLEAN
          /\ quotient \in Word /\ remainder \in Word
          /\ op \in Op \union {NoOp} /\ moved \in BOOLEAN
          /\ ~(busy /\ done)

(***************************************************************************)
(* Whenever Divider.v pulses done, its outputs are the quotient and the    *)
(* remainder of the operands the divide in EX had when it entered EX, for  *)
(* all four operations and their word forms, however long MEM held the     *)
(* pipeline meanwhile and however often the division was restarted.        *)
(***************************************************************************)
DoneCorrect ==
  done /\ isDivRem => /\ DivResult(quotient) = RefResult.q
                      /\ DivResult(remainder) = RefResult.r

(***************************************************************************)
(* div_stall is always released again: no divide keeps the pipeline frozen *)
(* for ever, even when its done pulse fell into a memory stall and was     *)
(* lost.                                                                   *)
(***************************************************************************)
StallReleased == []<>(~div_stall)

=============================================================================
