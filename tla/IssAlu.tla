-------------------------------- MODULE IssAlu --------------------------------
(***************************************************************************)
(* What ISS.step (sim/tools/iss.py) computes for the register, immediate   *)
(* and branch instructions, by mnemonic.  xl is the width of a register    *)
(* and wl that of the word forms (32 in the code); A and B are the values  *)
(* of the source registers, or B the immediate.  Division is in IssDiv.    *)
(***************************************************************************)
EXTENDS IssDiv, Bitwise

OneIf(b) == IF b THEN 1 ELSE 0

\* The loop of the custom ctz: it stops one bit short of the register.
IssCtz(a, xl) ==
  LET zeros == {n \in 0 .. xl - 1 :
                  \A i \in 0 .. n - 1 : (a \div 2^i) % 2 = 0}
  IN  CHOOSE n \in zeros : \A m \in zeros : m <= n

(***************************************************************************)
(* OP and OP-IMM.                                                          *)
(***************************************************************************)
IssOp(mn, A, B, xl) ==
  CASE mn = "mul" -> uxlen(A * B, xl)
    [] mn = "mulh" -> uxlen((sxlen(A, xl) * sxlen(B, xl)) \div 2^xl, xl)
    [] mn = "mulhsu" -> uxlen((sxlen(A, xl) * B) \div 2^xl, xl)
    [] mn = "mulhu" -> (A * B) \div 2^xl
    [] mn = "div" -> IssDivS(A, B, xl)
    [] mn = "divu" -> IssDivU(A, B, xl)
    [] mn = "rem" -> IssRemS(A, B, xl)
    [] mn = "remu" -> IssRemU(A, B)
    [] mn = "ctz" -> IssCtz(A, xl)
    [] mn \in {"add", "addi"} -> uxlen(A + B, xl)
    [] mn = "sub" -> uxlen(A - B, xl)
    [] mn = "sll" -> uxlen(A * 2^(B % xl), xl)
    [] mn = "slli" -> uxlen(A * 2^B, xl)
    [] mn = "slt" -> OneIf(sxlen(A, xl) < sxlen(B, xl))
    [] mn = "slti" -> OneIf(sxlen(A, xl) < B)
    [] mn \in {"sltu", "sltiu"} -> OneIf(A < uxlen(B, xl))
    [] mn \in {"xor", "xori"} -> A ^^ uxlen(B, xl)
    [] mn = "srl" -> A \div 2^(B % xl)
    [] mn = "srli" -> A \div 2^B
    [] mn = "sra" -> uxlen(sxlen(A, xl) \div 2^(B % xl), xl)
    [] mn = "srai" -> uxlen(sxlen(A, xl) \div 2^B, xl)
    [] mn \in {"or", "ori"} -> A | uxlen(B, xl)
    [] mn \in {"and", "andi"} -> A & uxlen(B, xl)

(***************************************************************************)
(* OP-32 and OP-IMM-32 (res32): the low wl bits of the operands.           *)
(***************************************************************************)
IssOp32(mn, A, B, wl) ==
  LET a == A % 2^wl
      b == B % 2^wl
  IN CASE mn = "mulw" -> (a * b) % 2^wl
       [] mn = "divw" -> IssDivS(a, b, wl)
       [] mn = "divuw" -> IssDivU(a, b, wl)
       [] mn = "remw" -> IssRemS(a, b, wl)
       [] mn = "remuw" -> IssRemU(a, b)
       [] mn \in {"addw", "addiw"} -> (a + b) % 2^wl
       [] mn = "subw" -> (a - b) % 2^wl
       [] mn \in {"sllw", "slliw"} -> (a * 2^(B % wl)) % 2^wl
       [] mn \in {"srlw", "srliw"} -> a \div 2^(B % wl)
       [] mn \in {"sraw", "sraiw"} -> (sxlen(a, wl) \div 2^(B % wl)) % 2^wl

WordForms == {"mulw", "divw", "divuw", "remw", "remuw", "addw", "addiw", "subw",
              "sllw", "slliw", "srlw", "srliw", "sraw", "sraiw"}
IssResult(mn, A, B, xl, wl) ==
  IF mn \in WordForms THEN uxlen(sxlen(IssOp32(mn, A, B, wl), wl), xl)
  ELSE IssOp(mn, A, B, xl)
\* lui and auipc of a 20-bit number at pc.
IssUpper(mn, pc, imm, xl) ==
  uxlen(4096 * sxlen(imm, 20) + (IF mn = "auipc" THEN pc ELSE 0), xl)

IssTaken(mn, A, B, xl) ==
  LET a == sxlen(A, xl)
      b == sxlen(B, xl)
  IN CASE mn = "beq" -> a = b
       [] mn = "bne" -> a # b
       [] mn = "ble" -> a <= b
       [] mn = "bgt" -> a > b
       [] mn = "blt" -> a < b
       [] mn = "bge" -> a >= b
       [] mn = "bltu" -> A < B
       [] mn = "bgeu" -> A >= B
       [] mn \in {"jal", "jalr"} -> TRUE

=============================================================================
