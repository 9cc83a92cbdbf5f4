------------------------------- MODULE Encoding -------------------------------
(***************************************************************************)
(* The instruction encoding as three programs of sim/tools know it, each   *)
(* on its own: the assembler (asm.py), the disassembler (disasm.py) and    *)
(* the decoder of the instruction-set simulator (iss.py, ISS.step).        *)
(*                                                                         *)
(* A 32-bit word is the record of its fields, a statement a mnemonic with  *)
(* its operands.  A reader that gives up on a word reads Unknown.          *)
(***************************************************************************)
EXTENDS Integers, Sequences, TLC

\* Operands: registers, immediates (an offset before its base), rounding
\* modes, CSR addresses, labels.
X(n) == [k |-> "x", v |-> n]
F(n) == [k |-> "f", v |-> n]
I(n) == [k |-> "i", v |-> n]
Rm(n) == [k |-> "rm", v |-> n]
Csr(n) == [k |-> "csr", v |-> n]
Stmt(mn, args) == [mn |-> mn, args |-> args]
Unknown == Stmt("?", <<>>)

Word(op, rd, f3, rs1, rs2, f7) ==
  [op |-> op, rd |-> rd, f3 |-> f3, rs1 |-> rs1, rs2 |-> rs2, f7 |-> f7]
\* inst[31:20] is one field in the I-type.
WordI(op, rd, f3, rs1, imm12) ==
  Word(op, rd, f3, rs1, imm12 % 32, imm12 \div 32)
Imm12(w) == 32 * w.f7 + w.rs2
Bad == Word(-1, 0, 0, 0, 0, 0)      \* the assembler refuses the statement

\* sext(v, bits).
Sext(v, bits) == IF v >= 2^(bits - 1) THEN v - 2^bits ELSE v

-----------------------------------------------------------------------------
(***************************************************************************)
(* asm.py                                                                  *)
(***************************************************************************)
OP == [R |-> 51, I |-> 19, LOAD |-> 3, STORE |-> 35, BRANCH |-> 99,
       JAL |-> 111, JALR |-> 103, LUI |-> 55, AUIPC |-> 23, CUSTOM |-> 42,
       SYSTEM |-> 115, MISC_MEM |-> 15, W |-> 59, IMM_W |-> 27, FP |-> 83,
       LOAD_FP |-> 7, STORE_FP |-> 39]
FUNCT7_BASE == 0
FUNCT7_ALT == 32
FUNCT7_MULDIV == 1
FUNCT7_SFENCE_VMA == 9

R_TYPE ==
  [add |-> <<FUNCT7_BASE, 0>>, sub |-> <<FUNCT7_ALT, 0>>,
   sll |-> <<FUNCT7_BASE, 1>>, slt |-> <<FUNCT7_BASE, 2>>,
   sltu |-> <<FUNCT7_BASE, 3>>, xor |-> <<FUNCT7_BASE, 4>>,
   srl |-> <<FUNCT7_BASE, 5>>, sra |-> <<FUNCT7_ALT, 5>>,
   or |-> <<FUNCT7_BASE, 6>>, and |-> <<FUNCT7_BASE, 7>>,
   mul |-> <<FUNCT7_MULDIV, 0>>, mulh |-> <<FUNCT7_MULDIV, 1>>,
   mulhsu |-> <<FUNCT7_MULDIV, 2>>, mulhu |-> <<FUNCT7_MULDIV, 3>>,
   div |-> <<FUNCT7_MULDIV, 4>>, divu |-> <<FUNCT7_MULDIV, 5>>,
   rem |-> <<FUNCT7_MULDIV, 6>>, remu |-> <<FUNCT7_MULDIV, 7>>]
R_TYPE_W ==
  [addw |-> <<FUNCT7_BASE, 0>>, subw |-> <<FUNCT7_ALT, 0>>,
   sllw |-> <<FUNCT7_BASE, 1>>, srlw |-> <<FUNCT7_BASE, 5>>,
   sraw |-> <<FUNCT7_ALT, 5>>, mulw |-> <<FUNCT7_MULDIV, 0>>,
   divw |-> <<FUNCT7_MULDIV, 4>>, divuw |-> <<FUNCT7_MULDIV, 5>>,
   remw |-> <<FUNCT7_MULDIV, 6>>, remuw |-> <<FUNCT7_MULDIV, 7>>]
I_TYPE == [addi |-> 0, slli |-> 1, slti |-> 2, sltiu |-> 3, xori |-> 4,
           srli |-> 5, srai |-> 5, ori |-> 6, andi |-> 7]
I_TYPE_W == [addiw |-> 0, slliw |-> 1, srliw |-> 5, sraiw |-> 5]
BRANCH == [beq |-> 0, bne |-> 1, blt |-> 4, bge |-> 5, ble |-> 2, bgt |-> 3,
           bltu |-> 6, bgeu |-> 7]
LOAD == [lb |-> 0, lh |-> 1, lw |-> 2, lbu |-> 4, lhu |-> 5, ld |-> 3,
         lwu |-> 6]
STORE == [sb |-> 0, sh |-> 1, sw |-> 2, sd |-> 3]
CSR_OP == [csrrw |-> 1, csrrs |-> 2, csrrc |-> 3, csrrwi |-> 5, csrrsi |-> 6,
           csrrci |-> 7]
SYSTEM_IMM12 == [ecall |-> 0, ebreak |-> 1, mret |-> 770, sret |-> 258]
MADD_OPCODES == "fmadd.s" :> 67 @@ "fmsub.s" :> 71 @@ "fnmsub.s" :> 75 @@
                "fnmadd.s" :> 79
FP_ARITH == "fadd.s" :> 0 @@ "fsub.s" :> 1 @@ "fmul.s" :> 2 @@ "fdiv.s" :> 3
FUNCT5_FSQRT == 11
\* funct5 and funct3 of the operations without a rounding mode.
FP_PLAIN ==
  "fsgnj.s" :> <<4, 0>> @@ "fsgnjn.s" :> <<4, 1>> @@ "fsgnjx.s" :> <<4, 2>> @@
  "fmin.s" :> <<5, 0>> @@ "fmax.s" :> <<5, 1>> @@ "fle.s" :> <<20, 0>> @@
  "flt.s" :> <<20, 1>> @@ "feq.s" :> <<20, 2>>
FP_CMP == {"fle.s", "flt.s", "feq.s"}
\* funct5 and rs2 of the conversions, funct5 and funct3 of the moves.
FP_CVT == "fcvt.w.s" :> <<24, 0>> @@ "fcvt.wu.s" :> <<24, 1>> @@
          "fcvt.s.w" :> <<26, 0>> @@ "fcvt.s.wu" :> <<26, 1>>
FP_MOVE == "fmv.x.w" :> <<28, 0>> @@ "fclass.s" :> <<28, 1>> @@
           "fmv.w.x" :> <<30, 0>>
ToInteger == {"fcvt.w.s", "fcvt.wu.s", "fmv.x.w", "fclass.s"}
DYN == 7

(***************************************************************************)
(* reg, freg, imm and parse_rm: which operands a statement may have.       *)
(***************************************************************************)
reg(a) == a.k = "x" /\ a.v \in 0 .. 31
freg(a) == a.k = "f" /\ a.v \in 0 .. 31
csr_lookup(a) == a.k = "csr"
Signed(a, bits) == a.k = "i" /\ a.v \in -(2^(bits - 1)) .. 2^(bits - 1) - 1
Unsigned(a, bits) == a.k = "i" /\ a.v \in 0 .. 2^bits - 1
Even(a) == a.v % 2 = 0
\* The rounding mode after n operands, dyn when there is none.
parse_rm(args, n) == IF Len(args) > n THEN args[n + 1].v ELSE DYN

\* The operands of a statement by kind; a wrong kind raises ValueError.
Regs(args, kinds) ==
  /\ Len(args) >= Len(kinds)
  /\ \A i \in 1 .. Len(kinds) : IF kinds[i] = "x" THEN reg(args[i])
                                ELSE freg(args[i])
\* "off(xN)" after a register of kind k.
Memory(args, k) ==
  Len(args) = 3 /\ Regs(<<args[1], args[3]>>, <<k, "x">>) /\ Signed(args[2], 12)

(***************************************************************************)
(* The encoders.  Their immediates come in two's complement.               *)
(***************************************************************************)
r_type(op, code, a) == Word(op, a[1].v, code[2], a[2].v, a[3].v, code[1])

\* imm12 of i_type and i_type_w: a shift has its amount, of bits bits, below
\* a code that tells srai from srli.
Shifts == {"slli", "srli", "srai", "slliw", "srliw", "sraiw"}
ShiftBits(mn, xlen) == IF mn \in DOMAIN I_TYPE /\ xlen >= 64 THEN 6 ELSE 5
ImmFits(mn, a, xlen) ==
  IF mn \in Shifts THEN Unsigned(a, ShiftBits(mn, xlen)) ELSE Signed(a, 12)
Imm12Of(mn, a, xlen) ==
  LET code == IF mn \notin {"srai", "sraiw"} THEN 0
              ELSE IF ShiftBits(mn, xlen) = 6 THEN 64 * 16
              ELSE 32 * FUNCT7_ALT
  IN  IF mn \in Shifts THEN code + a.v ELSE a.v % 4096

\* store and fsw.
s_type(op, f3, a) ==
  Word(op, (a[2].v % 4096) % 32, f3, a[3].v, a[1].v, (a[2].v % 4096) \div 32)

\* Mutant: bits 11 and 12 of a branch offset change places.
branch_Swapped(f3, a) ==
  LET v == a[3].v % 8192
  IN  Word(OP.BRANCH, 2 * ((v \div 2) % 16) + (v \div 4096), f3, a[1].v, a[2].v,
           64 * ((v \div 2048) % 2) + ((v \div 32) % 64))

branch(f3, a) ==
  LET v == a[3].v % 8192
  IN  Word(OP.BRANCH, 2 * ((v \div 2) % 16) + ((v \div 2048) % 2), f3,
           a[1].v, a[2].v, 64 * (v \div 4096) + ((v \div 32) % 64))

jal(a) ==
  LET v == a[2].v % 2^21
      b10_1 == (v \div 2) % 1024
      b19_12 == (v \div 4096) % 256
  IN  Word(OP.JAL, a[1].v, b19_12 % 8, b19_12 \div 8,
           2 * (b10_1 % 16) + ((v \div 2048) % 2),
           64 * (v \div 2^20) + (b10_1 \div 16))

u_type(op, a) ==
  Word(op, a[1].v, a[2].v % 8, (a[2].v \div 8) % 32, (a[2].v \div 256) % 32,
       a[2].v \div 8192)

fp_type(funct5, rd, rs1, rs2, f3) == Word(OP.FP, rd, f3, rs1, rs2, 4 * funct5)

When(fits, w) == IF fits THEN w ELSE Bad

EncodeInteger(mn, a, xlen) ==
  CASE mn = "nop" -> WordI(OP.I, 0, I_TYPE.addi, 0, 0)
    [] mn \in DOMAIN R_TYPE ->
         When(Regs(a, <<"x", "x", "x">>), r_type(OP.R, R_TYPE[mn], a))
    [] mn \in DOMAIN R_TYPE_W ->
         When(Regs(a, <<"x", "x", "x">>), r_type(OP.W, R_TYPE_W[mn], a))
    [] mn = "ctz" ->
         When(Regs(a, <<"x", "x">>),
              Word(OP.CUSTOM, a[1].v, 7, a[2].v, 0, FUNCT7_ALT))
    [] mn \in DOMAIN I_TYPE ->
         When(Regs(a, <<"x", "x">>) /\ ImmFits(mn, a[3], xlen),
              WordI(OP.I, a[1].v, I_TYPE[mn], a[2].v, Imm12Of(mn, a[3], xlen)))
    [] mn \in DOMAIN I_TYPE_W ->
         When(Regs(a, <<"x", "x">>) /\ ImmFits(mn, a[3], xlen),
              WordI(OP.IMM_W, a[1].v, I_TYPE_W[mn], a[2].v,
                    Imm12Of(mn, a[3], xlen)))
    [] mn \in DOMAIN LOAD ->
         When(Memory(a, "x"),
              WordI(OP.LOAD, a[1].v, LOAD[mn], a[3].v, a[2].v % 4096))
    [] mn \in DOMAIN STORE ->
         When(Memory(a, "x"), s_type(OP.STORE, STORE[mn], a))
    [] mn \in DOMAIN BRANCH ->
         When(Regs(a, <<"x", "x">>) /\ Signed(a[3], 13) /\ Even(a[3]),
              branch(BRANCH[mn], a))
    [] mn = "jal" ->
         When(Regs(a, <<"x">>) /\ Signed(a[2], 21) /\ Even(a[2]), jal(a))
    [] mn = "jalr" ->
         When(Memory(a, "x"), WordI(OP.JALR, a[1].v, 0, a[3].v, a[2].v % 4096))
    [] mn \in {"lui", "auipc"} ->
         When(Regs(a, <<"x">>) /\ Unsigned(a[2], 20),
              u_type(IF mn = "lui" THEN OP.LUI ELSE OP.AUIPC, a))

EncodeSystem(mn, a) ==
  CASE mn \in {"csrrw", "csrrs", "csrrc"} ->
         When(Regs(<<a[1], a[3]>>, <<"x", "x">>) /\ csr_lookup(a[2]),
              WordI(OP.SYSTEM, a[1].v, CSR_OP[mn], a[3].v, a[2].v % 4096))
    [] mn \in {"csrrwi", "csrrsi", "csrrci"} ->
         When(Regs(a, <<"x">>) /\ csr_lookup(a[2]) /\ Unsigned(a[3], 5),
              WordI(OP.SYSTEM, a[1].v, CSR_OP[mn], a[3].v, a[2].v % 4096))
    [] mn \in DOMAIN SYSTEM_IMM12 -> WordI(OP.SYSTEM, 0, 0, 0, SYSTEM_IMM12[mn])
    [] mn = "sfence.vma" ->
         When(\A i \in DOMAIN a : reg(a[i]),
              Word(OP.SYSTEM, 0, 0, IF Len(a) > 0 THEN a[1].v ELSE 0,
                   IF Len(a) > 1 THEN a[2].v ELSE 0, FUNCT7_SFENCE_VMA))
    [] mn = "fence" -> WordI(OP.MISC_MEM, 0, 0, 0, 255)

EncodeFloat(mn, a) ==
  CASE mn = "flw" -> When(Memory(a, "f"),
                          WordI(OP.LOAD_FP, a[1].v, 2, a[3].v, a[2].v % 4096))
    [] mn = "fsw" -> When(Memory(a, "f"), s_type(OP.STORE_FP, 2, a))
    [] mn \in DOMAIN FP_ARITH ->
         When(Regs(a, <<"f", "f", "f">>),
              fp_type(FP_ARITH[mn], a[1].v, a[2].v, a[3].v, parse_rm(a, 3)))
    [] mn = "fsqrt.s" ->
         When(Regs(a, <<"f", "f">>),
              fp_type(FUNCT5_FSQRT, a[1].v, a[2].v, 0, parse_rm(a, 2)))
    [] mn \in DOMAIN FP_PLAIN ->
         When(Regs(a, <<IF mn \in FP_CMP THEN "x" ELSE "f", "f", "f">>),
              fp_type(FP_PLAIN[mn][1], a[1].v, a[2].v, a[3].v, FP_PLAIN[mn][2]))
    [] mn \in DOMAIN FP_CVT ->
         When(Regs(a, IF mn \in ToInteger THEN <<"x", "f">> ELSE <<"f", "x">>),
              fp_type(FP_CVT[mn][1], a[1].v, a[2].v, FP_CVT[mn][2],
                      parse_rm(a, 2)))
    [] mn \in DOMAIN FP_MOVE ->
         When(Regs(a, IF mn \in ToInteger THEN <<"x", "f">> ELSE <<"f", "x">>),
              fp_type(FP_MOVE[mn][1], a[1].v, a[2].v, 0, FP_MOVE[mn][2]))
    [] mn \in DOMAIN MADD_OPCODES ->
         When(Regs(a, <<"f", "f", "f", "f">>),
              Word(MADD_OPCODES[mn], a[1].v, parse_rm(a, 4), a[2].v, a[3].v,
                   4 * a[4].v))

FloatMnemonics == {"flw", "fsw", "fsqrt.s"} \cup DOMAIN FP_ARITH
  \cup DOMAIN FP_PLAIN \cup DOMAIN FP_CVT \cup DOMAIN FP_MOVE
  \cup DOMAIN MADD_OPCODES
SystemMnemonics == {"sfence.vma", "fence"} \cup DOMAIN CSR_OP
  \cup DOMAIN SYSTEM_IMM12

Encode(st, xlen) ==
  IF st.mn \in FloatMnemonics THEN EncodeFloat(st.mn, st.args)
  ELSE IF st.mn \in SystemMnemonics THEN EncodeSystem(st.mn, st.args)
  ELSE EncodeInteger(st.mn, st.args, xlen)

-----------------------------------------------------------------------------
(***************************************************************************)
(* What both readers take from a word.                                     *)
(***************************************************************************)
ImmI(w) == Sext(Imm12(w), 12)
ImmS(w) == Sext(32 * w.f7 + w.rd, 12)
OffsetB(w) == Sext(4096 * (w.f7 \div 64) + 2048 * (w.rd % 2) +
                   32 * (w.f7 % 64) + 2 * (w.rd \div 2), 13)
OffsetJ(w) ==
  Sext(2^20 * (w.f7 \div 64) + 4096 * (8 * w.rs1 + w.f3) +
       2048 * (w.rs2 % 2) + 2 * (16 * (w.f7 % 64) + (w.rs2 \div 2)), 21)
ImmU(w) == 8192 * w.f7 + 256 * w.rs2 + 8 * w.rs1 + w.f3
Zero(w) == w = Word(0, 0, 0, 0, 0, 0)

\* The statement with a word's registers, when the reader has a name for it.
Named(mn, args) == IF mn = "?" THEN Unknown ELSE Stmt(mn, args)
XXX(mn, w) == Named(mn, <<X(w.rd), X(w.rs1), X(w.rs2)>>)
XXI(mn, w, i) == Named(mn, <<X(w.rd), X(w.rs1), I(i)>>)
Loads(mn, r, w) == Named(mn, <<r, I(ImmI(w)), X(w.rs1)>>)
Stores(mn, r, w) == Named(mn, <<r, I(ImmS(w)), X(w.rs1)>>)
FFF(mn, w, rm) == Named(mn, <<F(w.rd), F(w.rs1), F(w.rs2)>> \o rm)

(***************************************************************************)
(* iss.py: the operation ISS.step carries out, named by its mnemonic.  It  *)
(* tests the fields in this order; a word it has no operation for raises   *)
(* ValueError or traps (Unknown).                                          *)
(***************************************************************************)
IssR(w) ==
  CASE w.f7 = 1 -> <<"mul", "mulh", "mulhsu", "mulhu",
                     "div", "divu", "rem", "remu">>[w.f3 + 1]
    [] w.f7 = 32 /\ w.f3 = 7 -> "ctz"
    [] w.f3 = 0 /\ w.f7 = 0 -> "add"
    [] w.f3 = 0 /\ w.f7 = 32 -> "sub"
    [] w.f3 = 5 /\ w.f7 = 0 -> "srl"
    [] w.f3 = 5 /\ w.f7 = 32 -> "sra"
    [] w.f7 # 1 /\ ~(w.f7 = 32 /\ w.f3 = 7) /\ w.f3 \notin {0, 5} ->
         <<"sll", "slt", "sltu", "xor", "?", "or", "and">>[w.f3]
    [] OTHER -> "?"

IssOp32(w) ==
  CASE w.f7 = 1 -> <<"mulw", "remuw", "remuw", "remuw",
                     "divw", "divuw", "remw", "remuw">>[w.f3 + 1]
    [] w.f7 = 0 /\ w.f3 = 0 -> "addw"
    [] w.f7 = 32 /\ w.f3 = 0 -> "subw"
    [] w.f7 # 1 /\ w.f3 = 1 -> "sllw"
    [] w.f7 = 0 /\ w.f3 = 5 -> "srlw"
    [] w.f7 = 32 /\ w.f3 = 5 -> "sraw"
    [] OTHER -> "?"

\* The amount of an immediate shift, and what tells srai from srli.
IssShamt(w, xlen) == Imm12(w) % (IF xlen >= 64 THEN 64 ELSE 32)
IssAlt(w, xlen) == IF xlen >= 64 THEN Imm12(w) \div 64 = 16 ELSE w.f7 = 32
IssI(w, xlen) ==
  CASE w.f3 = 1 -> XXI("slli", w, IssShamt(w, xlen))
    [] w.f3 = 5 -> XXI(IF IssAlt(w, xlen) THEN "srai" ELSE "srli",
                       w, IssShamt(w, xlen))
    [] OTHER -> XXI(<<"addi", "?", "slti", "sltiu", "xori", "?",
                      "ori", "andi">>[w.f3 + 1], w, ImmI(w))

IssImm32(w) ==
  CASE w.f3 = 1 -> XXI("slliw", w, w.rs2)
    [] w.f3 = 5 -> XXI(IF w.f7 = 32 THEN "sraiw" ELSE "srliw", w, w.rs2)
    [] w.f3 = 0 -> XXI("addiw", w, ImmI(w))
    [] OTHER -> Unknown

IssSystem(w) ==
  IF w.f3 = 0
  THEN IF w.f7 = 9 THEN Stmt("sfence.vma", <<X(w.rs1), X(w.rs2)>>)
       ELSE CASE Imm12(w) = 0 -> Stmt("ecall", <<>>)
              [] Imm12(w) = 1 -> Stmt("ebreak", <<>>)
              [] Imm12(w) = 770 -> Stmt("mret", <<>>)
              [] Imm12(w) = 258 -> Stmt("sret", <<>>)
              [] OTHER -> Unknown
  ELSE IF w.f3 >= 4
  THEN Stmt(<<"csrrci", "csrrwi", "csrrsi", "csrrci">>[w.f3 - 3],
            <<X(w.rd), Csr(Imm12(w)), I(w.rs1)>>)
  ELSE Stmt(<<"csrrw", "csrrs", "csrrc">>[w.f3],
            <<X(w.rd), Csr(Imm12(w)), X(w.rs1)>>)

IssFloat(w) ==
  LET funct5 == w.f7 \div 4
      rm == <<Rm(w.f3)>>
      First3(names) == names[IF w.f3 > 2 THEN 3 ELSE w.f3 + 1]
      unsigned == w.rs2 = 1
  IN CASE funct5 \in 0 .. 3 ->
            FFF(<<"fadd.s", "fsub.s", "fmul.s", "fdiv.s">>[funct5 + 1], w, rm)
       [] funct5 = 11 -> Stmt("fsqrt.s", <<F(w.rd), F(w.rs1)>> \o rm)
       [] funct5 = 4 ->
            FFF(First3(<<"fsgnj.s", "fsgnjn.s", "fsgnjx.s">>), w, <<>>)
       [] funct5 = 5 -> FFF(First3(<<"fmin.s", "fmax.s", "fmax.s">>), w, <<>>)
       [] funct5 = 20 ->
            Stmt(IF w.f3 = 2 THEN "feq.s" ELSE IF w.f3 = 1 THEN "flt.s"
                 ELSE "fle.s", <<X(w.rd), F(w.rs1), F(w.rs2)>>)
       [] funct5 = 24 -> Stmt(IF unsigned THEN "fcvt.wu.s" ELSE "fcvt.w.s",
                              <<X(w.rd), F(w.rs1)>> \o rm)
       [] funct5 = 26 -> Stmt(IF unsigned THEN "fcvt.s.wu" ELSE "fcvt.s.w",
                              <<F(w.rd), X(w.rs1)>> \o rm)
       [] funct5 = 28 -> Stmt(IF w.f3 = 1 THEN "fclass.s" ELSE "fmv.x.w",
                              <<X(w.rd), F(w.rs1)>>)
       [] funct5 = 30 -> Stmt("fmv.w.x", <<F(w.rd), X(w.rs1)>>)
       [] OTHER -> Unknown

\* The two bits op2 negate the product and the addend.
IssMadd(w) ==
  LET op2 == (w.op \div 4) % 4
      neg_prod == op2 \div 2 = 1
      neg_addend == op2 % 2 = 1
  IN  FFF(CASE ~neg_prod /\ ~neg_addend -> "fmadd.s"
            [] ~neg_prod /\ neg_addend -> "fmsub.s"
            [] neg_prod /\ ~neg_addend -> "fnmsub.s"
            [] neg_prod /\ neg_addend -> "fnmadd.s",
          w, <<F(w.f7 \div 4), Rm(w.f3)>>)

IssDecode(w, xlen) ==
  CASE Zero(w) -> Stmt("skip", <<>>)
    [] w.op = 51 -> IF IssR(w) = "ctz" THEN Stmt("ctz", <<X(w.rd), X(w.rs1)>>)
                    ELSE XXX(IssR(w), w)
    [] w.op = 59 -> XXX(IssOp32(w), w)
    [] w.op = 42 -> Stmt("ctz", <<X(w.rd), X(w.rs1)>>)
    [] w.op = 19 -> IssI(w, xlen)
    [] w.op = 27 -> IssImm32(w)
    [] w.op = 3 -> Loads(<<"lb", "lh", "lw", "ld", "lbu", "lhu", "lwu",
                           "?">>[w.f3 + 1], X(w.rd), w)
    [] w.op = 35 -> Stores(IF w.f3 > 3 THEN "?"
                           ELSE <<"sb", "sh", "sw", "sd">>[w.f3 + 1],
                           X(w.rs2), w)
    [] w.op = 99 -> Stmt(<<"beq", "bne", "ble", "bgt", "blt", "bge", "bltu",
                           "bgeu">>[w.f3 + 1],
                         <<X(w.rs1), X(w.rs2), I(OffsetB(w))>>)
    [] w.op = 111 -> Stmt("jal", <<X(w.rd), I(OffsetJ(w))>>)
    [] w.op = 103 -> Loads("jalr", X(w.rd), w)
    [] w.op = 55 -> Stmt("lui", <<X(w.rd), I(ImmU(w))>>)
    [] w.op = 23 -> Stmt("auipc", <<X(w.rd), I(ImmU(w))>>)
    [] w.op = 115 -> IssSystem(w)
    [] w.op = 7 -> Loads("flw", F(w.rd), w)
    [] w.op = 39 -> Stores("fsw", F(w.rs2), w)
    [] w.op = 83 -> IssFloat(w)
    [] w.op \in {67, 71, 75, 79} -> IssMadd(w)
    [] w.op = 15 /\ w.f3 = 0 -> Stmt("fence", <<>>)
    [] OTHER -> Unknown

-----------------------------------------------------------------------------
(***************************************************************************)
(* disasm.py.  A form it prints with a "?" is Unknown; it has no name for  *)
(* sret, sfence.vma and fence.                                             *)
(***************************************************************************)
NameOf(names, code) == IF code \in DOMAIN names THEN names[code] ELSE "?"

DisMulDiv == <<"mul", "mulh", "mulhsu", "mulhu", "div", "divu", "rem", "remu">>
DisR ==
  <<0, 0>> :> "add" @@ <<32, 0>> :> "sub" @@ <<0, 1>> :> "sll" @@
  <<0, 2>> :> "slt" @@ <<0, 3>> :> "sltu" @@ <<0, 4>> :> "xor" @@
  <<0, 5>> :> "srl" @@ <<32, 5>> :> "sra" @@ <<0, 6>> :> "or" @@
  <<0, 7>> :> "and"
DisI == 0 :> "addi" @@ 2 :> "slti" @@ 3 :> "sltiu" @@ 4 :> "xori" @@
        6 :> "ori" @@ 7 :> "andi"
DisOp32 ==
  <<1, 0>> :> "mulw" @@ <<1, 4>> :> "divw" @@ <<1, 5>> :> "divuw" @@
  <<1, 6>> :> "remw" @@ <<1, 7>> :> "remuw" @@ <<0, 0>> :> "addw" @@
  <<32, 0>> :> "subw" @@ <<0, 1>> :> "sllw" @@ <<0, 5>> :> "srlw" @@
  <<32, 5>> :> "sraw"
DisLoad == <<"lb", "lh", "lw", "ld", "lbu", "lhu", "lwu">>
DisBranch == <<"beq", "bne", "ble", "bgt", "blt", "bge", "bltu", "bgeu">>
DisSystem == 0 :> "ecall" @@ 1 :> "ebreak" @@ 770 :> "mret"
DisCsr == <<"csrrw", "csrrs", "csrrc", "?", "csrrwi", "csrrsi", "csrrci">>
DisMadd == 67 :> "fmadd.s" @@ 71 :> "fmsub.s" @@ 75 :> "fnmsub.s" @@
           79 :> "fnmadd.s"
DisArith == 0 :> "fadd.s" @@ 1 :> "fsub.s" @@ 2 :> "fmul.s" @@ 3 :> "fdiv.s"
DisPlain == <<4, 0>> :> "fsgnj.s" @@ <<4, 1>> :> "fsgnjn.s" @@
            <<4, 2>> :> "fsgnjx.s" @@ <<5, 0>> :> "fmin.s" @@ <<5, 1>> :> "fmax.s"
DisCmp == 0 :> "fle.s" @@ 1 :> "flt.s" @@ 2 :> "feq.s"

\* slli, srli and srai: the split of inst[31:20] depends on xlen; the "w"
\* forms always have five bits.
DisShift(w, narrow, xlen) ==
  LET wide == xlen >= 64 /\ narrow = ""
      alt == IF wide THEN Imm12(w) \div 64 = 16 ELSE w.f7 = 32
      shamt == IF wide THEN Imm12(w) % 64 ELSE w.rs2
      names == IF narrow = "w" THEN <<"slliw", "srliw", "sraiw">>
               ELSE <<"slli", "srli", "srai">>
  IN  XXI(names[IF w.f3 = 1 THEN 1 ELSE IF alt THEN 3 ELSE 2], w, shamt)

DisFloat(w) ==
  LET funct5 == w.f7 \div 4
      rm == <<Rm(w.f3)>>
      unsigned == w.rs2 = 1
  IN CASE funct5 \in DOMAIN DisArith -> FFF(DisArith[funct5], w, rm)
       [] funct5 = 11 -> Stmt("fsqrt.s", <<F(w.rd), F(w.rs1)>> \o rm)
       [] funct5 \in {4, 5} -> FFF(NameOf(DisPlain, <<funct5, w.f3>>), w, <<>>)
       [] funct5 = 20 -> Named(NameOf(DisCmp, w.f3),
                               <<X(w.rd), F(w.rs1), F(w.rs2)>>)
       [] funct5 = 24 -> Stmt(IF unsigned THEN "fcvt.wu.s" ELSE "fcvt.w.s",
                              <<X(w.rd), F(w.rs1)>> \o rm)
       [] funct5 = 26 -> Stmt(IF unsigned THEN "fcvt.s.wu" ELSE "fcvt.s.w",
                              <<F(w.rd), X(w.rs1)>> \o rm)
       [] funct5 = 28 -> Stmt(IF w.f3 = 1 THEN "fclass.s" ELSE "fmv.x.w",
                              <<X(w.rd), F(w.rs1)>>)
       [] funct5 = 30 -> Stmt("fmv.w.x", <<F(w.rd), X(w.rs1)>>)
       [] OTHER -> Unknown

disasm(w, xlen) ==
  CASE w = WordI(19, 0, 0, 0, 0) -> Stmt("nop", <<>>)
    [] w.op = 51 -> IF w.f7 = 1 THEN XXX(DisMulDiv[w.f3 + 1], w)
                    ELSE IF w.f7 = 32 /\ w.f3 = 7
                    THEN Stmt("ctz", <<X(w.rd), X(w.rs1)>>)
                    ELSE XXX(NameOf(DisR, <<w.f7, w.f3>>), w)
    [] w.op = 19 /\ w # WordI(19, 0, 0, 0, 0) ->
         IF w.f3 \in {1, 5} THEN DisShift(w, "", xlen)
         ELSE XXI(NameOf(DisI, w.f3), w, ImmI(w))
    [] w.op = 59 -> XXX(NameOf(DisOp32, <<w.f7, w.f3>>), w)
    [] w.op = 27 -> IF w.f3 \in {1, 5} THEN DisShift(w, "w", xlen)
                    ELSE XXI(NameOf(0 :> "addiw", w.f3), w, ImmI(w))
    [] w.op = 3 -> Loads(NameOf(DisLoad, w.f3 + 1), X(w.rd), w)
    [] w.op = 35 -> Stores(NameOf(<<"sb", "sh", "sw", "sd">>, w.f3 + 1),
                           X(w.rs2), w)
    [] w.op = 99 -> Stmt(DisBranch[w.f3 + 1],
                         <<X(w.rs1), X(w.rs2), I(OffsetB(w))>>)
    [] w.op = 111 -> Stmt("jal", <<X(w.rd), I(OffsetJ(w))>>)
    [] w.op = 103 -> Loads("jalr", X(w.rd), w)
    [] w.op = 55 -> Stmt("lui", <<X(w.rd), I(ImmU(w))>>)
    [] w.op = 23 -> Stmt("auipc", <<X(w.rd), I(ImmU(w))>>)
    [] w.op = 42 -> Stmt("ctz", <<X(w.rd), X(w.rs1)>>)
    [] w.op = 115 ->
         IF w.f3 = 0 THEN Named(NameOf(DisSystem, Imm12(w)), <<>>)
         ELSE Named(DisCsr[w.f3],
                    <<X(w.rd), Csr(Imm12(w)),
                      IF w.f3 >= 4 THEN I(w.rs1) ELSE X(w.rs1)>>)
    [] w.op = 7 -> Loads("flw", F(w.rd), w)
    [] w.op = 39 -> Stores("fsw", F(w.rs2), w)
    [] w.op \in DOMAIN DisMadd ->
         FFF(DisMadd[w.op], w, <<F(w.f7 \div 4), Rm(w.f3)>>)
    [] w.op = 83 -> DisFloat(w)
    [] OTHER -> Unknown

-----------------------------------------------------------------------------
(***************************************************************************)
(* Words in memory images: asm.write_mem writes the least significant byte *)
(* first, as InstructionMemory.v and readmemb of the test bench expect;    *)
(* load_words (debugger.py, bench_runner.py, run_random_tests.py) reads    *)
(* the four bytes of a word most significant first.                        *)
(***************************************************************************)
Bytes(w) == <<w.op + 128 * (w.rd % 2),
              (w.rd \div 2) + 16 * w.f3 + 128 * (w.rs1 % 2),
              (w.rs1 \div 2) + 16 * (w.rs2 % 16),
              (w.rs2 \div 16) + 2 * w.f7>>
OfBytes(b) == Word(b[1] % 128, 2 * (b[2] % 16) + (b[1] \div 128),
                   (b[2] \div 16) % 8, 2 * (b[3] % 16) + (b[2] \div 128),
                   16 * (b[4] % 2) + (b[3] \div 16), b[4] \div 2)
MemFits(words, size) == 4 * Len(words) <= size
write_mem(words, size) ==
  [i \in 1 .. size |->
     IF i > 4 * Len(words) THEN 0
     ELSE Bytes(words[((i - 1) \div 4) + 1])[((i - 1) % 4) + 1]]
load_words(bytes) ==
  [k \in 1 .. Len(bytes) \div 4 |->
     OfBytes([j \in 1 .. 4 |-> bytes[4 * k + 1 - j]])]
\* The word the instruction memory fetches at index k.
Fetched(bytes, k) == OfBytes(SubSeq(bytes, 4 * k - 3, 4 * k))

=============================================================================
