------------------------------ MODULE Instructions -----------------------------
(***************************************************************************)
(* What one instruction does to the architectural state, as                *)
(* sim/tools/iss.py (the golden model of the random tests) executes it,    *)
(* reduced to one representative per way an instruction uses the pipeline. *)
(*                                                                         *)
(* Registers hold 0..NVAL-1 and program counters are 0..NPC-1, counted in  *)
(* instructions.  Addresses are register values.                           *)
(***************************************************************************)
EXTENDS Integers

CONSTANTS NVAL,        \* number of register values
          NPC,         \* number of program counters
          NREG,        \* number of registers, x0 included
          INSTRETMOD   \* minstret counts modulo this

AllOps == {"li", "alu", "div", "load", "store", "amo", "lr", "sc",
           "beq", "jal", "jalr", "csr", "csrmie", "ecall", "mret", "lpf"}

ASSUME IsaAssumption ==
  /\ NVAL \in Nat \ {0, 1} /\ NPC \in Nat \ {0}
  /\ NREG \in Nat \ {0} /\ INSTRETMOD \in Nat \ {0}

Val == 0 .. (NVAL - 1)
PcSet == 0 .. (NPC - 1)
RegSet == 0 .. (NREG - 1)
Handler == NPC - 1        \* mtvec

(***************************************************************************)
(* Instructions.  A field an instruction kind does not have is 0; beq      *)
(* compares rs1 with x0.                                                   *)
(***************************************************************************)
HasRd == {"li", "alu", "div", "load", "lpf", "amo", "lr", "sc", "jal", "jalr",
          "csr", "csrmie"}
HasRs1 == {"alu", "div", "load", "lpf", "store", "amo", "lr", "sc", "beq",
           "jalr", "csr", "csrmie"}
HasRs2 == {"alu", "div", "store", "amo", "sc"}

FieldsOf(o) == [op  : {o},
                rd  : IF o \in HasRd THEN RegSet ELSE {0},
                rs1 : IF o \in HasRs1 THEN RegSet ELSE {0},
                rs2 : IF o \in HasRs2 THEN RegSet ELSE {0},
                imm : CASE o = "li" -> Val
                        [] o \in {"beq", "jal"} -> PcSet
                        [] OTHER -> {0}]
Encodings == [o \in AllOps |-> FieldsOf(o)]
Inst == UNION {Encodings[o] : o \in AllOps}

(***************************************************************************)
(* sltu, divu and amoadd stand for the combinational, the iterative and    *)
(* the read-modify-write operations.                                       *)
(***************************************************************************)
AluFn(a, b) == IF a < b THEN 1 ELSE 0
DivFn(a, b) == IF b = 0 THEN NVAL - 1 ELSE a \div b
AmoFn(old, b) == (old + b) % NVAL

NextPC(p) == (p + 1) % NPC
LinkVal(p) == NextPC(p) % NVAL       \* the value jal and jalr leave in rd
JumpTo(v) == v % NPC                 \* the target of jalr

(***************************************************************************)
(* Executing one instruction.  Out of reset x2 holds the stack top.        *)
(***************************************************************************)
ResetRegs == [r \in RegSet \ {0} |-> IF r = 2 THEN NVAL - 1 ELSE 0]

ReadReg(s, r) == IF r = 0 THEN 0 ELSE s.regs[r]
WriteReg(s, r, v) == IF r = 0 THEN s ELSE [s EXCEPT !.regs[r] = v]

Trap(s) == [s EXCEPT !.mepc = s.pc, !.pc = Handler,
                     !.mpie = s.mie, !.mie = FALSE]

Exec(i, s) ==
  LET a == ReadReg(s, i.rs1)
      b == ReadReg(s, i.rs2)
      n == [s EXCEPT !.pc = NextPC(@), !.instret = (@ + 1) % INSTRETMOD]
  IN  CASE i.op = "li"     -> WriteReg(n, i.rd, i.imm)
        [] i.op = "alu"    -> WriteReg(n, i.rd, AluFn(a, b))
        [] i.op = "div"    -> WriteReg(n, i.rd, DivFn(a, b))
        [] i.op = "load"   -> WriteReg(n, i.rd, s.mem[a])
        [] i.op = "lr"     -> WriteReg(n, i.rd, s.mem[a])
        [] i.op = "store"  -> [n EXCEPT !.mem[a] = b]
        [] i.op = "amo"    -> WriteReg([n EXCEPT !.mem[a] = AmoFn(@, b)],
                                       i.rd, s.mem[a])
        [] i.op = "sc"     -> WriteReg([n EXCEPT !.mem[a] = b], i.rd, 0)
        [] i.op = "beq"    -> IF a = b THEN [n EXCEPT !.pc = i.imm] ELSE n
        [] i.op = "jal"    -> WriteReg([n EXCEPT !.pc = i.imm],
                                       i.rd, LinkVal(s.pc))
        [] i.op = "jalr"   -> WriteReg([n EXCEPT !.pc = JumpTo(a)],
                                       i.rd, LinkVal(s.pc))
        [] i.op = "csr"    -> WriteReg([n EXCEPT !.scratch = a], i.rd, s.scratch)
        [] i.op = "csrmie" -> WriteReg([n EXCEPT !.mie = (a # 0)], i.rd,
                                       IF s.mie THEN 1 ELSE 0)
        [] i.op = "mret"   -> [n EXCEPT !.pc = s.mepc, !.mie = s.mpie,
                                        !.mpie = TRUE]
        [] i.op \in {"ecall", "lpf"} -> Trap(s)

Arch == [pc : PcSet, regs : [RegSet \ {0} -> Val], mem : [Val -> Val],
         scratch : Val, mie : BOOLEAN, mpie : BOOLEAN, mepc : PcSet,
         instret : 0 .. (INSTRETMOD - 1)]

=============================================================================
