--------------------------------- MODULE Alu ---------------------------------
(***************************************************************************)
(* The path of an instruction word through the decoder and the             *)
(* single-cycle execute unit of the processor: Control.v, ImmGen.v,        *)
(* ALUCtrl.v and ALU.v.  A word is the record of its fields (Encoding);    *)
(* xlen is the build parameter XLEN, which the decoder compares with 64,   *)
(* xl the width of the data path and wl that of the word forms.  The       *)
(* divide and remainder operations leave the ALU for the Divider.          *)
(***************************************************************************)
EXTENDS Integers, Bitwise, TLC

LOCAL Signed(v, w) == LET u == v % 2^w IN IF u >= 2^(w - 1) THEN u - 2^w ELSE u

(***************************************************************************)
(* Control.v: what an instruction asks of the execute stage, and whether   *)
(* its opcode traps.  A SYSTEM instruction is known by its function, then  *)
(* by inst[31:20] (sfence.vma by funct7); the word forms need a 64-bit     *)
(* build.  The signals of memory, CSRs and writeback are left out.         *)
(***************************************************************************)
Control(w, xlen) ==
  LET wide == xlen >= 64
      system == 32 * w.f7 + w.rs2     \* ecall, ebreak, mret, sret
  IN  [ALUOp |-> CASE w.op \in {51, 42} \/ (w.op = 59 /\ wide) -> "rtype"
                   [] w.op = 19 \/ (w.op = 27 /\ wide) -> "itype"
                   [] w.op = 99 -> "branch"
                   [] OTHER -> "load_store",
       ALUSrc |-> w.op \in {3, 7, 19, 23, 35, 39, 47, 55} \/ (w.op = 27 /\ wide),
       branch |-> w.op = 99,
       jump |-> w.op \in {103, 111},
       lui |-> w.op = 55,
       auipc |-> w.op = 23,
       illegalOpcode |->
         CASE w.op \in {27, 59} -> ~wide
           [] w.op = 115 -> w.f3 = 0 /\ w.f7 # 9 /\ system \notin {0, 1, 770, 258}
           [] w.op = 15 -> w.f3 # 0
           [] OTHER -> w.op \notin {3, 7, 19, 23, 35, 39, 42, 47, 51, 55, 67, 71,
                                   75, 79, 83, 99, 103, 111}]

wordOp(w) == w.op \in {59, 27}

(***************************************************************************)
(* ImmGen.v, as the number the extended immediate stands for.  The branch  *)
(* and jal immediates are halved; ShiftLeftOne doubles them.               *)
(***************************************************************************)
ImmGen(w, xlen) ==
  LET imm12 == 32 * w.f7 + w.rs2
      shamt == IF w.op = 19 /\ xlen >= 64 THEN imm12 % 64 ELSE w.rs2
  IN CASE w.op \in {19, 27} ->
            IF w.f3 \in {1, 5} THEN shamt ELSE Signed(imm12, 12)
       [] w.op \in {3, 7, 103} -> Signed(imm12, 12)
       [] w.op \in {35, 39} -> Signed(32 * w.f7 + w.rd, 12)
       [] w.op = 99 -> Signed(2048 * (w.f7 \div 64) + 1024 * (w.rd % 2) +
                              16 * (w.f7 % 64) + (w.rd \div 2), 12)
       [] w.op = 111 -> Signed(2^19 * (w.f7 \div 64) +
                               2048 * (8 * w.rs1 + w.f3) + 1024 * (w.rs2 % 2) +
                               16 * (w.f7 % 64) + (w.rs2 \div 2), 20)
       [] w.op \in {55, 23} ->
            4096 * Signed(2^13 * w.f7 + 256 * w.rs2 + 8 * w.rs1 + w.f3, 20)
       [] w.op = 115 -> imm12
       [] OTHER -> 0
ShiftLeftOne(imm) == 2 * imm

(***************************************************************************)
(* ALUCtrl.v                                                               *)
(***************************************************************************)
RType ==
  <<0, 0>> :> "ADD" @@ <<32, 0>> :> "SUB" @@ <<0, 1>> :> "SLL" @@
  <<0, 2>> :> "SLT" @@ <<0, 3>> :> "SLTU" @@ <<0, 4>> :> "XOR" @@
  <<0, 5>> :> "SRL" @@ <<32, 5>> :> "SRA" @@ <<0, 6>> :> "OR" @@
  <<0, 7>> :> "AND" @@ <<32, 7>> :> "CTZ" @@ <<1, 0>> :> "MUL" @@
  <<1, 1>> :> "MULH" @@ <<1, 2>> :> "MULHSU" @@ <<1, 3>> :> "MULHU" @@
  <<1, 4>> :> "DIV" @@ <<1, 5>> :> "DIVU" @@ <<1, 6>> :> "REM" @@
  <<1, 7>> :> "REMU"
BranchType == <<"BEQ", "BNE", "BLE", "BGT", "BLT", "BGE", "BLTU", "BGEU">>
IType == <<"ADD", "SLL", "SLT", "SLTU", "XOR", "SRL", "OR", "AND">>

ALUCtrl(w, ALUOp) ==
  CASE ALUOp = "load_store" -> "ADD"
    [] ALUOp = "rtype" -> IF <<w.f7, w.f3>> \in DOMAIN RType
                          THEN RType[<<w.f7, w.f3>>] ELSE "ILLEGAL"
    [] ALUOp = "branch" -> BranchType[w.f3 + 1]
    [] ALUOp = "itype" -> IF w.f3 = 5 /\ w.f7 \div 2 = 16 THEN "SRA"
                          ELSE IType[w.f3 + 1]
isDivRem(ALUCtl) == ALUCtl \in {"DIV", "DIVU", "REM", "REMU"}

\* Mutant: >>> on an operand that is not cast to signed.
ShiftRightArithmetic_Uncast(a, width, shamt) == a \div 2^shamt

ShiftRightArithmetic(a, width, shamt) == Signed(a, width) \div 2^shamt

(***************************************************************************)
(* ALU.v: ALUOut.  w32 extends the low wl bits of the word forms.          *)
(***************************************************************************)
ALUOut(ALUCtl, A, B, word, xl, wl) ==
  LET lo == IF word THEN wl ELSE xl
      a == A % 2^lo
      b == B % 2^lo
      shamt == B % lo
      Wide(r) == IF word THEN Signed(r, wl) % 2^xl ELSE r % 2^xl
      High(product) == (product \div 2^xl) % 2^xl
      Ctz == LET zeros == {n \in 0 .. xl - 1 :
                             \A i \in 0 .. n - 1 : (A \div 2^i) % 2 = 0}
             IN  CHOOSE n \in zeros : \A m \in zeros : m <= n
  IN CASE ALUCtl = "ADD" -> Wide(a + b)
       [] ALUCtl = "SUB" -> Wide(a - b)
       [] ALUCtl = "SLL" -> Wide(a * 2^shamt)
       [] ALUCtl = "SRL" -> Wide(a \div 2^shamt)
       [] ALUCtl = "SRA" -> Wide(ShiftRightArithmetic(a, lo, shamt))
       [] ALUCtl = "MUL" -> Wide(a * b)
       [] ALUCtl = "SLT" -> IF Signed(A, xl) < Signed(B, xl) THEN 1 ELSE 0
       [] ALUCtl = "SLTU" -> IF A < B THEN 1 ELSE 0
       [] ALUCtl = "XOR" -> A ^^ B
       [] ALUCtl = "OR" -> A | B
       [] ALUCtl \in {"AND", "BEQ", "BNE", "BLE", "BGT", "BLT", "BGE", "BLTU",
                      "BGEU"} -> A & B
       [] ALUCtl = "MULH" -> High(Signed(A, xl) * Signed(B, xl))
       [] ALUCtl = "MULHSU" -> High(Signed(A, xl) * B)
       [] ALUCtl = "MULHU" -> High(A * B)
       [] ALUCtl = "CTZ" -> Ctz
       [] OTHER -> 0

branch_zero(ALUCtl, A, B, xl) ==
  LET a == Signed(A, xl)
      b == Signed(B, xl)
  IN CASE ALUCtl = "BEQ" -> A = B
       [] ALUCtl = "BNE" -> A # B
       [] ALUCtl = "BLT" -> a < b
       [] ALUCtl = "BGE" -> a >= b
       [] ALUCtl = "BLE" -> a <= b
       [] ALUCtl = "BGT" -> a > b
       [] ALUCtl = "BLTU" -> A < B
       [] ALUCtl = "BGEU" -> A >= B
       [] OTHER -> FALSE

(***************************************************************************)
(* The execute stage of riscvpipeline.v: the first operand is rs1, zero    *)
(* for lui or the pc for auipc, the second the immediate or rs2.           *)
(***************************************************************************)
ExResult(w, pc, A, B, xlen, xl, wl) ==
  LET c == Control(w, xlen)
      aluA == IF c.lui THEN 0 ELSE IF c.auipc THEN pc ELSE A
      operand == IF c.ALUSrc THEN ImmGen(w, xlen) % 2^xl ELSE B
  IN  ALUOut(ALUCtrl(w, c.ALUOp), aluA, operand, wordOp(w), xl, wl)
\* desired_taken, and the illegal instructions of exception_taken.
ExTaken(w, A, B, xlen, xl) ==
  LET c == Control(w, xlen)
  IN  (c.branch /\ branch_zero(ALUCtrl(w, c.ALUOp), A, B, xl)) \/ c.jump
ExIllegal(w, xlen) ==
  LET c == Control(w, xlen)
  IN  c.illegalOpcode \/ ALUCtrl(w, c.ALUOp) = "ILLEGAL"

=============================================================================
