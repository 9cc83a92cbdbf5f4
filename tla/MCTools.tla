------------------------------- MODULE MCTools -------------------------------
(***************************************************************************)
(* Toolflow for TLC: the statements and words to assemble, the sessions of *)
(* the generator and the programs to debug.                                *)
(***************************************************************************)
EXTENDS Toolflow

\* 0xBF800000, -1.0, of the six patterns.
MC_FLOAT_SEED_BITS == <<-1082130432>>

Session(n, mode, xlen, kinds, mem_size) ==
  [n |-> n, mode |-> mode, xlen |-> xlen, kinds |-> kinds,
   mem_size |-> mem_size, base_addr |-> 32]
AllKinds == {"r", "i", "shift", "load", "store", "branch", "jal", "csr", "fp",
             "fload", "fstore", "fcsr", "rw", "iw"}
\* The last two of the first group do not fit: gen_program refuses one, and
\* write_mem the other, whose fence the budget leaves out.
Sessions ==
  {Session(1, mode, 32, AllKinds, 128) : mode \in {"none", "uart"}} \cup
  {Session(1, "none", 64, AllKinds, 128), Session(1, "mmu", 32, AllKinds, 8192),
   Session(3, "none", 32, {"i", "branch", "jal"}, 64),
   Session(2, "none", 32, {"i", "load", "store", "csr"}, 128),
   Session(2, "mmu", 32, {"i", "store", "csr", "branch"}, 8192),
   Session(2, "none", 64, {"load", "store", "rw"}, 64),
   Session(13, "none", 32, {"fp"}, 64), Session(12, "none", 32, {"fp"}, 64)} \cup
  {Session(2, mode, 32, {"i", "csr", "branch", "jal"}, 128) :
     mode \in InterruptModes}

\* Operands at the ends of their ranges and one past them.
Small == {-8, -1, 0, 1, 7}
Imm12s == {-2049, -2048, 2047, 2048} \cup Small
Amounts == {-1, 0, 1, 3, 31, 32, 63, 64}
XX == {<<X(31), X(5)>>, <<X(0), X(16)>>}
Samples ==
  {Stmt(mn, r \o <<X(rs2)>>) : mn \in DOMAIN R_TYPE \cup DOMAIN R_TYPE_W,
                               r \in XX, rs2 \in {1, 30}} \cup
  {Stmt(mn, r \o <<I(i)>>) : mn \in (DOMAIN I_TYPE \cup DOMAIN I_TYPE_W) \ Shifts,
                             r \in XX, i \in Imm12s} \cup
  {Stmt(mn, r \o <<I(i)>>) : mn \in Shifts, r \in XX, i \in Amounts} \cup
  {Stmt("ctz", r) : r \in XX} \cup
  {Stmt(mn, <<X(31), I(i), X(16)>>) :
     mn \in DOMAIN LOAD \cup DOMAIN STORE \cup {"jalr"}, i \in Imm12s} \cup
  {Stmt(mn, <<F(31), I(i), X(16)>>) : mn \in {"flw", "fsw"}, i \in Imm12s} \cup
  {Stmt(mn, <<X(31), X(16), I(i)>>) :
     mn \in DOMAIN BRANCH, i \in {-4096, -2048, -2, 0, 2, 2048, 4094, 4096}} \cup
  {Stmt("jal", <<X(31), I(i)>>) :
     i \in {-(2^20), -4096, -2, 0, 2, 2048, 4096, 2^20 - 2, 2^20}} \cup
  {Stmt(mn, <<X(31), I(i)>>) : mn \in {"lui", "auipc"},
                               i \in {-1, 0, 1, 524288, 2^20 - 1, 2^20}} \cup
  {Stmt(mn, <<X(31), Csr(c), X(16)>>) :
     mn \in {"csrrw", "csrrs", "csrrc"}, c \in {1, 768, 3072}} \cup
  {Stmt(mn, <<X(31), Csr(c), I(i)>>) :
     mn \in {"csrrwi", "csrrsi", "csrrci"}, c \in {1, 768}, i \in {0, 31, 32}} \cup
  {Stmt(mn, <<>>) : mn \in DOMAIN SYSTEM_IMM12 \cup {"nop", "fence", "sfence.vma"}}
  \cup {Stmt("sfence.vma", <<X(5), X(31)>>)}
FpSamples ==
  {Stmt(mn, [i \in DOMAIN FpKinds(mn) |->
               [k |-> FpKinds(mn)[i],
                v |-> IF FpKinds(mn)[i] = "rm" THEN rm ELSE 31 - 7 * (i - 1)]]) :
     mn \in FpMnemonics, rm \in {0, 4, 7}} \cup
  {Stmt("fadd.s", <<F(1), F(2), F(3)>>), Stmt("fsqrt.s", <<F(1), F(2)>>),
   Stmt("fmv.x.w", <<X(1), F(2)>>), Stmt("fclass.s", <<X(1), F(2)>>),
   Stmt("fmv.w.x", <<F(1), X(2)>>)}

\* Every opcode with the funct3, funct7 and rs2 fields that decoders look at.
Opcodes == {OP[o] : o \in DOMAIN OP} \cup {67, 71, 75, 79, 0, 11}
RawText(op, f3) ==
  LET codes == <<0, 1, 9, 16, 20, 24, 32, 33, 44, 80, 96, 104, 112, 120>>
  IN  [i \in 1 .. 3 * Len(codes) |->
         Stmt("word", <<[k |-> "w", v |-> Word(op, 9, f3, 3, (i - 1) % 3,
                                               codes[((i - 1) \div 3) + 1])]>>)]

\* sim/programs/mret_return.s, and the loop of loop_cache_g3.s.
MretReturn ==
  <<Xaddi(5, 0, 28), Xcsrrw(773, 5), Stmt("csrrsi", <<X(0), Csr(768), I(8)>>),
    Stmt("ecall", <<>>), Xaddi(9, 0, 111), Xaddi(9, 0, 222),
    Stmt("jal", <<X(0), L(Halt)>>), Label(Handler), Xaddi(11, 0, 55),
    Stmt("csrrs", <<X(12), Csr(833), X(0)>>), Xaddi(12, 12, 4), Xcsrrw(833, 12),
    Stmt("mret", <<>>), Stmt("fence", <<>>), Label(Halt),
    Stmt("jal", <<X(0), L(Halt)>>)>>
Loop ==
  <<Xaddi(5, 0, 0), Xaddi(6, 0, 5), Label(1), Xaddi(5, 5, 1),
    Stmt("blt", <<X(5), X(6), L(1)>>), Xaddi(10, 0, 999), Stmt("fence", <<>>),
    Label(Halt), Stmt("jal", <<X(0), L(Halt)>>)>>
\* A program without a halt loop, which a branch may leave.
OffTheEnd == <<Stmt("beq", <<X(0), X(0), I(8)>>), Xaddi(1, 0, 1), Xaddi(2, 0, 2)>>

\* A debugger session begins with the text, or with a .mem file that
\* load_words reads as the program.
Start(kind, s, t, at) ==
  /\ task = [kind |-> kind, s |-> s] /\ text = t /\ phase = at

Init ==
  /\ \/ \E st \in Samples \cup FpSamples, xlen \in {32, 64} :
          Start("check", Session(0, "none", xlen, {}, 64), <<st>>, "assemble")
     \/ \E op \in Opcodes, f3 \in 0 .. 7, xlen \in {32, 64} :
          Start("check", Session(0, "none", xlen, {}, 256), RawText(op, f3),
                "assemble")
     \/ \E s \in Sessions : Start("generate", s, <<>>, "budget")
     \/ \E t \in {MretReturn, Loop, OffTheEnd}, at \in {"assemble", "debug"} :
          Start("debug", Session(0, "none", 32, {}, 128), t, at)
  /\ words = IF phase = "debug" THEN assemble(text, 32) ELSE <<>>
  /\ instrs = <<>> /\ interrupted = <<>>
  /\ m = ISS_init(128, 32, NoInterrupt)
  /\ Debugger_init

Spec == Init /\ [][Next]_vars /\ Fairness

=============================================================================
