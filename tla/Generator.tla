------------------------------ MODULE Generator ------------------------------
(***************************************************************************)
(* The generator of random test programs (sim/tools/random_gen.py).  A     *)
(* session s is a call of gen_program: n instructions of the given kinds   *)
(* in a memory of mem_size bytes, with a mode: "none", the interrupt       *)
(* source ("timer", "uart", "msi", "both") or "mmu", which with xlen 64    *)
(* (an Sv39 table) is left out.                                            *)
(*                                                                         *)
(* The text of a program is a sequence of statements; a label on a line of *)
(* its own is the statement "label".  A random choice is a choice from the *)
(* set it is drawn from; when a program has several instructions, from a   *)
(* sample of it (Pool).                                                    *)
(***************************************************************************)
EXTENDS Encoding, FiniteSetsExt, SequencesExt

CONSTANT FLOAT_SEED_BITS    \* the patterns the float registers start with

L(k) == [k |-> "l", v |-> k]
Label(k) == Stmt("label", <<L(k)>>)
IsLabel(line) == line.mn = "label"
Halt == -1          \* __halt
Handler == -2       \* handler

BASE_REG == 31
\* Mutant: the base pointer is one of the registers a program may write.
GP_REGS_WithBase == 1 .. 31
GP_REGS == 1 .. 30
InterruptModes == {"timer", "uart", "msi", "both"}

Xlui(rd, v) == Stmt("lui", <<X(rd), I(v)>>)
Xaddi(rd, rs, v) == Stmt("addi", <<X(rd), X(rs), I(v)>>)
Xsw(rs, off, base) == Stmt("sw", <<X(rs), I(off), X(base)>>)
Xcsrrw(addr, rs) == Stmt("csrrw", <<X(0), Csr(addr), X(rs)>>)
Xshift(mn, r) == Stmt(mn, <<X(r), X(r), I(32)>>)

\* lui and addi for a 32-bit constant, here signed.
const_to_reg_instrs(rd, bits32) ==
  LET lo == bits32 % 4096
      hi == (bits32 \div 4096) % 2^20
      up == IF lo >= 2048 THEN (hi + 1) % 2^20 ELSE hi
  IN  <<Xlui(rd, up)>> \o
      IF lo = 0 THEN <<>> ELSE <<Xaddi(rd, rd, Sext(lo, 12))>>

const64_to_reg_instrs(rd, rd_scratch, hi32, lo32) ==
  const_to_reg_instrs(rd, hi32) \o <<Xshift("slli", rd)>> \o
  const_to_reg_instrs(rd_scratch, lo32) \o
  <<Xshift("slli", rd_scratch), Xshift("srli", rd_scratch),
    Stmt("or", <<X(rd), X(rd), X(rd_scratch)>>)>>

(***************************************************************************)
(* The budget: what the program may cost at most, in words.                *)
(***************************************************************************)
source_cost == [none |-> 0, timer |-> 4, uart |-> 3, msi |-> 3, both |-> 7]
budget(s) ==
  LET seeds == 2 * Len(FLOAT_SEED_BITS) + (IF s.xlen >= 64 THEN 8 ELSE 0)
      prefix == IF s.mode = "mmu" THEN (IF s.xlen >= 64 THEN 24 ELSE 13)
                ELSE IF s.mode = "none" THEN 0
                ELSE 5 + source_cost[s.mode] + 2
  IN  1 + seeds + s.n + 1 + prefix
WithinBudget(s) == budget(s) <= s.mem_size \div 4

\* Where the body may access memory.
addr_space(s) == IF s.mode = "mmu" THEN Min({s.mem_size, 4096}) ELSE s.mem_size
MaxOffset(s, width) == Min({addr_space(s) - s.base_addr - width, 2047})
\* The first and the last multiple of width up to the maximum.
Offsets(s, width) ==
  LET max_off == MaxOffset(s, width)
  IN  IF max_off < 0 THEN {0} ELSE {0, (max_off \div width) * width}

(***************************************************************************)
(* One random instruction of a kind.                                       *)
(***************************************************************************)
Pool(s, set) == IF s.n = 1 THEN set ELSE {CHOOSE e \in set : TRUE}
Ends(set) == {Min(set), Max(set)}
kind_names(s) ==
  s.kinds \ ((IF s.mode = "mmu" THEN {"csr"} ELSE {}) \cup
             (IF s.xlen >= 64 THEN {} ELSE {"rw", "iw"}))
csr_names_pool(s) ==
  IF s.mode \in InterruptModes THEN {832} ELSE {768, 773, 832, 833, 834}

load_widths(s) == [lb |-> 1, lbu |-> 1, lh |-> 2, lhu |-> 2, lw |-> 4] @@
                  IF s.xlen >= 64 THEN [lwu |-> 4, ld |-> 8] ELSE <<>>
store_widths(s) == [sb |-> 1, sh |-> 2, sw |-> 4] @@
                   IF s.xlen >= 64 THEN [sd |-> 8] ELSE <<>>
FpKinds(mn) ==
  CASE mn \in DOMAIN FP_ARITH -> <<"f", "f", "f", "rm">>
    [] mn = "fsqrt.s" -> <<"f", "f", "rm">>
    [] mn \in DOMAIN MADD_OPCODES -> <<"f", "f", "f", "f", "rm">>
    [] mn \in FP_CMP -> <<"x", "f", "f">>
    [] mn \in DOMAIN FP_PLAIN \ FP_CMP -> <<"f", "f", "f">>
    [] mn \in {"fcvt.w.s", "fcvt.wu.s"} -> <<"x", "f", "rm">>
    [] mn \in {"fcvt.s.w", "fcvt.s.wu"} -> <<"f", "x", "rm">>
FpMnemonics == FloatMnemonics \ ({"flw", "fsw"} \cup DOMAIN FP_MOVE)
CsrItems(s, names) ==
  {Stmt(mn, <<X(rd), Csr(c), X(rs1)>>) :
     mn \in Pool(s, {"csrrw", "csrrs", "csrrc"}), c \in names,
     rd \in Ends(GP_REGS), rs1 \in {1}} \cup
  {Stmt(mn, <<X(rd), Csr(c), I(uimm)>>) :
     mn \in Pool(s, {"csrrwi", "csrrsi", "csrrci"}), c \in names,
     rd \in {1}, uimm \in {0, 31}}

\* A target is chosen later, in the second pass: L(0) until then.
Items(s, kind) ==
  LET gp == Ends(GP_REGS)
      R(mns) == {Stmt(mn, <<X(rd), X(1), X(30)>>) : mn \in Pool(s, mns), rd \in gp}
      Imm(mns, imms) == {Stmt(mn, <<X(rd), X(1), I(i)>>) :
                           mn \in Pool(s, mns), rd \in gp, i \in imms}
      Mem(r, widths) == UNION {{Stmt(mn, <<r, I(off), X(BASE_REG)>>) :
                                  off \in Offsets(s, widths[mn])} :
                               mn \in Pool(s, DOMAIN widths)}
  IN CASE kind = "r" -> R(DOMAIN R_TYPE)
       [] kind = "rw" -> R(DOMAIN R_TYPE_W)
       [] kind = "i" -> Imm(DOMAIN I_TYPE \ Shifts, {-2048, 2047})
       [] kind = "iw" -> Imm(DOMAIN I_TYPE_W, {31})
       [] kind = "shift" -> Imm({"slli", "srli", "srai"}, {0, s.xlen - 1})
       [] kind = "load" -> UNION {Mem(X(rd), load_widths(s)) : rd \in gp}
       [] kind = "store" -> Mem(X(1), store_widths(s))
       [] kind = "fload" -> Mem(F(1), "flw" :> 4)
       [] kind = "fstore" -> Mem(F(1), "fsw" :> 4)
       [] kind = "branch" -> {Stmt(mn, <<X(1), X(30), L(0)>>) :
                                mn \in Pool(s, DOMAIN BRANCH)}
       [] kind = "jal" -> {Stmt("jal", <<X(rd), L(0)>>) : rd \in gp}
       [] kind = "csr" -> CsrItems(s, csr_names_pool(s))
       [] kind = "fcsr" -> CsrItems(s, {1, 2, 3})
       [] kind = "fp" -> {Stmt(mn, [i \in DOMAIN FpKinds(mn) |->
                                      [k |-> FpKinds(mn)[i], v |-> 1]]) :
                            mn \in Pool(s, FpMnemonics)}

-----------------------------------------------------------------------------
(***************************************************************************)
(* The second pass: target[c] is the label that the branch or jal with     *)
(* number c goes to.  A label is put before the instruction it names when  *)
(* an earlier one goes there, and the last one once more at the end.       *)
(***************************************************************************)
Jumps(instrs) == {c \in DOMAIN instrs : instrs[c].mn \in DOMAIN BRANCH \cup {"jal"}}
Targets(c, n) == Min({c + 1, n}) .. n
Resolved(st, k) == Stmt(st.mn, [i \in DOMAIN st.args |->
                     IF st.args[i].k = "l" THEN L(k) ELSE st.args[i]])
LabelIf(test, k) == IF test THEN <<Label(k)>> ELSE <<>>

Core(instrs, target) ==
  LET n == Len(instrs)
      used(k, upto) == \E c \in DOMAIN target : c <= upto /\ target[c] = k
      line(c) == IF c \in DOMAIN target THEN Resolved(instrs[c], target[c])
                 ELSE instrs[c]
  IN  FlattenSeq([c \in 1 .. n |->
        <<line(c)>> \o LabelIf(used(c + 1, c), c + 1)]) \o
      LabelIf(used(n, n), n) \o
      <<Stmt("fence", <<>>), Label(Halt), Stmt("jal", <<X(0), L(Halt)>>)>>

Seeds(s) ==
  <<Xaddi(BASE_REG, 0, s.base_addr)>> \o
  FlattenSeq([i \in DOMAIN FLOAT_SEED_BITS |->
    const_to_reg_instrs(30, FLOAT_SEED_BITS[i]) \o
    <<Stmt("fmv.w.x", <<F(i), X(30)>>)>>]) \o
  IF s.xlen >= 64 THEN const64_to_reg_instrs(29, 30, -559038737, 305419896)
  ELSE <<>>

(***************************************************************************)
(* The prefixes.  The mmu one builds an identity mapping of page 0 in      *)
(* machine mode and leaves to the program in user mode; the one of an      *)
(* interrupt mode arms the source.  k is interrupt_k.                      *)
(***************************************************************************)
sv32_prefix(mepc) ==
  const_to_reg_instrs(1, 1025) \o <<Xsw(1, 0, 0), Xlui(3, 1)>> \o
  const_to_reg_instrs(2, 31) \o <<Xsw(2, 0, 3), Stmt("fence", <<>>)>> \o
  <<Xlui(1, 524288), Xcsrrw(384, 1), Xaddi(1, 0, mepc), Xcsrrw(833, 1),
    Stmt("mret", <<>>)>>

Arm(mode, k) ==
  LET timer == const_to_reg_instrs(7, 100 + k * 10) \o <<Xsw(7, 0, 2)>>
      uart == <<Xaddi(8, 0, 1), Xsw(8, 4, 1)>>
  IN CASE mode = "timer" -> timer
       [] mode = "uart" -> uart
       [] mode = "msi" -> <<Xaddi(7, 0, 1), Xsw(7, 0, 2)>>
       [] mode = "both" -> timer \o uart
Bases == [timer |-> <<Xlui(2, 65796)>>, uart |-> <<Xlui(1, 65536)>>,
          msi |-> <<Xlui(2, 65792)>>, both |-> <<Xlui(1, 65536), Xlui(2, 65796)>>]
mie_value == [timer |-> 128, uart |-> -2048, msi |-> 8, both |-> -1920]
interrupt_prefix(mode, k, mtvec) ==
  Bases[mode] \o
  <<Xaddi(5, 0, mtvec), Xcsrrw(773, 5), Xaddi(6, 0, mie_value[mode]),
    Xcsrrw(772, 6)>> \o Arm(mode, k) \o
  <<Stmt("csrrsi", <<X(0), Csr(768), I(8)>>)>>
\* Mutant: the handler does not disable the source.
handler_LeavesMie == <<Label(Handler), Stmt("mret", <<>>)>>
handler == <<Label(Handler), Xcsrrw(772, 0), Stmt("mret", <<>>)>>

InstrCount(text) == Len(SelectSeq(text, LAMBDA line : ~IsLabel(line)))

gen_program(s, instrs, target, k) ==
  LET out == Seeds(s) \o Core(instrs, target)
      at(count) == 4 * count
  IN CASE s.mode = "none" -> out
       [] s.mode = "mmu" -> sv32_prefix(at(InstrCount(sv32_prefix(0)))) \o out
       [] s.mode \in InterruptModes ->
            interrupt_prefix(s.mode, k,
              at(InstrCount(interrupt_prefix(s.mode, k, 0)) + InstrCount(out)))
            \o out \o handler

=============================================================================
