------------------------------- MODULE Toolflow -------------------------------
(***************************************************************************)
(* From a program text to its execution: a text is written (by the random  *)
(* generator, or by hand), the assembler (asm.py, assemble and write_mem)  *)
(* turns it into words and a memory image, and the program is run by the   *)
(* rules of iss.py (ISS.run) or stepped through in the debugger.           *)
(*                                                                         *)
(* task.kind is "check" (the text is only assembled), "generate" or        *)
(* "debug".  What a generated program does is what the core is to do, so   *)
(* its words are the ones the instruction memory fetches from the image    *)
(* (ReadersAgree: the assembler's).  The debugger gets what load_words     *)
(* reads from the image, or from a .mem file (phase "debug" at the start). *)
(***************************************************************************)
EXTENDS Generator, Debugger

LOCAL Rtl == INSTANCE Alu
LOCAL Alu == INSTANCE IssAlu

CONSTANTS MAX_STEPS,  \* max_steps of ISS.run
          MOMENTS     \* bound: when an interrupt comes, counted in steps

VARIABLES
  task,
  phase,        \* "budget", "items", "text", "assemble", "run", "debug",
                \* "done", "refused"
  instrs,       \* gen_program: the instructions of the body
  text,
  interrupted   \* the simulator when the interrupt was taken
vars == <<task, phase, instrs, text, words, m, interrupted, debuggerVars>>

flowVars == <<words, m, interrupted, debuggerVars>>

(***************************************************************************)
(* gen_program                                                             *)
(***************************************************************************)
CheckBudget ==
  /\ phase = "budget"
  /\ phase' = IF WithinBudget(task.s) THEN "items" ELSE "refused"
  /\ UNCHANGED <<task, instrs, text, flowVars>>

AddItem ==
  /\ phase = "items" /\ Len(instrs) < task.s.n
  /\ \E kind \in kind_names(task.s) : \E st \in Items(task.s, kind) :
       instrs' = Append(instrs, st)
  /\ UNCHANGED <<task, phase, text, flowVars>>

WriteText ==
  /\ phase = "items" /\ Len(instrs) = task.s.n
  /\ \E target \in [Jumps(instrs) -> 1 .. task.s.n], k \in {1, task.s.n} :
       /\ \A c \in DOMAIN target : target[c] \in Targets(c, task.s.n)
       /\ text' = gen_program(task.s, instrs, target, k)
  /\ phase' = "assemble"
  /\ UNCHANGED <<task, instrs, flowVars>>

(***************************************************************************)
(* assemble: pass 1 records the labels, the last line of a name counts;    *)
(* pass 2 encodes the statements.                                          *)
(***************************************************************************)
AddressOf(lines, i) ==
  4 * Cardinality({j \in 1 .. i - 1 : ~IsLabel(lines[j])})
\* Mutant: the first line of a name counts.
LabelLine_First(lines, k) == Min({i \in DOMAIN lines : lines[i] = Label(k)})
LabelLine(lines, k) == Max({i \in DOMAIN lines : lines[i] = Label(k)})
resolve(lines, arg, cur_addr) ==
  IF arg.k # "l" THEN arg
  ELSE I(AddressOf(lines, LabelLine(lines, arg.v)) - cur_addr)

Statements(lines) ==
  LET at == SelectSeq([i \in DOMAIN lines |-> i], LAMBDA i : ~IsLabel(lines[i]))
  IN  [j \in DOMAIN at |->
         LET st == lines[at[j]]
         IN  Stmt(st.mn, [i \in DOMAIN st.args |->
                            resolve(lines, st.args[i], 4 * (j - 1))])]
assemble(lines, xlen) ==
  LET stmts == Statements(lines)
  IN  [j \in DOMAIN stmts |->
         IF stmts[j].mn = "word" THEN stmts[j].args[1].v
         ELSE Encode(stmts[j], xlen)]

\* The file write_mem writes.
image == write_mem(words, task.s.mem_size)

Assemble ==
  /\ phase = "assemble"
  /\ LET made == assemble(text, task.s.xlen)
         fails == (\E j \in DOMAIN made : made[j] = Bad)
                  \/ ~MemFits(made, task.s.mem_size)
     IN  IF fails
         THEN phase' = "refused" /\ UNCHANGED <<words, m>>
         ELSE /\ words' = IF task.kind = "debug"
                          THEN load_words(write_mem(made, task.s.mem_size))
                          ELSE made
              /\ \E after \in IF task.s.mode \in InterruptModes THEN MOMENTS
                              ELSE {NoInterrupt} :
                   m' = ISS_init(task.s.mem_size, task.s.xlen, after)
              /\ phase' = CASE task.kind = "check" -> "done"
                            [] task.kind = "generate" -> "run"
                            [] task.kind = "debug" -> "debug"
  /\ UNCHANGED <<task, instrs, text, interrupted, debuggerVars>>

(***************************************************************************)
(* ISS.run                                                                 *)
(***************************************************************************)
RunStep ==
  /\ phase = "run"
  /\ IF m.status = "running" THEN m' \in run(m, words, MAX_STEPS) /\ phase' = phase
     ELSE phase' = "done" /\ UNCHANGED m
  /\ interrupted' = IF m'.event = "interrupt" THEN <<m>> ELSE interrupted
  /\ UNCHANGED <<task, instrs, text, words, debuggerVars>>

Debug ==
  /\ phase = "debug" /\ DebuggerNext
  /\ UNCHANGED <<task, phase, instrs, text, interrupted>>

\* The tool has exited, or the debugger's user has typed all they will.
Exited ==
  /\ \/ phase \in {"done", "refused"}
     \/ phase = "debug" /\ (~Alive \/ (~continuing /\ commands = COMMANDS))
  /\ UNCHANGED vars

Next == CheckBudget \/ AddItem \/ WriteText \/ Assemble \/ RunStep \/ Debug
        \/ Exited

\* The loop of ISS.run goes on until it breaks out: weak fairness of RunStep,
\* which is enabled exactly in phase "run".
Fairness == []<>(phase # "run") \/ []<><<RunStep>>_vars

-----------------------------------------------------------------------------
(***************************************************************************)
(* Assembler, disassembler and simulator read an instruction alike, and    *)
(* the core's instruction memory fetches the word that was written.  What  *)
(* the assembler accepts (asm.py, assemble) the simulator carries out as   *)
(* it was written and the disassembler prints as it was written, or does   *)
(* not know, which is so for sret, sfence.vma and fence; whatever word the *)
(* disassembler does name, the simulator executes as just that.            *)
(***************************************************************************)
Nop == Stmt("addi", <<X(0), X(0), I(0)>>)
Canonical(st) ==
  CASE st.mn = "nop" -> Nop
    [] st.mn = "sfence.vma" -> Stmt(st.mn, SubSeq(st.args \o <<X(0), X(0)>>, 1, 2))
    [] st.mn \in FpMnemonics \ DOMAIN FP_PLAIN ->
         IF st.args[Len(st.args)].k = "rm" THEN st
         ELSE Stmt(st.mn, Append(st.args, Rm(DYN)))
    [] OTHER -> st
Unlisted == {"sret", "sfence.vma", "fence"}

ReadAs(w, xlen, st) ==
  LET named == disasm(w, xlen)
      does == IssDecode(w, xlen)
  IN  /\ st.mn # "word" => does = Canonical(st)
      /\ Canonical(named) = does
         \/ (named = Unknown /\ (st.mn = "word" \/ st.mn \in Unlisted))
Fresh == (phase = "done" /\ task.kind = "check") \/ (phase = "run" /\ m.steps = 0)
ReadersAgree ==
  Fresh => LET stmts == Statements(text)
               bytes == image
           IN  \A j \in DOMAIN words :
                 /\ ReadAs(words[j], task.s.xlen, stmts[j])
                 /\ task.kind = "check" => Fetched(bytes, j) = words[j]

(***************************************************************************)
(* The image the assembler wrote is the program load_words gets from it    *)
(* (debugger.py, bench_runner.py, run_random_tests.py).                    *)
(***************************************************************************)
LoadedAsWritten ==
  phase = "done" /\ task.kind = "check" =>
    SubSeq(load_words(image), 1, Len(words)) = words

(***************************************************************************)
(* The core computes what the simulator computes: for an assembled         *)
(* instruction, the result of the execute stage (Control.v, ImmGen.v,      *)
(* ALUCtrl.v, ALU.v) and the branch decision are those of ISS.step for     *)
(* every pair of operands, and an offset is the one that was written.      *)
(* There is one exception, and it is exactly this one: the word forms on a *)
(* 32-bit build, which the core refuses as illegal (Control.v) and the     *)
(* simulator executes as if xlen were 64 (iss.py:1074, 1173).  Registers   *)
(* have WIDTH bits, the word forms half of them; divisions are Divider's,  *)
(* and lui and auipc are compared at WIDE bits.                            *)
(***************************************************************************)
WIDTH == 4
WIDE == 30
Operands == 0 .. 2^WIDTH - 1
Lacking(st, xlen) == xlen < 64 /\ st.mn \in DOMAIN R_TYPE_W \cup DOMAIN I_TYPE_W
Comparable(st, xlen) ==
  LET last == st.args[Len(st.args)].v
  IN  /\ ~Lacking(st, xlen)
      /\ CASE st.mn \in DOMAIN R_TYPE ->
                ~Rtl!isDivRem(Rtl!ALUCtrl(Encode(st, xlen), "rtype"))
           [] st.mn \in DOMAIN R_TYPE_W ->
                st.mn \in {"addw", "subw", "sllw", "srlw", "sraw", "mulw"}
           [] st.mn = "ctz" -> TRUE
           [] st.mn \in DOMAIN I_TYPE ->
                IF st.mn \in Shifts THEN last < WIDTH ELSE last + 8 \in Operands
           [] st.mn \in DOMAIN I_TYPE_W ->
                IF st.mn \in Shifts THEN last < WIDTH \div 2
                ELSE last + 8 \in Operands
           [] OTHER -> FALSE
AluMatchesIss ==
  phase = "done" /\ task.kind = "check" /\ text[1].mn # "word" =>
    LET st == text[1]
        w == words[1]
        xlen == task.s.xlen
        second(B) == IF st.mn \in DOMAIN I_TYPE \cup DOMAIN I_TYPE_W
                     THEN st.args[3].v ELSE B
        offset == Rtl!ImmGen(w, xlen)
    IN  /\ Rtl!ExIllegal(w, xlen) <=> Lacking(st, xlen)
        /\ Lacking(st, xlen) => \A n \in step(m, w) : n.event # "trap"
        /\ st.mn \in DOMAIN BRANCH \cup {"jal"} =>
             Rtl!ShiftLeftOne(offset) = st.args[Len(st.args)].v
        /\ st.mn \in DOMAIN LOAD \cup DOMAIN STORE \cup {"jalr", "flw", "fsw"} =>
             offset = st.args[2].v
        /\ st.mn \in DOMAIN CSR_OP => offset = st.args[2].v
        /\ st.mn \in {"lui", "auipc"} =>
             \A pc \in {0, 4, 2048} :
               Rtl!ExResult(w, pc, 1, 1, xlen, WIDE, 0)
                 = Alu!IssUpper(st.mn, pc, st.args[2].v, WIDE)
        /\ \A A, B \in Operands :
             /\ Comparable(st, xlen) =>
                  Rtl!ExResult(w, 0, A, B, xlen, WIDTH, WIDTH \div 2)
                    = Alu!IssResult(st.mn, A, second(B), WIDTH, WIDTH \div 2)
             /\ st.mn \in DOMAIN BRANCH \cup {"jal", "jalr"} =>
                  Rtl!ExTaken(w, A, B, xlen, WIDTH)
                    = Alu!IssTaken(st.mn, A, B, WIDTH)

(***************************************************************************)
(* A generated program is safe to compare (random_gen.py, the constraints  *)
(* at its top): it never traps, stays in its own code, and after the       *)
(* prefix accesses memory only in the window it was given, aligned, so     *)
(* that its page table stays as it is.                                     *)
(***************************************************************************)
PrefixSteps(s) ==
  CASE s.mode = "none" -> 0
    [] s.mode = "mmu" -> InstrCount(sv32_prefix(0))
    [] s.mode \in InterruptModes -> InstrCount(interrupt_prefix(s.mode, 1, 0))
Contained ==
  phase = "run" =>
    LET s == task.s
        body == m.steps > PrefixSteps(s)
        a == m.access
    IN  /\ m.event # "trap" /\ m.status \notin {"astray", "raised"}
        /\ m.pc % 4 = 0 /\ m.pc < 4 * Len(words)
        /\ body /\ a.k # "none" => /\ a.addr >= s.base_addr
                                   /\ a.addr + a.width <= addr_space(s)
                                   /\ a.addr % a.width = 0
        /\ body /\ s.mode = "mmu" => m.priv = "U" /\ Pages \subseteq DOMAIN m.mem

(***************************************************************************)
(* The interrupt leaves no trace in what is compared: whenever it comes,   *)
(* the handler runs, disarms the source and returns to the instruction it  *)
(* interrupted, with the registers as they were and interrupts enabled;    *)
(* and a program that took it has returned from it when it halts.          *)
(***************************************************************************)
Resumes ==
  interrupted # <<>> =>
    LET before == interrupted[1]
    IN  /\ m.event = "mret" =>
             /\ m.pc = before.pc /\ m.x = before.x /\ m.mem = before.mem
             /\ m.priv = before.priv /\ m.mstatus.mie
        /\ m.event = "mret" \/ m.status = "halted" => m.csr[MIE] = 0

\* The debugger stops where it was asked to (ContinueStops).
StopsWhereAsked == phase = "debug" => ContinueStops

\* Every generated program reaches its halt loop (ISS.run: anything else is
\* a runaway), also when an interrupt comes.
Halts == (phase = "run") ~> (phase = "done" /\ m.status = "halted")

=============================================================================
