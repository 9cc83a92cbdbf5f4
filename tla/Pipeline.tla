------------------------------ MODULE Pipeline -------------------------------
(***************************************************************************)
(* The pipeline of design/riscvpipeline.v at CACHE_MODE = CACHE_NONE, one  *)
(* Next step per clock cycle: PC and the registers between the stages      *)
(* (reg1a, reg1, reg2, reg3, reg4), the register file, the memory behind   *)
(* its bus adapter, and the interlocks that decide which of them move.     *)
(* Wires keep the source's names.  A wire that depends on branch_taken     *)
(* takes it as the argument bt, because interrupt_taken, which is part of  *)
(* branch_taken, is in turn gated by pc_stall.                             *)
(*                                                                         *)
(* A fetch returns an arbitrary instruction: a property that holds here    *)
(* holds for every program made of the instruction kinds Ops.              *)
(*                                                                         *)
(* reg1, reg2  valid is the complement of id_bubble_r and valid_regde; pt  *)
(*             and ptgt are the fetch's branch prediction.                 *)
(* reg2        a, b are the operands read in ID.                           *)
(* reg3        op is "reg" unless MEM acts on the instruction; rd is 0     *)
(*             when nothing is written; res is ALUOut, or PC+4 of a jump;  *)
(*             data is the store data.                                     *)
(* reg4        val is what WB writes unless isAmo.                         *)
(***************************************************************************)
EXTENDS Instructions

CONSTANT Builds   \* the builds, and the programs run on them, to consider

(***************************************************************************)
(* A build: the elaboration parameters, what its environment can do, and   *)
(* the programs it runs.                                                   *)
(***************************************************************************)
Build ==
  [Forwarding  : BOOLEAN,          \* HAZARD_STRATEGY = 0
   SplitFetch  : BOOLEAN,          \* PIPELINE_PROFILE = PROFILE_6STAGE_SPLIT_FETCH
   Predictor   : BOOLEAN,          \* BRANCH_PREDICTOR = PREDICTOR_DYNAMIC_BHT_BTB
   FetchStalls : BOOLEAN,          \* can a fetch miss (itlb, icache, imem_wait)?
   DataStalls  : BOOLEAN,          \* can a data access miss the TLB (dtlb_miss)?
   Interrupts  : BOOLEAN,          \* can an interrupt be pending?
   Ops         : SUBSET AllOps,    \* the instruction kinds of the programs
   AmoNotAfter : SUBSET AllOps,    \* kinds no AMO directly follows
   BootNop     : BOOLEAN,          \* is there a nop at the reset address?
   Image       : SUBSET Val]       \* the values the memory may hold at reset

ASSUME BuildsAssumption == Builds \subseteq Build

VARIABLES build, pc, reg1a, redirect_squash_extend_r, reg1, reg2, reg3, reg4,
          regs, mem, readData, mem_read_pending_r, mem_stall_done_r,
          amo, div, dtlb, csr

vars == <<build, pc, reg1a, redirect_squash_extend_r, reg1, reg2, reg3, reg4,
          regs, mem, readData, mem_read_pending_r, mem_stall_done_r,
          amo, div, dtlb, csr>>

(***************************************************************************)
(* State after reset.  The memory holds the program's image.               *)
(***************************************************************************)
Nop == [op |-> "li", rd |-> 0, rs1 |-> 0, rs2 |-> 0, imm |-> 0]
NoReg1 == [valid |-> FALSE, pc |-> 0, inst |-> Nop, pt |-> FALSE, ptgt |-> 0]
NoReg2 == [valid |-> FALSE, pc |-> 0, inst |-> Nop, pt |-> FALSE, ptgt |-> 0,
           a |-> 0, b |-> 0]
NoReg3 == [valid |-> FALSE, op |-> "reg", rd |-> 0, res |-> 0, data |-> 0]
NoReg4 == [isAmo |-> FALSE, rd |-> 0, val |-> 0]

Init ==
  /\ build \in Builds
  /\ pc = 0
  /\ reg1a = [pc |-> 0, pt |-> FALSE, ptgt |-> 0]
  /\ redirect_squash_extend_r = FALSE
  /\ reg1 = NoReg1 /\ reg2 = NoReg2 /\ reg3 = NoReg3 /\ reg4 = NoReg4
  /\ regs = ResetRegs
  /\ mem \in [Val -> build.Image]
  /\ readData = 0 /\ mem_read_pending_r = FALSE /\ mem_stall_done_r = FALSE
  /\ amo = [write_phase |-> FALSE, done |-> FALSE, captured |-> 0]
  /\ div = [busy |-> FALSE, done |-> FALSE, result |-> 0]
  /\ dtlb = [miss |-> FALSE, vaddr |-> 0, data |-> 0]
  /\ csr = [scratch |-> 0, mie |-> FALSE, mpie |-> FALSE, mepc |-> 0,
            instret |-> 0]

(***************************************************************************)
(* WB and the register file (written every cycle, the write visible to a   *)
(* read in the same cycle).                                                *)
(***************************************************************************)
writeData_regwb == IF reg4.isAmo THEN amo.captured ELSE reg4.val

\* Mutant: no write-first bypass.
RegisterFile_NoBypass(r) == IF r = 0 THEN 0 ELSE regs[r]

RegisterFile(r) == IF r = 0 THEN 0
                   ELSE IF reg4.rd = r THEN writeData_regwb ELSE regs[r]

RegisterEdge ==
  regs' = IF reg4.rd = 0 THEN regs
          ELSE [regs EXCEPT ![reg4.rd] = writeData_regwb]

(***************************************************************************)
(* MEM: the load/store interlock, the AMO's read-then-write interlock, the *)
(* bus adapter, whose acknowledgement of a read is the read request of the *)
(* cycle before, and the registered read port of the memory.               *)
(***************************************************************************)
MemReads == {"load", "lpf"}
MemWrites == {"store"}
AmoOps == {"amo", "lr", "sc"}

amo_active == reg3.op \in AmoOps
amo_stall == amo_active /\ ~amo.done

eff_memRead == IF amo_active THEN ~amo.write_phase /\ ~amo.done
               ELSE reg3.op = "load"
eff_memWrite == IF amo_active THEN amo.write_phase /\ ~amo.done
                ELSE reg3.op = "store"
lsu_ack == eff_memWrite \/ mem_read_pending_r

mem_stall == /\ reg3.op = "load" \/ (reg3.op = "store" /\ ~lsu_ack)
             /\ ~mem_stall_done_r
mem_hold == mem_stall \/ amo_stall

\* Mutant: the acknowledgement is not remembered.
MemStallEdge_NeverDone == mem_stall_done_r' = FALSE

MemStallEdge == mem_stall_done_r' = (mem_stall /\ lsu_ack)

AmoEdge ==
  \/ ~amo_active /\ amo' = [amo EXCEPT !.write_phase = FALSE, !.done = FALSE]
  \/ amo_active /\ ~lsu_ack /\ amo' = amo
  \/ /\ amo_active /\ lsu_ack /\ ~amo.write_phase
     /\ amo' = [amo EXCEPT !.captured = readData,
                           !.done = (reg3.op = "lr") \/ @,
                           !.write_phase = (reg3.op # "lr")]
  \/ /\ amo_active /\ lsu_ack /\ amo.write_phase
     /\ amo' = [amo EXCEPT !.done = TRUE]

bus_wdata == IF reg3.op = "amo" THEN AmoFn(amo.captured, reg3.data)
             ELSE reg3.data

MemoryEdge ==
  /\ mem' = IF eff_memWrite THEN [mem EXCEPT ![reg3.res] = bus_wdata] ELSE mem
  /\ readData' = IF eff_memRead THEN mem[reg3.res] ELSE 0
  /\ mem_read_pending_r' = eff_memRead

(***************************************************************************)
(* EX: operand forwarding (Forward.v: EX/MEM before MEM/WB, never x0).     *)
(***************************************************************************)
Forward(r, decoded) ==
  CASE build.Forwarding /\ r # 0 /\ reg3.rd = r -> reg3.res
    [] build.Forwarding /\ r # 0 /\ reg3.rd # r /\ reg4.rd = r -> writeData_regwb
    [] OTHER -> decoded

ex == reg2.inst
readData1_final == Forward(ex.rs1, reg2.a)
readData2_final == Forward(ex.rs2, reg2.b)

(***************************************************************************)
(* EX: the divide unit, seen from the pipeline: it takes its operands when *)
(* it starts, finishes some cycles later (fin) and shows done for a cycle. *)
(* Module Divider is the unit itself.                                      *)
(***************************************************************************)
isDivRem == ex.op = "div"
div_stall == isDivRem /\ ~div.done

DividerEdge(fin) ==
  \/ /\ isDivRem /\ ~div.busy /\ ~div.done
     /\ div' = [busy |-> TRUE, done |-> FALSE,
                result |-> DivFn(readData1_final, readData2_final)]
  \/ div.busy /\ fin /\ div' = [div EXCEPT !.busy = FALSE, !.done = TRUE]
  \/ div.busy /\ ~fin /\ div' = div
  \/ /\ ~div.busy /\ (~isDivRem \/ div.done)
     /\ div' = [div EXCEPT !.done = FALSE]

(***************************************************************************)
(* EX: data translation.  dm says that the TLB has no entry yet and no     *)
(* walk has ended.  While the access waits its address and store data are  *)
(* taken from a snapshot.  The model's translation is the identity, and an *)
(* address that is used untranslated names the next word.                  *)
(***************************************************************************)
dtlb_needed == build.DataStalls /\ ex.op \in MemReads \cup MemWrites
dtlb_miss(dm, bt) == dtlb_needed /\ dm /\ ~bt

\* Mutant: the address is not snapshotted.
dtlb_vaddr_Live == readData1_final

dtlb_vaddr == IF dtlb.miss THEN dtlb.vaddr ELSE readData1_final
dtlb_store_data == IF dtlb.miss THEN dtlb.data ELSE readData2_final
dtlb_page_fault(dm) == ex.op = "lpf" /\ ~(dtlb_needed /\ dm)
mem_paddr(dm) == IF dtlb_needed /\ dm THEN (dtlb_vaddr + 1) % NVAL
                 ELSE dtlb_vaddr

DtlbEdge(dm, bt) ==
  dtlb' = IF dtlb_needed /\ ~dtlb.miss
          THEN [miss |-> dtlb_miss(dm, bt), vaddr |-> readData1_final,
                data |-> readData2_final]
          ELSE [dtlb EXCEPT !.miss = dtlb_miss(dm, bt)]

(***************************************************************************)
(* EX: redirects of the fetch.                                             *)
(***************************************************************************)
desired_taken ==
  \/ ex.op \in {"jal", "jalr"}
  \/ ex.op = "beq" /\ readData1_final = readData2_final
desired_target == IF ex.op = "jalr" THEN JumpTo(readData1_final) ELSE ex.imm
mispredict == \/ reg2.pt # desired_taken
              \/ desired_taken /\ reg2.ptgt # desired_target
branch_or_jump_redirect == IF build.Predictor THEN mispredict ELSE desired_taken
branch_or_jump_target ==
  IF build.Predictor /\ ~desired_taken THEN NextPC(reg2.pc) ELSE desired_target
exception_taken(dm) == ex.op = "ecall" \/ dtlb_page_fault(dm)
mret_real == ex.op = "mret"
other_redirect_taken(dm) ==
  branch_or_jump_redirect \/ exception_taken(dm) \/ mret_real
branch_taken(dm, it) == other_redirect_taken(dm) \/ it
redirect_target(dm, it) ==
  CASE exception_taken(dm) \/ it -> Handler
    [] ~exception_taken(dm) /\ ~it /\ mret_real -> csr.mepc
    [] OTHER -> branch_or_jump_target

(***************************************************************************)
(* The interlocks.  Hazard.v compares the ID instruction's source fields   *)
(* with the destination of a load or AMO in EX; HazardNoForward.v waits    *)
(* for every producer in EX or MEM.                                        *)
(***************************************************************************)
Reads(i, r) == r = i.rs1 \/ r = i.rs2

\* Mutant: only rs1 is compared.
Hazard_Rs1Only(bt) == /\ ex.op \in MemReads \cup AmoOps
                      /\ reg1.inst.rs1 = ex.rd

Hazard(bt) == /\ ex.op \in MemReads \cup AmoOps
              /\ Reads(reg1.inst, ex.rd)

HazardNoForward(bt) ==
  /\ \/ ex.op \in HasRd /\ ex.rd # 0 /\ Reads(reg1.inst, ex.rd)
     \/ reg3.rd # 0 /\ Reads(reg1.inst, reg3.rd)
  /\ ~bt

stall(bt) == IF build.Forwarding THEN Hazard(bt) ELSE HazardNoForward(bt)

fetch_miss(fm, bt) == build.FetchStalls /\ fm /\ ~bt /\ ~redirect_squash_extend_r
reg2_hold(dm, bt) == div_stall \/ mem_hold \/ dtlb_miss(dm, bt)
pc_stall(fm, dm, bt) == stall(bt) \/ reg2_hold(dm, bt) \/ fetch_miss(fm, bt)

interrupt_taken(irq, fm, dm, bt) ==
  irq /\ csr.mie /\ ~pc_stall(fm, dm, bt) /\ ~other_redirect_taken(dm)

(***************************************************************************)
(* EX/MEM and MEM/WB.                                                      *)
(***************************************************************************)
ex_result(dm) ==
  CASE ex.op = "li" -> ex.imm
    [] ex.op = "alu" -> AluFn(readData1_final, readData2_final)
    [] ex.op = "div" -> div.result
    [] ex.op \in MemReads \cup MemWrites -> mem_paddr(dm)
    [] ex.op \in AmoOps -> readData1_final
    [] ex.op \in {"jal", "jalr"} -> LinkVal(reg2.pc)
    [] ex.op = "csr" -> csr.scratch
    [] ex.op = "csrmie" -> IF csr.mie THEN 1 ELSE 0
    [] OTHER -> 0

reg3_bubble(dm, bt) == div_stall \/ dtlb_miss(dm, bt) \/ exception_taken(dm)

Reg3Edge(dm, bt) ==
  \/ mem_hold /\ reg3' = reg3
  \/ ~mem_hold /\ reg3_bubble(dm, bt) /\ reg3' = NoReg3
  \/ /\ ~mem_hold /\ ~reg3_bubble(dm, bt)
     /\ reg3' = [valid |-> reg2.valid,
                 op    |-> IF ex.op \in MemReads \cup MemWrites \cup AmoOps
                           THEN ex.op ELSE "reg",
                 rd    |-> IF ex.op \in HasRd THEN ex.rd ELSE 0,
                 res   |-> ex_result(dm),
                 data  |-> dtlb_store_data]

Reg4Edge ==
  \/ mem_hold /\ reg4' = reg4
  \/ /\ ~mem_hold
     /\ reg4' = [isAmo |-> amo_active, rd |-> reg3.rd,
                 val   |-> IF reg3.op = "load" THEN readData ELSE reg3.res]

(***************************************************************************)
(* CSR.v: the trap, mret and csrrw writes of mstatus in priority order, a  *)
(* scratch register, and minstret.                                         *)
(***************************************************************************)
\* Mutant: a bubble in ID is not recognised.
interrupt_mepc_Reg1 == reg1.pc

interrupt_mepc == IF reg1.valid THEN reg1.pc ELSE pc

trap_taken(dm, it, bt) == (exception_taken(dm) /\ ~reg2_hold(dm, bt)) \/ it

MstatusEdge(dm, it, bt) ==
  CASE trap_taken(dm, it, bt) ->
         [csr EXCEPT !.mpie = csr.mie, !.mie = FALSE,
                     !.mepc = IF it THEN interrupt_mepc ELSE reg2.pc]
    [] ~trap_taken(dm, it, bt) /\ mret_real /\ ~reg2_hold(dm, bt) ->
         [csr EXCEPT !.mie = csr.mpie, !.mpie = TRUE]
    [] ~trap_taken(dm, it, bt) /\ ex.op = "csrmie" /\ ~reg2_hold(dm, bt) ->
         [csr EXCEPT !.mie = (readData1_final # 0)]
    [] OTHER -> csr

ScratchEdge(dm, bt) ==
  IF ex.op = "csr" /\ ~reg2_hold(dm, bt) THEN readData1_final ELSE csr.scratch

InstretEdge == IF reg3.valid /\ ~mem_stall THEN (csr.instret + 1) % INSTRETMOD
               ELSE csr.instret

CsrEdge(dm, it, bt) ==
  csr' = [MstatusEdge(dm, it, bt) EXCEPT !.scratch = ScratchEdge(dm, bt),
                                         !.instret = InstretEdge]

(***************************************************************************)
(* ID/EX.  A flush (a load-use stall or a fetch that misses) makes a       *)
(* bubble that keeps the decode context: pc and the prediction.            *)
(***************************************************************************)
Reg2Edge(fm, dm, bt) ==
  LET flush == stall(bt) \/ fetch_miss(fm, bt)
      hold == reg2_hold(dm, bt)
  IN  \/ hold /\ reg2' = reg2
      \/ ~hold /\ bt /\ reg2' = NoReg2
      \/ /\ ~hold /\ ~bt /\ flush
         /\ reg2' = [NoReg2 EXCEPT !.pc = reg1.pc, !.pt = reg1.pt,
                                   !.ptgt = reg1.ptgt]
      \/ /\ ~hold /\ ~bt /\ ~flush
         /\ reg2' = [valid |-> reg1.valid, pc |-> reg1.pc, inst |-> reg1.inst,
                     pt |-> reg1.pt, ptgt |-> reg1.ptgt,
                     a |-> RegisterFile(reg1.inst.rs1),
                     b |-> RegisterFile(reg1.inst.rs2)]

(***************************************************************************)
(* IF.  p is the prediction for the fetch at pc.  Under split fetch the    *)
(* instruction memory is addressed by reg1a, one cycle behind pc.          *)
(***************************************************************************)
Prediction == IF build.Predictor
              THEN {[pt |-> FALSE, ptgt |-> 0]} \cup [pt : {TRUE}, ptgt : PcSet]
              ELSE {[pt |-> FALSE, ptgt |-> 0]}

Fetchable(at) ==
  IF build.BootNop /\ at = 0 THEN {Nop}
  ELSE UNION {Encodings[o] : o \in IF reg1.inst.op \in build.AmoNotAfter
                                   THEN build.Ops \ AmoOps ELSE build.Ops}

PcEdge(fm, dm, it, bt, p) ==
  pc' = CASE pc_stall(fm, dm, bt) -> pc
          [] ~pc_stall(fm, dm, bt) /\ bt -> redirect_target(dm, it)
          [] ~pc_stall(fm, dm, bt) /\ ~bt /\ p.pt -> p.ptgt
          [] OTHER -> NextPC(pc)

Reg1aEdge(fm, dm, bt, p) ==
  reg1a' = IF pc_stall(fm, dm, bt) \/ ~build.SplitFetch THEN reg1a
           ELSE [pc |-> pc, pt |-> p.pt, ptgt |-> p.ptgt]

fetch(p) == IF build.SplitFetch THEN reg1a ELSE [pc |-> pc, pt |-> p.pt, ptgt |-> p.ptgt]

Reg1Edge(fm, dm, bt, p) ==
  LET squash == bt \/ redirect_squash_extend_r
  IN  \/ squash /\ reg1' = NoReg1
      \/ ~squash /\ pc_stall(fm, dm, bt) /\ reg1' = reg1
      \/ /\ ~squash /\ ~pc_stall(fm, dm, bt)
         /\ \E i \in Fetchable(fetch(p).pc) :
              reg1' = [valid |-> TRUE, pc |-> fetch(p).pc, inst |-> i,
                       pt |-> fetch(p).pt, ptgt |-> fetch(p).ptgt]

SquashExtendEdge(bt) == redirect_squash_extend_r' = (build.SplitFetch /\ bt)

(***************************************************************************)
(* A clock edge.  irq, fm, dm and fin are the inputs of the cycle; the     *)
(* combinational logic settles to a value of interrupt_taken that is       *)
(* consistent with itself.                                                 *)
(***************************************************************************)
Settled(irq, fm, dm, it) ==
  it = interrupt_taken(irq, fm, dm, branch_taken(dm, it))

FetchEdge(fm, dm, it, bt) ==
  \E p \in Prediction : /\ PcEdge(fm, dm, it, bt, p) /\ Reg1aEdge(fm, dm, bt, p)
                         /\ Reg1Edge(fm, dm, bt, p)

Edges(fm, dm, fin, it, bt) ==
  /\ build' = build
  /\ RegisterEdge /\ MemoryEdge /\ MemStallEdge /\ AmoEdge
  /\ Reg4Edge /\ Reg3Edge(dm, bt) /\ Reg2Edge(fm, dm, bt)
  /\ DividerEdge(fin) /\ DtlbEdge(dm, bt) /\ CsrEdge(dm, it, bt)
  /\ SquashExtendEdge(bt) /\ FetchEdge(fm, dm, it, bt)

Clock(fm, dm, fin) ==
  \E irq \in IF build.Interrupts THEN BOOLEAN ELSE {FALSE}, it \in BOOLEAN :
    /\ Settled(irq, fm, dm, it)
    /\ Edges(fm, dm, fin, it, branch_taken(dm, it))

Next == \E fm \in IF build.FetchStalls THEN BOOLEAN ELSE {FALSE},
           dm \in IF dtlb_needed THEN BOOLEAN ELSE {FALSE},
           fin \in IF div.busy THEN BOOLEAN ELSE {FALSE} : Clock(fm, dm, fin)

(***************************************************************************)
(* Translation walks, cache fills and divisions end.                       *)
(***************************************************************************)
Fairness == WF_vars(Clock(FALSE, FALSE, TRUE))

Spec == Init /\ [][Next]_vars /\ Fairness

(***************************************************************************)
(* The architectural state.  An instruction takes effect when it leaves    *)
(* EX; what reg3 and reg4 still have to write counts as written.           *)
(***************************************************************************)
LoadedValue == IF reg3.op \in AmoOps /\ (amo.write_phase \/ amo.done)
               THEN amo.captured ELSE mem[reg3.res]

RegBar(r) ==
  CASE reg3.rd = r /\ reg3.op \in MemReads \cup AmoOps -> LoadedValue
    [] reg3.rd = r /\ reg3.op \notin MemReads \cup AmoOps -> reg3.res
    [] reg3.rd # r /\ reg4.rd = r -> writeData_regwb
    [] OTHER -> regs[r]

MemBar ==
  IF reg3.op = "store" \/ (reg3.op \in {"amo", "sc"} /\ ~amo.done)
  THEN [mem EXCEPT ![reg3.res] =
          IF reg3.op = "amo" THEN AmoFn(LoadedValue, reg3.data) ELSE reg3.data]
  ELSE mem

PcBar == CASE reg2.valid -> reg2.pc
           [] ~reg2.valid /\ reg1.valid -> reg1.pc
           [] ~reg2.valid /\ ~reg1.valid /\ build.SplitFetch
                /\ ~redirect_squash_extend_r -> reg1a.pc
           [] OTHER -> pc

ArchBar == [pc |-> PcBar, regs |-> [r \in RegSet \ {0} |-> RegBar(r)],
            mem |-> MemBar, scratch |-> csr.scratch, mie |-> csr.mie,
            mpie |-> csr.mpie, mepc |-> csr.mepc,
            instret |-> (csr.instret + IF reg3.valid THEN 1 ELSE 0) % INSTRETMOD]

A == INSTANCE Isa WITH arch <- ArchBar

(***************************************************************************)
(* Properties.                                                             *)
(***************************************************************************)
TypeOK ==
  /\ build \in Builds
  /\ pc \in PcSet
  /\ reg1a \in [pc : PcSet, pt : BOOLEAN, ptgt : PcSet]
  /\ redirect_squash_extend_r \in BOOLEAN
  /\ reg1 \in [valid : BOOLEAN, pc : PcSet, inst : Inst \cup {Nop},
               pt : BOOLEAN, ptgt : PcSet]
  /\ reg2 \in [valid : BOOLEAN, pc : PcSet, inst : Inst \cup {Nop},
               pt : BOOLEAN, ptgt : PcSet, a : Val, b : Val]
  /\ reg3 \in [valid : BOOLEAN, op : {"reg"} \cup MemReads \cup MemWrites \cup AmoOps,
               rd : RegSet, res : Val, data : Val]
  /\ reg4 \in [isAmo : BOOLEAN, rd : RegSet, val : Val]
  /\ regs \in [RegSet \ {0} -> Val]
  /\ mem \in [Val -> Val]
  /\ readData \in Val
  /\ mem_read_pending_r \in BOOLEAN /\ mem_stall_done_r \in BOOLEAN
  /\ amo \in [write_phase : BOOLEAN, done : BOOLEAN, captured : Val]
  /\ div \in [busy : BOOLEAN, done : BOOLEAN, result : Val]
  /\ dtlb \in [miss : BOOLEAN, vaddr : Val, data : Val]
  /\ csr \in [scratch : Val, mie : BOOLEAN, mpie : BOOLEAN, mepc : PcSet,
              instret : 0 .. (INSTRETMOD - 1)]

\* Every cycle leaves the architectural state alone, or executes exactly the
\* instruction in EX on it, or takes an interrupt between two instructions:
\* the forwarding, the interlocks and the squashes never let an instruction
\* act twice, be lost, or see a stale operand.
RefinesIsa ==
  /\ A!Init
  /\ [][ \/ reg2.valid /\ (A!Execute(ex) \/ A!ExecuteInterrupted(ex))
         \/ A!Interrupt ]_ArchBar

\* A load or AMO that has reached MEM is never read by the instruction right
\* behind it in EX, where Forward.v would hand over its address: Hazard.v and
\* HazardNoForward.v keep the two apart whatever else stalls.
LoadUseSafe ==
  reg3.op \in MemReads \cup AmoOps /\ reg3.rd # 0 /\ reg2.valid
    => ~Reads(ex, reg3.rd)

\* The operands EX computes with are the architectural ones, however long the
\* instruction has been held, until the divider or the translation snapshot has
\* taken them over and their producers may drain past the forwarding window.
Drained == dtlb.miss \/ ((div.busy \/ div.done) /\ ~mem_hold)

OperandsFresh ==
  reg2.valid /\ ~Drained =>
    /\ ex.rs1 # 0 => readData1_final = RegBar(ex.rs1)
    /\ ex.rs2 # 0 => readData2_final = RegBar(ex.rs2)

\* Instructions keep leaving EX: no combination of interlocks, walks and fetch
\* misses holds the pipeline for ever.
Progress == []<>(reg2.valid /\ ~reg2_hold(FALSE, FALSE))

=============================================================================
