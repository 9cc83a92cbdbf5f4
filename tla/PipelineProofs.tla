--------------------------- MODULE PipelineProofs ---------------------------
(***************************************************************************)
(* Proofs about module Pipeline, for every set of builds and any number of *)
(* registers, values and program counters.                                 *)
(***************************************************************************)
EXTENDS Pipeline, TLAPS

(***************************************************************************)
(* The operators the pipeline is built from stay in their ranges.          *)
(***************************************************************************)

\* Quotients are no larger than the dividend.
LEMMA DivRange == ASSUME NEW a \in Nat, NEW b \in Nat \ {0}
                  PROVE a \div b \in 0 .. a
  OBVIOUS

\* A residue is below the modulus.
LEMMA ModRange == ASSUME NEW a \in Int, NEW m \in Nat \ {0}
                  PROVE a % m \in 0 .. (m - 1)
  OBVIOUS

\* Every operation of Instructions returns a register value.
LEMMA ValClosed ==
  /\ 0 \in Val
  /\ \A a, b \in Val : /\ AluFn(a, b) \in Val /\ DivFn(a, b) \in Val
                       /\ AmoFn(a, b) \in Val /\ (a + 1) % NVAL \in Val
<1>1. /\ 0 \in Val /\ 1 \in Val /\ NVAL - 1 \in Val
  BY IsaAssumption DEF Val
<1>2. SUFFICES ASSUME NEW a \in Val, NEW b \in Val
               PROVE /\ AluFn(a, b) \in Val /\ DivFn(a, b) \in Val
                     /\ AmoFn(a, b) \in Val /\ (a + 1) % NVAL \in Val
  BY <1>1, Zenon
<1>3. AluFn(a, b) \in Val
  BY <1>1, Zenon DEF AluFn
<1>4. DivFn(a, b) \in Val
  <2>1. CASE b = 0
    BY <1>1, <2>1, Zenon DEF DivFn
  <2>2. CASE b # 0
    <3>1. a \div b \in 0 .. a
      BY <2>2, DivRange, IsaAssumption DEF Val
    <3>2. QED
      BY <2>2, <3>1, IsaAssumption DEF DivFn, Val
  <2>3. QED
    BY <2>1, <2>2, Zenon
<1>5. AmoFn(a, b) \in Val /\ (a + 1) % NVAL \in Val
  BY ModRange, IsaAssumption DEF AmoFn, Val
<1>6. QED
  BY <1>3, <1>4, <1>5, Zenon

\* Every next, linked or computed program counter is one.
LEMMA PcClosed ==
  /\ 0 \in PcSet /\ Handler \in PcSet
  /\ \A p \in PcSet : NextPC(p) \in PcSet /\ LinkVal(p) \in Val
  /\ \A v \in Val : JumpTo(v) \in PcSet
<1>1. 0 \in PcSet /\ Handler \in PcSet
  BY IsaAssumption DEF PcSet, Handler
<1>2. ASSUME NEW p \in PcSet
      PROVE NextPC(p) \in PcSet /\ LinkVal(p) \in Val
  <2>1. NextPC(p) \in PcSet
    BY ModRange, IsaAssumption DEF NextPC, PcSet
  <2>2. NextPC(p) \in Int
    BY <2>1, IsaAssumption DEF PcSet
  <2>3. QED
    BY <2>1, <2>2, ModRange, IsaAssumption, Zenon DEF LinkVal, Val
<1>3. ASSUME NEW v \in Val PROVE JumpTo(v) \in PcSet
  BY ModRange, IsaAssumption DEF JumpTo, PcSet, Val
<1>4. QED
  BY <1>1, <1>2, <1>3, Zenon

(***************************************************************************)
(* What the fields of an instruction hold.                                 *)
(***************************************************************************)
Fields(i) == /\ i.op \in AllOps
             /\ i.rd \in RegSet /\ i.rs1 \in RegSet /\ i.rs2 \in RegSet
             /\ i.op = "li" => i.imm \in Val
             /\ i.op \in {"beq", "jal"} => i.imm \in PcSet

\* Every instruction the fetch can return, and the nop, is well formed.
LEMMA InstFields == \A i \in Inst \cup {Nop} : Fields(i)
<1>1. 0 \in RegSet
  BY IsaAssumption DEF RegSet
<1>2. Fields(Nop)
  BY <1>1, ValClosed, Zenon DEF Fields, Nop, AllOps
<1>3. ASSUME NEW o \in AllOps, NEW i \in FieldsOf(o) PROVE Fields(i)
  BY <1>1, Zenon DEF Fields, FieldsOf
<1>4. ASSUME NEW i \in Inst PROVE Fields(i)
  <2>1. PICK o \in AllOps : i \in Encodings[o]
    BY Zenon DEF Inst
  <2>2. QED
    BY <1>3, <2>1, Zenon DEF Encodings
<1>5. QED
  BY <1>2, <1>4, Zenon

\* Whatever Fetchable offers is an instruction or the nop.
LEMMA FetchableInst ==
  ASSUME TypeOK, NEW at \in PcSet PROVE Fetchable(at) \subseteq Inst \cup {Nop}
<1>1. build.Ops \subseteq AllOps
  BY BuildsAssumption, Zenon DEF TypeOK, Build
<1>2. QED
  BY <1>1, Zenon DEF Fetchable, Inst

\* The operands EX computes with, and what WB writes, are register values.
LEMMA WiresTyped ==
  ASSUME TypeOK
  PROVE  /\ Fields(reg1.inst) /\ Fields(ex)
         /\ writeData_regwb \in Val
         /\ readData1_final \in Val /\ readData2_final \in Val
         /\ dtlb_vaddr \in Val /\ dtlb_store_data \in Val
         /\ bus_wdata \in Val
         /\ \A r \in RegSet : RegisterFile(r) \in Val
<1>1. Fields(reg1.inst) /\ Fields(ex)
  BY InstFields, Zenon DEF TypeOK, ex
<1>2. writeData_regwb \in Val
  BY Zenon DEF TypeOK, writeData_regwb
<1>3. readData1_final \in Val /\ readData2_final \in Val
  BY <1>2, Zenon DEF TypeOK, readData1_final, readData2_final, Forward
<1>4. dtlb_vaddr \in Val /\ dtlb_store_data \in Val
  BY <1>3, Zenon DEF TypeOK, dtlb_vaddr, dtlb_store_data
<1>5. bus_wdata \in Val
  BY ValClosed, Zenon DEF TypeOK, bus_wdata
<1>6. ASSUME NEW r \in RegSet PROVE RegisterFile(r) \in Val
  BY <1>2, ValClosed, Zenon DEF TypeOK, RegisterFile
<1>7. QED
  BY <1>1, <1>2, <1>3, <1>4, <1>5, <1>6, Zenon

(***************************************************************************)
(* Type correctness, stage by stage.                                       *)
(***************************************************************************)
LEMMA InitTyped == ASSUME Init PROVE TypeOK
<1>1. 0 \in Val /\ 0 \in PcSet /\ 0 \in RegSet /\ NVAL - 1 \in Val
  BY IsaAssumption DEF Val, PcSet, RegSet
<1>2. Nop \in Inst \cup {Nop}
  BY Zenon
<1>3. build \in Builds /\ build.Image \subseteq Val
  BY BuildsAssumption, Zenon DEF Init, Build
<1>4. mem \in [Val -> Val]
  BY <1>3, Zenon DEF Init
<1>5. regs \in [RegSet \ {0} -> Val]
  BY <1>1, Zenon DEF Init, ResetRegs
<1>6. csr.instret \in 0 .. (INSTRETMOD - 1)
  BY IsaAssumption DEF Init
<1>7. QED
  BY <1>1, <1>2, <1>3, <1>4, <1>5, <1>6, Zenon
     DEF Init, TypeOK, NoReg1, NoReg2, NoReg3, NoReg4

\* IF: PC, reg1a and reg1 after an edge.
LEMMA FetchTyped ==
  ASSUME TypeOK, NEW fm \in BOOLEAN, NEW dm \in BOOLEAN, NEW it \in BOOLEAN,
         NEW bt \in BOOLEAN, bt = branch_taken(dm, it), NEW p \in Prediction,
         PcEdge(fm, dm, it, bt, p), Reg1aEdge(fm, dm, bt, p),
         Reg1Edge(fm, dm, bt, p)
  PROVE  /\ pc' \in PcSet
         /\ reg1a' \in [pc : PcSet, pt : BOOLEAN, ptgt : PcSet]
         /\ reg1' \in [valid : BOOLEAN, pc : PcSet, inst : Inst \cup {Nop},
                       pt : BOOLEAN, ptgt : PcSet]
<1>1. p.pt \in BOOLEAN /\ p.ptgt \in PcSet
  <2>1. CASE p = [pt |-> FALSE, ptgt |-> 0]
    BY <2>1, PcClosed, Zenon
  <2>2. CASE p \in [pt : {TRUE}, ptgt : PcSet]
    BY <2>2, Zenon
  <2>3. QED
    BY <2>1, <2>2, Zenon DEF Prediction
<1>2. bt => redirect_target(dm, it) \in PcSet
  <2>1. desired_taken => desired_target \in PcSet
    BY WiresTyped, PcClosed, Zenon DEF desired_taken, desired_target, Fields
  <2>2. branch_or_jump_redirect => branch_or_jump_target \in PcSet
    BY <2>1, PcClosed, Zenon
       DEF TypeOK, branch_or_jump_redirect, branch_or_jump_target, mispredict
  <2>3. QED
    BY <2>2, PcClosed, Zenon
       DEF TypeOK, redirect_target, branch_taken, other_redirect_taken
<1>3. pc' \in PcSet
  BY <1>1, <1>2, PcClosed, Zenon DEF TypeOK, PcEdge
<1>4. reg1a' \in [pc : PcSet, pt : BOOLEAN, ptgt : PcSet]
  BY <1>1, Zenon DEF TypeOK, Reg1aEdge
<1>5. fetch(p) \in [pc : PcSet, pt : BOOLEAN, ptgt : PcSet]
  BY <1>1, Zenon DEF TypeOK, fetch
<1>6. NoReg1 \in [valid : BOOLEAN, pc : PcSet, inst : Inst \cup {Nop},
                  pt : BOOLEAN, ptgt : PcSet]
  BY PcClosed, Zenon DEF NoReg1
<1>7. reg1' \in [valid : BOOLEAN, pc : PcSet, inst : Inst \cup {Nop},
                 pt : BOOLEAN, ptgt : PcSet]
  <2>1. CASE reg1' = NoReg1
    BY <1>6, <2>1, Zenon
  <2>2. CASE reg1' = reg1
    BY <2>2, Zenon DEF TypeOK
  <2>3. CASE \E i \in Fetchable(fetch(p).pc) :
               reg1' = [valid |-> TRUE, pc |-> fetch(p).pc, inst |-> i,
                        pt |-> fetch(p).pt, ptgt |-> fetch(p).ptgt]
    BY <1>5, <2>3, FetchableInst
  <2>4. QED
    BY <2>1, <2>2, <2>3, Zenon DEF Reg1Edge
<1>8. QED
  BY <1>3, <1>4, <1>7, Zenon

\* ID: reg2 after an edge.
LEMMA Reg2Typed ==
  ASSUME TypeOK, NEW fm \in BOOLEAN, NEW dm \in BOOLEAN, NEW bt \in BOOLEAN,
         Reg2Edge(fm, dm, bt)
  PROVE  reg2' \in [valid : BOOLEAN, pc : PcSet, inst : Inst \cup {Nop},
                    pt : BOOLEAN, ptgt : PcSet, a : Val, b : Val]
<1>1. /\ RegisterFile(reg1.inst.rs1) \in Val
      /\ RegisterFile(reg1.inst.rs2) \in Val
  BY WiresTyped, Zenon DEF Fields
<1>2. NoReg2 \in [valid : BOOLEAN, pc : PcSet, inst : Inst \cup {Nop},
                  pt : BOOLEAN, ptgt : PcSet, a : Val, b : Val]
  BY PcClosed, ValClosed, Zenon DEF NoReg2
<1>3. CASE reg2' \in {reg2, NoReg2}
  BY <1>2, <1>3, Zenon DEF TypeOK
<1>4. CASE reg2' = [NoReg2 EXCEPT !.pc = reg1.pc, !.pt = reg1.pt,
                                  !.ptgt = reg1.ptgt]
  BY <1>2, <1>4, Zenon DEF TypeOK
<1>5. CASE reg2' = [valid |-> reg1.valid, pc |-> reg1.pc, inst |-> reg1.inst,
                    pt |-> reg1.pt, ptgt |-> reg1.ptgt,
                    a |-> RegisterFile(reg1.inst.rs1),
                    b |-> RegisterFile(reg1.inst.rs2)]
  BY <1>1, <1>5, Zenon DEF TypeOK
<1>6. QED
  BY <1>3, <1>4, <1>5, Zenon DEF Reg2Edge

\* EX: what reg3 takes over, and the units of the EX stage after an edge.
LEMMA ExTyped ==
  ASSUME TypeOK, NEW dm \in BOOLEAN, NEW bt \in BOOLEAN, NEW fin \in BOOLEAN,
         Reg3Edge(dm, bt), DividerEdge(fin), DtlbEdge(dm, bt)
  PROVE  /\ reg3' \in [valid : BOOLEAN,
                       op : {"reg"} \cup MemReads \cup MemWrites \cup AmoOps,
                       rd : RegSet, res : Val, data : Val]
         /\ div' \in [busy : BOOLEAN, done : BOOLEAN, result : Val]
         /\ dtlb' \in [miss : BOOLEAN, vaddr : Val, data : Val]
<1>1. ex_result(dm) \in Val
  <2>1. mem_paddr(dm) \in Val
    BY WiresTyped, ValClosed, Zenon DEF mem_paddr
  <2>2. csr.scratch \in Val /\ div.result \in Val /\ LinkVal(reg2.pc) \in Val
    BY PcClosed, Zenon DEF TypeOK
  <2>3. 0 \in Val /\ 1 \in Val
    BY IsaAssumption DEF Val
  <2>4. QED
    BY <2>1, <2>2, <2>3, WiresTyped, ValClosed, Zenon DEF ex_result, Fields
<1>2. 0 \in RegSet
  BY IsaAssumption DEF RegSet
<1>3. reg3' \in [valid : BOOLEAN,
                 op : {"reg"} \cup MemReads \cup MemWrites \cup AmoOps,
                 rd : RegSet, res : Val, data : Val]
  <2>1. CASE reg3' = reg3
    BY <2>1, Zenon DEF TypeOK
  <2>2. CASE reg3' = NoReg3
    BY <1>2, <2>2, ValClosed, Zenon DEF NoReg3
  <2>3. CASE reg3' = [valid |-> reg2.valid,
                      op |-> IF ex.op \in MemReads \cup MemWrites \cup AmoOps
                             THEN ex.op ELSE "reg",
                      rd |-> IF ex.op \in HasRd THEN ex.rd ELSE 0,
                      res |-> ex_result(dm), data |-> dtlb_store_data]
    <3>1. dtlb_store_data \in Val /\ ex.rd \in RegSet
      BY WiresTyped, Zenon DEF Fields
    <3>2. reg2.valid \in BOOLEAN
      BY Zenon DEF TypeOK
    <3>3. QED
      BY <1>1, <1>2, <2>3, <3>1, <3>2, Zenon
  <2>4. QED
    BY <2>1, <2>2, <2>3, Zenon DEF Reg3Edge
<1>4. div' \in [busy : BOOLEAN, done : BOOLEAN, result : Val]
  <2>1. DivFn(readData1_final, readData2_final) \in Val
    BY WiresTyped, ValClosed, Zenon
  <2>2. CASE div' = [busy |-> TRUE, done |-> FALSE,
                     result |-> DivFn(readData1_final, readData2_final)]
    BY <2>1, <2>2, Zenon
  <2>3. CASE div' \in {[div EXCEPT !.busy = FALSE, !.done = TRUE], div,
                       [div EXCEPT !.done = FALSE]}
    BY <2>3, Zenon DEF TypeOK
  <2>4. QED
    BY <2>2, <2>3, Zenon DEF DividerEdge
<1>5. dtlb' \in [miss : BOOLEAN, vaddr : Val, data : Val]
  <2>1. dtlb_miss(dm, bt) \in BOOLEAN
    BY Zenon DEF dtlb_miss
  <2>2. QED
    BY <2>1, WiresTyped, Zenon DEF TypeOK, DtlbEdge
<1>6. QED
  BY <1>3, <1>4, <1>5, Zenon

\* MEM and WB after an edge.
LEMMA MemTyped ==
  ASSUME TypeOK, Reg4Edge, RegisterEdge, MemoryEdge, MemStallEdge, AmoEdge
  PROVE  /\ reg4' \in [isAmo : BOOLEAN, rd : RegSet, val : Val]
         /\ regs' \in [RegSet \ {0} -> Val]
         /\ mem' \in [Val -> Val]
         /\ readData' \in Val
         /\ mem_read_pending_r' \in BOOLEAN /\ mem_stall_done_r' \in BOOLEAN
         /\ amo' \in [write_phase : BOOLEAN, done : BOOLEAN, captured : Val]
<1>1. reg4' \in [isAmo : BOOLEAN, rd : RegSet, val : Val]
  <2>1. amo_active \in BOOLEAN
    BY DEF amo_active
  <2>2. QED
    BY <2>1 DEF TypeOK, Reg4Edge
<1>2. regs' \in [RegSet \ {0} -> Val]
  BY WiresTyped, Zenon DEF TypeOK, RegisterEdge
<1>3. mem' \in [Val -> Val] /\ readData' \in Val
  BY WiresTyped, ValClosed, Zenon DEF TypeOK, MemoryEdge
<1>4. mem_read_pending_r' \in BOOLEAN
  BY Zenon DEF TypeOK, MemoryEdge, eff_memRead
<1>5. mem_stall_done_r' \in BOOLEAN
  BY Zenon DEF MemStallEdge
<1>6. amo' \in [write_phase : BOOLEAN, done : BOOLEAN, captured : Val]
  <2>1. CASE amo' \in {[amo EXCEPT !.write_phase = FALSE, !.done = FALSE], amo,
                       [amo EXCEPT !.done = TRUE]}
    BY <2>1, Zenon DEF TypeOK
  <2>2. CASE amo' = [amo EXCEPT !.captured = readData,
                                !.done = (reg3.op = "lr") \/ @,
                                !.write_phase = (reg3.op # "lr")]
    <3>1. ((reg3.op = "lr") \/ amo.done) \in BOOLEAN
      BY Zenon
    <3>2. (reg3.op # "lr") \in BOOLEAN
      BY Zenon
    <3>3. QED
      BY <2>2, <3>1, <3>2, Zenon DEF TypeOK
  <2>3. QED
    BY <2>1, <2>2, Zenon DEF AmoEdge
<1>7. QED
  BY <1>1, <1>2, <1>3, <1>4, <1>5, <1>6, Zenon

\* The CSRs after an edge.
LEMMA CsrTyped ==
  ASSUME TypeOK, NEW dm \in BOOLEAN, NEW it \in BOOLEAN, NEW bt \in BOOLEAN,
         CsrEdge(dm, it, bt)
  PROVE  csr' \in [scratch : Val, mie : BOOLEAN, mpie : BOOLEAN, mepc : PcSet,
                   instret : 0 .. (INSTRETMOD - 1)]
<1> DEFINE Csr == [scratch : Val, mie : BOOLEAN, mpie : BOOLEAN, mepc : PcSet,
                   instret : 0 .. (INSTRETMOD - 1)]
<1>1. ScratchEdge(dm, bt) \in Val
  BY WiresTyped, Zenon DEF TypeOK, ScratchEdge
<1>2. InstretEdge \in 0 .. (INSTRETMOD - 1)
  <2>1. csr.instret \in 0 .. (INSTRETMOD - 1)
    BY Zenon DEF TypeOK
  <2>2. csr.instret + 1 \in Int
    BY <2>1, IsaAssumption
  <2>3. (csr.instret + 1) % INSTRETMOD \in 0 .. (INSTRETMOD - 1)
    BY <2>2, ModRange, IsaAssumption, Zenon
  <2>4. QED
    BY <2>1, <2>3, Zenon DEF InstretEdge
<1>3. MstatusEdge(dm, it, bt) \in Csr
  <2>1. interrupt_mepc \in PcSet /\ reg2.pc \in PcSet /\ csr \in Csr
    BY Zenon DEF TypeOK, interrupt_mepc
  <2>2. [csr EXCEPT !.mpie = csr.mie, !.mie = FALSE,
                    !.mepc = IF it THEN interrupt_mepc ELSE reg2.pc] \in Csr
    BY <2>1, Zenon
  <2>3. [csr EXCEPT !.mie = csr.mpie, !.mpie = TRUE] \in Csr
    BY <2>1, Zenon
  <2>4. [csr EXCEPT !.mie = (readData1_final # 0)] \in Csr
    <3>1. (readData1_final # 0) \in BOOLEAN
      BY Zenon
    <3>2. QED
      BY <2>1, <3>1, Zenon
  <2>5. QED
    BY <2>1, <2>2, <2>3, <2>4, Zenon DEF MstatusEdge
<1>4. QED
  BY <1>1, <1>2, <1>3, Zenon DEF CsrEdge

\* What a step is: inputs, a settled value of interrupt_taken, and the edges.
LEMMA StepInputs ==
  ASSUME TypeOK, Next
  PROVE  \E fm, dm, fin, it, bt \in BOOLEAN :
           bt = branch_taken(dm, it) /\ Edges(fm, dm, fin, it, bt)
<1>1. PICK fm \in BOOLEAN, dm \in BOOLEAN, fin \in BOOLEAN : Clock(fm, dm, fin)
  BY Zenon DEF Next
<1>2. PICK it \in BOOLEAN : Edges(fm, dm, fin, it, branch_taken(dm, it))
  BY <1>1, Zenon DEF Clock
<1>3. branch_taken(dm, it) \in BOOLEAN
  BY Zenon DEF branch_taken
<1>4. QED
  BY <1>2, <1>3, Zenon

\* Every step leaves every register in its type.
LEMMA NextTyped == ASSUME TypeOK, [Next]_vars PROVE TypeOK'
<1>1. CASE UNCHANGED vars
  BY <1>1 DEF TypeOK, vars
<1>2. CASE Next
  <2>1. PICK fm, dm, fin, it, bt \in BOOLEAN :
          bt = branch_taken(dm, it) /\ Edges(fm, dm, fin, it, bt)
    BY <1>2, StepInputs, Zenon
  <2>2. PICK p \in Prediction :
          /\ bt = branch_taken(dm, it) /\ PcEdge(fm, dm, it, bt, p)
          /\ Reg1aEdge(fm, dm, bt, p) /\ Reg1Edge(fm, dm, bt, p)
    BY <2>1, Zenon DEF Edges, FetchEdge
  <2>3. redirect_squash_extend_r' \in BOOLEAN
    BY <2>1, Zenon DEF Edges, SquashExtendEdge
  <2>4. /\ pc' \in PcSet
        /\ reg1a' \in [pc : PcSet, pt : BOOLEAN, ptgt : PcSet]
        /\ reg1' \in [valid : BOOLEAN, pc : PcSet, inst : Inst \cup {Nop},
                      pt : BOOLEAN, ptgt : PcSet]
    BY <2>2, FetchTyped, Zenon
  <2>5. reg2' \in [valid : BOOLEAN, pc : PcSet, inst : Inst \cup {Nop},
                   pt : BOOLEAN, ptgt : PcSet, a : Val, b : Val]
    BY <2>1, Reg2Typed, Zenon DEF Edges
  <2>6. /\ reg3' \in [valid : BOOLEAN,
                      op : {"reg"} \cup MemReads \cup MemWrites \cup AmoOps,
                      rd : RegSet, res : Val, data : Val]
        /\ div' \in [busy : BOOLEAN, done : BOOLEAN, result : Val]
        /\ dtlb' \in [miss : BOOLEAN, vaddr : Val, data : Val]
    BY <2>1, ExTyped, Zenon DEF Edges
  <2>7. csr' \in [scratch : Val, mie : BOOLEAN, mpie : BOOLEAN, mepc : PcSet,
                  instret : 0 .. (INSTRETMOD - 1)]
    BY <2>1, CsrTyped, Zenon DEF Edges
  <2>8. build' \in Builds
    BY <2>1, Zenon DEF Edges, TypeOK
  <2>9. Reg4Edge /\ RegisterEdge /\ MemoryEdge /\ MemStallEdge /\ AmoEdge
    BY <2>1, Zenon DEF Edges
  <2>10. QED
    BY <2>3, <2>4, <2>5, <2>6, <2>7, <2>8, <2>9, MemTyped, Zenon DEF TypeOK
<1>3. QED
  BY <1>1, <1>2, Zenon

\* Type correctness of the whole pipeline: no interlock, redirect or trap puts
\* into any pipeline register of riscvpipeline.v a value outside its range.
THEOREM TypeCorrect == Spec => []TypeOK
<1>1. Init => TypeOK
  BY InitTyped, Zenon
<1>2. TypeOK /\ [Next]_vars => TypeOK'
  BY NextTyped, Zenon
<1>3. QED
  BY <1>1, <1>2, PTL DEF Spec

(***************************************************************************)
(* The load-use interlock.                                                 *)
(***************************************************************************)

\* How reg2 moves: held, or a bubble without sources, or the instruction in ID.
LEMMA Reg2Moves ==
  ASSUME NEW fm \in BOOLEAN, NEW dm \in BOOLEAN, NEW bt \in BOOLEAN,
         Reg2Edge(fm, dm, bt)
  PROVE  \/ reg2_hold(dm, bt) /\ reg2' = reg2
         \/ ~reg2_hold(dm, bt) /\ reg2'.inst = Nop
         \/ /\ ~reg2_hold(dm, bt) /\ ~bt /\ ~stall(bt)
            /\ reg2'.inst = reg1.inst
            /\ reg2'.a = RegisterFile(reg1.inst.rs1)
            /\ reg2'.b = RegisterFile(reg1.inst.rs2)
<1>1. CASE reg2_hold(dm, bt)
  BY <1>1, Zenon DEF Reg2Edge
<1>2. CASE ~reg2_hold(dm, bt) /\ (bt \/ stall(bt) \/ fetch_miss(fm, bt))
  <2>1. \/ reg2' = NoReg2
        \/ reg2' = [NoReg2 EXCEPT !.pc = reg1.pc, !.pt = reg1.pt,
                                  !.ptgt = reg1.ptgt]
    BY <1>2, Zenon DEF Reg2Edge
  <2>2. NoReg2.inst = Nop
    BY Zenon DEF NoReg2
  <2>3. [NoReg2 EXCEPT !.pc = reg1.pc, !.pt = reg1.pt,
                       !.ptgt = reg1.ptgt].inst = Nop
    BY Zenon DEF NoReg2
  <2>4. reg2'.inst = Nop
    BY <2>1, <2>2, <2>3, Zenon
  <2>5. QED
    BY <1>2, <2>4, Zenon
<1>3. CASE ~reg2_hold(dm, bt) /\ ~bt /\ ~stall(bt) /\ ~fetch_miss(fm, bt)
  <2>1. reg2' = [valid |-> reg1.valid, pc |-> reg1.pc, inst |-> reg1.inst,
                 pt |-> reg1.pt, ptgt |-> reg1.ptgt,
                 a |-> RegisterFile(reg1.inst.rs1),
                 b |-> RegisterFile(reg1.inst.rs2)]
    BY <1>3, Zenon DEF Reg2Edge
  <2>2. QED
    BY <1>3, <2>1, Zenon
<1>4. QED
  BY <1>1, <1>2, <1>3, Zenon

\* A cycle in which neither MEM holds EX nor EX holds itself leaves reg3 with
\* the instruction that was in EX; when EX holds itself reg3 gets a bubble.
LEMMA Reg3Moves ==
  ASSUME NEW dm \in BOOLEAN, NEW bt \in BOOLEAN, Reg3Edge(dm, bt)
  PROVE  /\ mem_hold => reg3' = reg3
         /\ ~mem_hold /\ reg2_hold(dm, bt) => reg3' = NoReg3
         /\ ~mem_hold =>
              \/ reg3' = NoReg3
              \/ /\ reg3'.op = IF ex.op \in MemReads \cup MemWrites \cup AmoOps
                               THEN ex.op ELSE "reg"
                 /\ reg3'.rd = IF ex.op \in HasRd THEN ex.rd ELSE 0
  BY DEF Reg3Edge, reg2_hold, reg3_bubble

LEMMA LoadUseStep == ASSUME TypeOK, LoadUseSafe, Next PROVE LoadUseSafe'
<1>1. PICK fm, dm, fin, it, bt \in BOOLEAN :
        bt = branch_taken(dm, it) /\ Edges(fm, dm, fin, it, bt)
  BY StepInputs, Zenon
<1>2. Reg2Edge(fm, dm, bt) /\ Reg3Edge(dm, bt) /\ build' = build
  BY <1>1, Zenon DEF Edges
<1>3. CASE mem_hold
  BY <1>2, <1>3, Reg2Moves, Reg3Moves, Zenon
     DEF LoadUseSafe, Reads, ex, reg2_hold
<1>4. CASE ~mem_hold /\ reg2_hold(dm, bt)
  BY <1>2, <1>4, Reg3Moves DEF LoadUseSafe, NoReg3
<1>5. CASE ~reg2_hold(dm, bt)
  <2>1. CASE reg2'.inst = Nop
    BY <2>1 DEF LoadUseSafe, Reads, ex, Nop
  <2>2. CASE ~bt /\ ~stall(bt) /\ reg2'.inst = reg1.inst
    <3>1. SUFFICES ASSUME reg3'.op \in MemReads \cup AmoOps, reg3'.rd # 0
                   PROVE ~Reads(reg1.inst, reg3'.rd)
      BY <2>2, Zenon DEF LoadUseSafe, Reads, ex
    <3>2. ex.op \in MemReads \cup AmoOps /\ ex.op \in HasRd /\ reg3'.rd = ex.rd
      BY <1>2, <1>5, <3>1, Reg3Moves
         DEF reg2_hold, NoReg3, MemReads, AmoOps, MemWrites, HasRd
    <3>3. QED
      BY <2>2, <3>1, <3>2, Zenon DEF stall, Hazard, HazardNoForward
  <2>3. QED
    BY <1>2, <1>5, <2>1, <2>2, Reg2Moves, Zenon
<1>6. QED
  BY <1>3, <1>4, <1>5, Zenon

\* LoadUseSafe holds with every hazard unit and whatever else stalls: the value
\* of a load or AMO still in MEM is never forwarded to the instruction in EX.
THEOREM LoadUse == Spec => []LoadUseSafe
<1>1. Init => LoadUseSafe
  BY DEF Init, NoReg3, LoadUseSafe
<1>2. TypeOK /\ LoadUseSafe /\ [Next]_vars => LoadUseSafe'
  <2>1. ASSUME TypeOK, LoadUseSafe, UNCHANGED vars PROVE LoadUseSafe'
    BY <2>1, Zenon DEF LoadUseSafe, Reads, ex, vars
  <2>2. QED
    BY <2>1, LoadUseStep, Zenon
<1>3. QED
  BY <1>1, <1>2, TypeCorrect, PTL DEF Spec

(***************************************************************************)
(* Forwarding.  While the producers of an instruction in EX have not moved *)
(* since it entered EX (Waiting), a register that no instruction in MEM or *)
(* WB writes still holds the operand read in ID, and the stalling hazard   *)
(* unit leaves no producer in MEM or WB.  OperandsFresh alone is not       *)
(* inductive: a translation that ends while MEM still holds the pipeline   *)
(* makes the live operands visible again.                                  *)
(***************************************************************************)
Waiting == mem_hold \/ ~(dtlb.miss \/ div.busy \/ div.done)

Tracks(r, v) == r # 0 =>
                  /\ reg3.rd # r /\ reg4.rd # r => v = regs[r]
                  /\ ~build.Forwarding => reg3.rd # r /\ reg4.rd # r

OperandsTracked == Waiting => Tracks(ex.rs1, reg2.a) /\ Tracks(ex.rs2, reg2.b)

\* What ID reads is what the register file holds after the edge.
LEMMA ReadAfterWrite ==
  ASSUME TypeOK, RegisterEdge, NEW r \in RegSet \ {0}
  PROVE  /\ RegisterFile(r) = regs'[r]
         /\ reg4.rd # r => regs'[r] = regs[r]
  BY Zenon DEF TypeOK, RegisterEdge, RegisterFile

\* When EX holds itself the divider or the translation owns the operands.
LEMMA SelfHeld ==
  ASSUME TypeOK, NEW dm \in BOOLEAN, NEW bt \in BOOLEAN, NEW fin \in BOOLEAN,
         Reg3Edge(dm, bt), DividerEdge(fin), DtlbEdge(dm, bt),
         ~mem_hold, reg2_hold(dm, bt)
  PROVE  ~Waiting'
<1>1. reg3' = NoReg3
  BY Reg3Moves, Zenon
<1>2. ~mem_hold'
  BY <1>1, Zenon DEF NoReg3, mem_hold, mem_stall, amo_stall, amo_active, AmoOps
<1>3. CASE div_stall
  <2>1. isDivRem /\ ~div.done
    BY <1>3, Zenon DEF div_stall
  <2>2. \/ div' = [busy |-> TRUE, done |-> FALSE,
                   result |-> DivFn(readData1_final, readData2_final)]
        \/ div' = [div EXCEPT !.busy = FALSE, !.done = TRUE]
        \/ div.busy /\ div' = div
    BY <2>1, Zenon DEF DividerEdge
  <2>3. CASE div' = [busy |-> TRUE, done |-> FALSE,
                     result |-> DivFn(readData1_final, readData2_final)]
    BY <1>2, <2>3, Zenon DEF Waiting
  <2>4. CASE div' = [div EXCEPT !.busy = FALSE, !.done = TRUE]
    <3>1. div'.done
      BY <2>4, Zenon DEF TypeOK
    <3>2. QED
      BY <1>2, <3>1, Zenon DEF Waiting
  <2>5. CASE div.busy /\ div' = div
    BY <1>2, <2>5, Zenon DEF Waiting
  <2>6. QED
    BY <2>2, <2>3, <2>4, <2>5, Zenon
<1>4. CASE dtlb_miss(dm, bt)
  <2>1. dtlb'.miss
    BY <1>4, Zenon DEF DtlbEdge, TypeOK
  <2>2. QED
    BY <1>2, <2>1, Zenon DEF Waiting
<1>5. QED
  BY <1>3, <1>4, Zenon DEF reg2_hold

LEMMA TrackedStep == ASSUME TypeOK, OperandsTracked, Next PROVE OperandsTracked'
<1>1. PICK fm, dm, fin, it, bt \in BOOLEAN :
        bt = branch_taken(dm, it) /\ Edges(fm, dm, fin, it, bt)
  BY StepInputs, Zenon
<1>2. /\ Reg2Edge(fm, dm, bt) /\ Reg3Edge(dm, bt) /\ Reg4Edge /\ RegisterEdge
      /\ DividerEdge(fin) /\ DtlbEdge(dm, bt) /\ build' = build
  BY <1>1, Zenon DEF Edges
<1>3. CASE mem_hold
  <2>1. reg2' = reg2 /\ reg3' = reg3 /\ reg4' = reg4
    BY <1>2, <1>3, Reg2Moves, Reg3Moves, Zenon DEF reg2_hold, Reg4Edge
  <2>2. ASSUME NEW r \in RegSet, NEW v, Tracks(r, v) PROVE Tracks(r, v)'
    BY <1>2, <2>1, <2>2, ReadAfterWrite, Zenon DEF Tracks
  <2>3. Tracks(ex.rs1, reg2.a) /\ Tracks(ex.rs2, reg2.b)
    BY <1>3, Zenon DEF OperandsTracked, Waiting
  <2>4. ex.rs1 \in RegSet /\ ex.rs2 \in RegSet
    BY WiresTyped, Zenon DEF Fields
  <2>5. QED
    BY <2>1, <2>2, <2>3, <2>4, Zenon DEF OperandsTracked, ex
<1>4. CASE ~mem_hold /\ reg2_hold(dm, bt)
  BY <1>2, <1>4, SelfHeld, Zenon DEF OperandsTracked
<1>5. CASE ~reg2_hold(dm, bt)
  <2>1. CASE reg2'.inst = Nop
    BY <2>1 DEF OperandsTracked, Tracks, ex, Nop
  <2>2. CASE /\ ~bt /\ ~stall(bt) /\ reg2'.inst = reg1.inst
             /\ reg2'.a = RegisterFile(reg1.inst.rs1)
             /\ reg2'.b = RegisterFile(reg1.inst.rs2)
    <3>1. ~mem_hold
      BY <1>5, Zenon DEF reg2_hold
    <3>2. reg4'.rd = reg3.rd
      BY <1>2, <3>1 DEF Reg4Edge
    <3>3. reg3'.rd \in {0, IF ex.op \in HasRd THEN ex.rd ELSE 0}
      BY <1>2, <3>1, Reg3Moves DEF NoReg3
    <3>4. ASSUME NEW r \in RegSet, NEW v, r # 0, Reads(reg1.inst, r),
                 v = RegisterFile(r)
          PROVE  Tracks(r, v)'
      <4>1. ~build.Forwarding => reg3'.rd # r /\ reg4'.rd # r
        BY <2>2, <3>2, <3>3, <3>4 DEF stall, HazardNoForward
      <4>2. RegisterFile(r) = regs'[r]
        BY <1>2, <3>4, ReadAfterWrite, Zenon
      <4>3. QED
        BY <1>2, <3>4, <4>1, <4>2, Zenon DEF Tracks
    <3>5. reg1.inst.rs1 \in RegSet /\ reg1.inst.rs2 \in RegSet
      BY WiresTyped, Zenon DEF Fields
    <3>6. Tracks(ex.rs1, reg2.a)'
      BY <2>2, <3>4, <3>5, Zenon DEF Tracks, Reads, ex
    <3>7. Tracks(ex.rs2, reg2.b)'
      BY <2>2, <3>4, <3>5, Zenon DEF Tracks, Reads, ex
    <3>8. QED
      BY <3>6, <3>7, Zenon DEF OperandsTracked
  <2>3. QED
    BY <1>2, <1>5, <2>1, <2>2, Reg2Moves, Zenon
<1>6. QED
  BY <1>3, <1>4, <1>5, Zenon

\* A tracked operand, once forwarded, is the architectural one.
LEMMA TrackedFresh ==
  ASSUME TypeOK, LoadUseSafe, OperandsTracked PROVE OperandsFresh
<1>1. SUFFICES ASSUME reg2.valid, ~Drained
               PROVE  /\ ex.rs1 # 0 => readData1_final = RegBar(ex.rs1)
                      /\ ex.rs2 # 0 => readData2_final = RegBar(ex.rs2)
  BY Zenon DEF OperandsFresh
<1>2. Tracks(ex.rs1, reg2.a) /\ Tracks(ex.rs2, reg2.b)
  BY <1>1, Zenon DEF OperandsTracked, Waiting, Drained
<1>3. ASSUME NEW r, NEW v, r # 0, Reads(ex, r), Tracks(r, v)
      PROVE  Forward(r, v) = RegBar(r)
  <2>1. reg3.rd = r => reg3.op \notin MemReads \cup AmoOps
    BY <1>1, <1>3, Zenon DEF LoadUseSafe
  <2>2. QED
    BY <1>3, <2>1, Zenon DEF Tracks, Forward, RegBar
<1>4. QED
  BY <1>2, <1>3, Zenon DEF readData1_final, readData2_final, Reads

\* The operands of the instruction in EX are the architectural ones whatever
\* holds it there, until the divider or the translation has taken them over:
\* Forward.v with Hazard.v, and HazardNoForward.v without it, are complete.
THEOREM Operands == Spec => []OperandsFresh
<1>1. Init => OperandsTracked
  <2>1. Init => reg2.inst.rs1 = 0 /\ reg2.inst.rs2 = 0
    BY DEF Init, NoReg2, Nop
  <2>2. QED
    BY <2>1, Zenon DEF OperandsTracked, Tracks, ex
<1>2. TypeOK /\ OperandsTracked /\ [Next]_vars => OperandsTracked'
  <2>1. ASSUME TypeOK, OperandsTracked, UNCHANGED vars PROVE OperandsTracked'
    BY <2>1, Zenon
       DEF OperandsTracked, Waiting, Tracks, ex, vars, mem_hold, mem_stall,
                amo_stall, amo_active, lsu_ack, eff_memWrite
  <2>2. QED
    BY <2>1, TrackedStep, Zenon
<1>3. TypeOK /\ LoadUseSafe /\ OperandsTracked => OperandsFresh
  BY TrackedFresh, Zenon
<1>4. QED
  BY <1>1, <1>2, <1>3, TypeCorrect, LoadUse, PTL DEF Spec

(***************************************************************************)
(* The pipeline implements the architecture: RefinesIsa for every number   *)
(* of registers, values and program counters, and every build that         *)
(* Supported admits.                                                       *)
(***************************************************************************)
ReadOps == {"load"} \cup AmoOps

\* The builds the refinement is proved for.  What is left out is where the
\* pipeline departs from the architecture (README, sections 6 and 7): sc, which
\* returns the old memory value; a faulting load; an AMO right behind an access
\* that reads, and minstret around AMOs and split fetch; bubbles and misses
\* under the predictor; an interrupt under split fetch, against an instruction
\* that writes mie, or during a data-TLB miss.
Supported(b) ==
  /\ b.Ops \cap {"sc", "lpf"} = {}
  /\ b.Ops \cap AmoOps # {} => ReadOps \subseteq b.AmoNotAfter /\ INSTRETMOD = 1
  /\ b.Predictor => /\ b.Forwarding /\ ~b.FetchStalls
                    /\ b.Ops \cap ReadOps = {}
  /\ b.SplitFetch => b.BootNop /\ ~b.Interrupts /\ INSTRETMOD = 1
  /\ b.Interrupts => "csrmie" \notin b.Ops
  /\ b.DataStalls /\ (b.Interrupts \/ b.Predictor) =>
       b.Ops \cap {"load", "store"} = {}

\* What the architecture has in a register; where the fetch behind an
\* instruction goes, and what may be there (under split fetch the reset address
\* is fetched twice); and whether and where the instruction in EX redirects it.
Value(r) == IF r = 0 THEN 0 ELSE RegBar(r)

Predicted(x) == IF x.pt THEN x.ptgt ELSE NextPC(x.pc)

Follows(x, q) == \/ q = Predicted(x)
                 \/ build.SplitFetch /\ x.pc = 0 /\ ~x.pt /\ q = 0

Jumps == \/ ex.op \in {"jal", "jalr"}
         \/ ex.op = "beq" /\ Value(ex.rs1) = Value(ex.rs2)
JumpTarget == IF ex.op = "jalr" THEN JumpTo(Value(ex.rs1)) ELSE ex.imm
Redirecting ==
  \/ IF build.Predictor
     THEN reg2.pt # Jumps \/ (Jumps /\ reg2.ptgt # JumpTarget)
     ELSE Jumps
  \/ ex.op \in {"ecall", "mret"}

\* The stages hold instructions of the build's programs, bubbles are nops.
Kinds ==
  /\ reg1.inst.op \in build.Ops \cup {"li"}
  /\ ex.op \in build.Ops \cup {"li"}
  /\ reg3.op \in build.Ops \cup {"reg"}
  /\ ~reg1.valid => reg1.inst = Nop /\ ~reg1.pt
  /\ ~reg2.valid => ex = Nop /\ ~reg2.pt
  /\ ~build.Predictor => ~reg1a.pt /\ ~reg1.pt /\ ~reg2.pt
  /\ build.BootNop => /\ reg1.pc = 0 => reg1.inst = Nop
                      /\ reg2.pc = 0 => ex = Nop
  /\ ex.rs1 = 0 => reg2.a = 0
  /\ ex.rs2 = 0 => reg2.b = 0

\* No instruction between EX and the fetch is missing or there twice: each
\* stage holds the successor of the next one, or is about to be redirected.
Sequence ==
  /\ reg1.valid => Follows(reg1, IF build.SplitFetch THEN reg1a.pc ELSE pc)
  /\ build.SplitFetch /\ ~redirect_squash_extend_r => Follows(reg1a, pc)
  /\ reg2.valid /\ reg1.valid => Follows(reg2, reg1.pc)
  /\ reg2.valid /\ ~reg1.valid => Redirecting
  /\ redirect_squash_extend_r =>
       /\ build.SplitFetch /\ ~reg1.valid
       /\ ~reg2.valid => reg3.op \notin ReadOps

\* No AMO is right behind an access that reads.
Apart ==
  /\ reg1.inst.op \in AmoOps => ex.op \notin ReadOps
  /\ ex.op \in AmoOps => reg3.op \notin ReadOps
  /\ reg4.isAmo => ~amo_active

\* What MEM has read so far is what the memory holds.
Access ==
  /\ mem_stall_done_r => reg3.op = "load" /\ readData = mem[reg3.res]
  /\ amo_active =>
       /\ amo.write_phase => reg3.op = "amo"
       /\ mem_read_pending_r /\ ~amo.write_phase => readData = mem[reg3.res]
       /\ amo.write_phase /\ ~amo.done => amo.captured = mem[reg3.res]
       /\ amo.done => IF reg3.op = "lr" THEN amo.captured = mem[reg3.res]
                      ELSE amo.write_phase /\ ~mem_read_pending_r

\* A divide and a missed access keep the operands they were started with.
Taken ==
  /\ ~(div.busy /\ div.done)
  /\ div.busy \/ div.done =>
       isDivRem /\ div.result = DivFn(Value(ex.rs1), Value(ex.rs2))
  /\ dtlb.miss => /\ ex.op \in {"load", "store"}
                  /\ dtlb.vaddr = Value(ex.rs1) /\ dtlb.data = Value(ex.rs2)

\* A clock cycle, with the settled value of branch_taken.
Cycle(fm, dm, fin, it, bt) ==
  /\ bt = (other_redirect_taken(dm) \/ it)
  /\ fm => build.FetchStalls
  /\ dm => dtlb_needed
  /\ it => /\ build.Interrupts /\ csr.mie
           /\ ~pc_stall(fm, dm, bt) /\ ~other_redirect_taken(dm)
  /\ Edges(fm, dm, fin, it, bt)

\* Every step of the pipeline is such a cycle.
LEMMA StepIsCycle ==
  ASSUME Next
  PROVE  \E fm, dm, fin, it, bt \in BOOLEAN : Cycle(fm, dm, fin, it, bt)
<1>1. PICK fm \in BOOLEAN, dm \in BOOLEAN, fin \in BOOLEAN :
        /\ fm => build.FetchStalls
        /\ dm => dtlb_needed
        /\ Clock(fm, dm, fin)
  BY Zenon DEF Next
<1>2. PICK irq \in BOOLEAN, it \in BOOLEAN :
        /\ irq => build.Interrupts
        /\ it = interrupt_taken(irq, fm, dm, branch_taken(dm, it))
        /\ Edges(fm, dm, fin, it, branch_taken(dm, it))
  BY <1>1, Zenon DEF Clock, Settled
<1>3. branch_taken(dm, it) \in BOOLEAN
  BY Zenon DEF branch_taken
<1>4. it => /\ build.Interrupts /\ csr.mie
            /\ ~pc_stall(fm, dm, branch_taken(dm, it)) /\ ~other_redirect_taken(dm)
  BY <1>2, Zenon DEF interrupt_taken
<1>5. Cycle(fm, dm, fin, it, branch_taken(dm, it))
  BY <1>1, <1>2, <1>4, Zenon DEF Cycle, branch_taken
<1>6. QED
  BY <1>3, <1>5, Zenon

\* What the instruction in MEM will write.
MemValue == IF reg3.op \in MemReads \cup AmoOps THEN LoadedValue ELSE reg3.res

\* A register is what MEM will write to it, or the register file's.
LEMMA RegBarIs ==
  ASSUME NEW r, r # 0
  PROVE  RegBar(r) = IF reg3.rd = r THEN MemValue ELSE RegisterFile(r)
  BY Zenon DEF RegBar, MemValue, RegisterFile

\* The kinds of instructions that reach MEM.
LEMMA OpsIn ==
  ASSUME TypeOK, Kinds, Supported(build)
  PROVE  /\ reg3.op \in {"reg", "load", "store", "amo", "lr"}
         /\ ex.op \in AllOps \ {"sc", "lpf"}
         /\ reg1.inst.op \in AllOps \ {"sc", "lpf"}
<1>1. build.Ops \subseteq AllOps \ {"sc", "lpf"}
  BY BuildsAssumption DEF TypeOK, Build, Supported
<1>2. reg3.op \in {"reg", "load", "store", "amo", "lr"}
  BY <1>1 DEF TypeOK, Kinds, MemReads, MemWrites, AmoOps
<1>3. QED
  BY <1>1, <1>2 DEF Kinds, AllOps

\* The edges of MEM and WB.
MemoryEdges == RegisterEdge /\ MemoryEdge /\ MemStallEdge /\ AmoEdge /\ Reg4Edge

\* While WB is held, what it writes stays the same, and so does a register.
LEMMA WritebackStays ==
  ASSUME TypeOK, Apart, AmoEdge, reg4' = reg4
  PROVE  writeData_regwb' = writeData_regwb
<1>1. CASE reg4.isAmo
  <2>1. amo'.captured = amo.captured
    BY <1>1, Zenon DEF TypeOK, Apart, AmoEdge
  <2>2. QED
    BY <2>1, Zenon DEF writeData_regwb
<1>2. CASE ~reg4.isAmo
  BY <1>2, Zenon DEF writeData_regwb
<1>3. QED
  BY <1>1, <1>2, Zenon

LEMMA FileStays ==
  ASSUME TypeOK, Apart, AmoEdge, RegisterEdge, reg4' = reg4,
         NEW r \in RegSet \ {0}
  PROVE  RegisterFile(r)' = RegisterFile(r)
<1>1. writeData_regwb' = writeData_regwb
  BY WritebackStays, Zenon
<1>2. RegisterFile(r) = regs'[r]
  BY ReadAfterWrite, Zenon
<1>3. QED
  BY <1>1, <1>2, Zenon DEF RegisterFile

\* A cycle in which MEM waits changes neither registers nor memory.
LEMMA MemWaits ==
  ASSUME TypeOK, Kinds, Supported(build), Apart, Access, MemoryEdges, mem_hold,
         reg3' = reg3
  PROVE  /\ \A r \in RegSet \ {0} : RegBar(r)' = RegBar(r)
         /\ MemBar' = MemBar
         /\ Access'
         /\ reg4' = reg4
<1>1. reg4' = reg4
  BY Zenon DEF MemoryEdges, Reg4Edge
<1>2. reg3.op \in {"load", "amo", "lr"}
  BY OpsIn DEF mem_hold, mem_stall, amo_stall, amo_active, AmoOps, lsu_ack,
               eff_memWrite
<1>3. /\ LoadedValue' = LoadedValue
      /\ MemBar' = MemBar
      /\ Access'
  <2>1. CASE reg3.op = "load"
    <3>1. ~amo_active /\ eff_memRead /\ ~eff_memWrite
      BY <2>1 DEF amo_active, AmoOps, eff_memRead, eff_memWrite
    <3>2. mem' = mem /\ readData' = mem[reg3.res]
      BY <3>1, Zenon DEF MemoryEdges, MemoryEdge
    <3>3. LoadedValue' = LoadedValue /\ MemBar' = MemBar
      BY <2>1, <3>2 DEF LoadedValue, MemBar, AmoOps
    <3>4. QED
      BY <2>1, <3>2, <3>3 DEF Access, amo_active, AmoOps
  <2>2. CASE reg3.op \in {"amo", "lr"} /\ ~amo.write_phase
    <3>1. amo_active /\ ~amo.done /\ eff_memRead /\ ~eff_memWrite
      BY <2>2 DEF mem_hold, mem_stall, amo_stall, amo_active, AmoOps,
                  eff_memRead, eff_memWrite
    <3>2. mem' = mem /\ readData' = mem[reg3.res] /\ mem_read_pending_r'
      BY <3>1, Zenon DEF MemoryEdges, MemoryEdge
    <3>3. ~mem_stall_done_r'
      BY <2>2, Zenon DEF MemoryEdges, MemStallEdge, mem_stall
    <3>4. CASE ~lsu_ack
      <4>1. amo' = amo
        BY <3>1, <3>4, Zenon DEF MemoryEdges, AmoEdge
      <4>2. QED
        BY <2>2, <3>1, <3>2, <3>3, <4>1
           DEF LoadedValue, MemBar, Access, amo_active, AmoOps
    <3>5. CASE lsu_ack
      <4>1. readData = mem[reg3.res]
        BY <2>2, <3>1, <3>5, Zenon DEF Access, lsu_ack
      <4>2. /\ amo'.captured = mem[reg3.res]
            /\ amo'.done <=> reg3.op = "lr"
            /\ amo'.write_phase <=> reg3.op # "lr"
        BY <2>2, <3>1, <3>5, <4>1, Zenon DEF TypeOK, MemoryEdges, AmoEdge
      <4>3. LoadedValue' = LoadedValue
        BY <2>2, <3>1, <3>2, <4>2 DEF LoadedValue
      <4>4. MemBar' = MemBar
        BY <2>2, <3>1, <3>2, <4>2, <4>3 DEF MemBar
      <4>5. Access'
        BY <2>2, <3>2, <3>3, <4>2 DEF Access
      <4>6. QED
        BY <4>3, <4>4, <4>5, Zenon
    <3>6. QED
      BY <3>4, <3>5, Zenon
  <2>3. CASE reg3.op \in {"amo", "lr"} /\ amo.write_phase
    <3>1. amo_active /\ ~amo.done /\ ~eff_memRead /\ eff_memWrite /\ lsu_ack
      BY <2>3 DEF mem_hold, mem_stall, amo_stall, amo_active, AmoOps,
                  eff_memRead, eff_memWrite, lsu_ack
    <3>2. reg3.op = "amo" /\ amo.captured = mem[reg3.res]
      BY <2>3, <3>1, Zenon DEF Access
    <3>3. /\ mem' = [mem EXCEPT ![reg3.res] = AmoFn(amo.captured, reg3.data)]
          /\ ~mem_read_pending_r'
      BY <3>1, <3>2, Zenon DEF MemoryEdges, MemoryEdge, bus_wdata
    <3>4. ~mem_stall_done_r'
      BY <2>3, Zenon DEF MemoryEdges, MemStallEdge, mem_stall
    <3>5. amo' = [amo EXCEPT !.done = TRUE]
      BY <2>3, <3>1, Zenon DEF MemoryEdges, AmoEdge
    <3>6. amo'.done /\ amo'.write_phase /\ amo'.captured = amo.captured
      BY <2>3, <3>5, Zenon DEF TypeOK
    <3>7. LoadedValue' = LoadedValue /\ LoadedValue = amo.captured
      BY <2>3, <3>1, <3>6, Zenon DEF LoadedValue, amo_active
    <3>8. MemBar' = MemBar
      BY <3>1, <3>2, <3>3, <3>6, <3>7 DEF MemBar
    <3>9. Access'
      BY <3>2, <3>3, <3>4, <3>6 DEF Access
    <3>10. QED
      BY <3>7, <3>8, <3>9, Zenon
  <2>4. QED
    BY <1>2, <2>1, <2>2, <2>3, Zenon
<1>4. ASSUME NEW r \in RegSet \ {0} PROVE RegBar(r)' = RegBar(r)
  <2>1. RegisterFile(r)' = RegisterFile(r)
    BY <1>1, FileStays, Zenon DEF MemoryEdges
  <2>2. MemValue' = MemValue
    BY <1>3, Zenon DEF MemValue
  <2>3. r # 0
    OBVIOUS
  <2>4. RegBar(r) = IF reg3.rd = r THEN MemValue ELSE RegisterFile(r)
    BY <2>3, RegBarIs, Zenon
  <2>5. RegBar(r)' = IF reg3'.rd = r THEN MemValue' ELSE RegisterFile(r)'
    BY <2>3, Zenon DEF RegBar, MemValue, RegisterFile
  <2>6. QED
    BY <2>1, <2>2, <2>4, <2>5
<1>5. QED
  BY <1>1, <1>3, <1>4, Zenon

\* A cycle in which MEM moves leaves its effects in the memory and in WB.
LEMMA MemMoves ==
  ASSUME TypeOK, Kinds, Supported(build), Apart, Access, MemoryEdges, ~mem_hold
  PROVE  /\ mem' = MemBar
         /\ \A r \in RegSet \ {0} : RegisterFile(r)' = RegBar(r)
<1>1. reg3.op \in {"reg", "load", "store", "amo", "lr"}
  BY OpsIn, Zenon
<1>2. amo_active => amo.done /\ reg3.op \in {"amo", "lr"}
  BY <1>1, Zenon DEF mem_hold, amo_stall, amo_active, AmoOps
<1>3. mem' = MemBar
  <2>1. CASE amo_active
    <3>1. ~eff_memWrite
      BY <1>2, <2>1, Zenon DEF eff_memWrite
    <3>2. mem' = mem
      BY <3>1, Zenon DEF MemoryEdges, MemoryEdge
    <3>3. QED
      BY <1>2, <2>1, <3>2 DEF MemBar
  <2>2. CASE ~amo_active
    <3>1. eff_memWrite <=> reg3.op = "store"
      BY <2>2, Zenon DEF eff_memWrite
    <3>2. reg3.op = "store" => bus_wdata = reg3.data
      BY DEF bus_wdata
    <3>3. QED
      BY <2>2, <3>1, <3>2, Zenon DEF MemoryEdges, MemoryEdge, MemBar, amo_active, AmoOps
  <2>3. QED
    BY <2>1, <2>2, Zenon
<1>4. reg4' = [isAmo |-> amo_active, rd |-> reg3.rd,
               val |-> IF reg3.op = "load" THEN readData ELSE reg3.res]
  BY Zenon DEF MemoryEdges, Reg4Edge
<1>5. writeData_regwb' = MemValue
  <2>1. CASE amo_active
    <3>1. amo'.captured = amo.captured
      <4>1. CASE amo' = amo \/ amo' = [amo EXCEPT !.done = TRUE]
        BY <4>1, Zenon DEF TypeOK
      <4>2. CASE /\ lsu_ack /\ ~amo.write_phase
                 /\ amo' = [amo EXCEPT !.captured = readData,
                                       !.done = (reg3.op = "lr") \/ @,
                                       !.write_phase = (reg3.op # "lr")]
        <5>1. reg3.op = "lr" /\ amo.captured = mem[reg3.res]
          BY <1>2, <2>1, <4>2, Zenon DEF Access
        <5>2. mem_read_pending_r
          BY <2>1, <4>2, Zenon DEF lsu_ack, eff_memWrite
        <5>3. readData = amo.captured
          BY <2>1, <4>2, <5>1, <5>2, Zenon DEF Access
        <5>4. QED
          BY <4>2, <5>3, Zenon DEF TypeOK
      <4>3. QED
        BY <2>1, <4>1, <4>2, Zenon DEF MemoryEdges, AmoEdge
    <3>2. writeData_regwb' = amo.captured
      BY <1>4, <2>1, <3>1, Zenon DEF writeData_regwb
    <3>3. QED
      BY <1>2, <2>1, <3>2, Zenon DEF MemValue, LoadedValue, amo_active
  <2>2. CASE ~amo_active /\ reg3.op = "load"
    <3>1. readData = mem[reg3.res]
      BY <2>2, Zenon DEF mem_hold, mem_stall, Access
    <3>2. writeData_regwb' = readData
      BY <1>4, <2>2, Zenon DEF writeData_regwb
    <3>3. QED
      BY <2>2, <3>1, <3>2, Zenon
         DEF MemValue, LoadedValue, amo_active, MemReads
  <2>3. CASE ~amo_active /\ reg3.op # "load"
    <3>1. writeData_regwb' = reg3.res
      BY <1>4, <2>3, Zenon DEF writeData_regwb
    <3>2. reg3.op \notin MemReads \cup AmoOps
      BY <1>1, <2>3 DEF MemReads, amo_active
    <3>3. QED
      BY <3>1, <3>2, Zenon DEF MemValue
  <2>4. QED
    BY <2>1, <2>2, <2>3, Zenon
<1>6. ASSUME NEW r \in RegSet \ {0} PROVE RegisterFile(r)' = RegBar(r)
  <2>1. r # 0
    OBVIOUS
  <2>2. reg4'.rd = reg3.rd
    BY <1>4, Zenon
  <2>3. RegisterFile(r) = regs'[r]
    BY ReadAfterWrite, Zenon DEF MemoryEdges
  <2>4. RegBar(r) = IF reg3.rd = r THEN MemValue ELSE RegisterFile(r)
    BY <2>1, RegBarIs, Zenon
  <2>5. QED
    BY <1>5, <2>1, <2>2, <2>3, <2>4, Zenon DEF RegisterFile
<1>7. QED
  BY <1>3, <1>6, Zenon

\* What reg3 holds after MEM has moved.
LEMMA Reg3Fresh ==
  ASSUME TypeOK, Kinds, Supported(build), Apart, MemoryEdges, ~mem_hold,
         NEW dm \in BOOLEAN, NEW bt \in BOOLEAN, Reg3Edge(dm, bt)
  PROVE  /\ reg3'.op # "reg" => reg3'.op = ex.op
         /\ reg3'.op \in AmoOps => ~amo_active /\ ~eff_memRead
         /\ Access'
         /\ reg4'.isAmo => ~amo_active'
<1>1. reg3'.op # "reg" => reg3'.op = ex.op
  BY Reg3Moves DEF NoReg3
<1>2. ASSUME reg3'.op \in AmoOps PROVE ~amo_active /\ ~eff_memRead
  <2>1. ex.op \in AmoOps
    BY <1>1, <1>2 DEF AmoOps
  <2>2. reg3.op \notin ReadOps
    BY <2>1, Zenon DEF Apart
  <2>3. QED
    BY <2>2, Zenon DEF ReadOps, amo_active, eff_memRead
<1>3. ~mem_stall_done_r'
  BY Zenon DEF MemoryEdges, MemStallEdge, mem_hold
<1>4. ASSUME amo_active' PROVE ~amo'.write_phase /\ ~amo'.done /\ ~mem_read_pending_r'
  <2>1. ~amo_active /\ ~eff_memRead
    BY <1>2, <1>4, Zenon DEF amo_active
  <2>2. amo' = [amo EXCEPT !.write_phase = FALSE, !.done = FALSE]
    BY <2>1, Zenon DEF MemoryEdges, AmoEdge
  <2>3. ~amo'.write_phase /\ ~amo'.done
    BY <2>2, Zenon DEF TypeOK
  <2>4. QED
    BY <2>1, <2>3, Zenon DEF MemoryEdges, MemoryEdge
<1>5. Access'
  BY <1>3, <1>4, Zenon DEF Access
<1>6. reg4'.isAmo <=> amo_active
  BY DEF MemoryEdges, Reg4Edge
<1>7. reg4'.isAmo => ~amo_active'
  BY <1>2, <1>6, Zenon DEF amo_active
<1>8. QED
  BY <1>1, <1>2, <1>5, <1>7, Zenon

\* The registers and the memory once the instruction in EX has reached MEM.
LEMMA Landed ==
  ASSUME TypeOK, Kinds, Supported(build), Apart, Access, MemoryEdges, ~mem_hold,
         NEW dm \in BOOLEAN, NEW bt \in BOOLEAN, Reg3Edge(dm, bt)
  PROVE  /\ \A r \in RegSet \ {0} :
              RegBar(r)' = IF reg3'.rd # r THEN RegBar(r)
                           ELSE IF reg3'.op \in MemReads \cup AmoOps
                                THEN MemBar[reg3'.res] ELSE reg3'.res
         /\ MemBar' = CASE reg3'.op = "store" ->
                             [MemBar EXCEPT ![reg3'.res] = reg3'.data]
                        [] reg3'.op = "amo" ->
                             [MemBar EXCEPT ![reg3'.res] =
                                AmoFn(MemBar[reg3'.res], reg3'.data)]
                        [] OTHER -> MemBar
<1>1. mem' = MemBar /\ \A r \in RegSet \ {0} : RegisterFile(r)' = RegBar(r)
  BY MemMoves, Zenon
<1>2. reg3'.op \in AmoOps => ~amo'.write_phase /\ ~amo'.done
  <2>1. SUFFICES ASSUME reg3'.op \in AmoOps PROVE ~amo'.write_phase /\ ~amo'.done
    BY Zenon
  <2>2. ~amo_active
    BY <2>1, Reg3Fresh, Zenon
  <2>3. amo' = [amo EXCEPT !.write_phase = FALSE, !.done = FALSE]
    BY <2>2, Zenon DEF MemoryEdges, AmoEdge
  <2>4. QED
    BY <2>3, Zenon DEF TypeOK
<1>3. LoadedValue' = MemBar[reg3'.res]
  BY <1>1, <1>2, Zenon DEF LoadedValue
<1>4. reg3'.op # "sc"
  BY Reg3Fresh, OpsIn
<1>5. ASSUME NEW r \in RegSet \ {0}
      PROVE RegBar(r)' = IF reg3'.rd # r THEN RegBar(r)
                         ELSE IF reg3'.op \in MemReads \cup AmoOps
                              THEN MemBar[reg3'.res] ELSE reg3'.res
  <2>1. r # 0
    OBVIOUS
  <2>2. RegBar(r)' = IF reg3'.rd = r THEN MemValue' ELSE RegisterFile(r)'
    BY <2>1, Zenon DEF RegBar, MemValue, RegisterFile
  <2>3. QED
    BY <1>1, <1>3, <2>2, Zenon DEF MemValue
<1>6. CASE reg3'.op = "store"
  <2>1. MemBar' = [mem' EXCEPT ![reg3'.res] = reg3'.data]
    BY <1>6 DEF MemBar
  <2>2. QED
    BY <1>1, <1>5, <1>6, <2>1, Zenon
<1>7. CASE reg3'.op = "amo"
  <2>1. ~amo'.done
    BY <1>2, <1>7, Zenon DEF AmoOps
  <2>2. MemBar' = [mem' EXCEPT ![reg3'.res] = AmoFn(LoadedValue', reg3'.data)]
    BY <1>7, <2>1 DEF MemBar
  <2>3. reg3'.op # "store"
    BY <1>7
  <2>4. QED
    BY <1>1, <1>3, <1>5, <1>7, <2>2, <2>3, Zenon
<1>8. CASE reg3'.op \notin {"store", "amo"}
  <2>1. MemBar' = mem'
    BY <1>4, <1>8, Zenon DEF MemBar
  <2>2. QED
    BY <1>1, <1>5, <1>8, <2>1, Zenon
<1>9. QED
  BY <1>6, <1>7, <1>8, Zenon

(***************************************************************************)
(* Updates of the architectural state, field by field.                     *)
(***************************************************************************)

\* The architectural state with given fields.
State(p, g, m, c, e, mp, me, i) ==
  [pc |-> p, regs |-> g, mem |-> m, scratch |-> c, mie |-> e, mpie |-> mp,
   mepc |-> me, instret |-> i]

IsState(s) == s = State(s.pc, s.regs, s.mem, s.scratch, s.mie, s.mpie, s.mepc,
                        s.instret)

\* What replacing one field leaves.
LEMMA SetField ==
  ASSUME NEW s, IsState(s), NEW x
  PROVE  /\ [s EXCEPT !.pc = x] = State(x, s.regs, s.mem, s.scratch, s.mie,
                                        s.mpie, s.mepc, s.instret)
         /\ [s EXCEPT !.scratch = x] = State(s.pc, s.regs, s.mem, x, s.mie,
                                             s.mpie, s.mepc, s.instret)
         /\ [s EXCEPT !.mie = x] = State(s.pc, s.regs, s.mem, s.scratch, x,
                                         s.mpie, s.mepc, s.instret)
         /\ [s EXCEPT !.mpie = x] = State(s.pc, s.regs, s.mem, s.scratch, s.mie,
                                          x, s.mepc, s.instret)
         /\ [s EXCEPT !.mepc = x] = State(s.pc, s.regs, s.mem, s.scratch, s.mie,
                                          s.mpie, x, s.instret)
         /\ [s EXCEPT !.instret = x] = State(s.pc, s.regs, s.mem, s.scratch,
                                             s.mie, s.mpie, s.mepc, x)
  BY DEF IsState, State

\* What replacing one register or one word of memory leaves.
LEMMA SetEntry ==
  ASSUME NEW s, IsState(s), NEW x, NEW v
  PROVE  /\ [s EXCEPT !.regs[x] = v] =
              State(s.pc, [s.regs EXCEPT ![x] = v], s.mem, s.scratch, s.mie,
                    s.mpie, s.mepc, s.instret)
         /\ [s EXCEPT !.mem[x] = v] =
              State(s.pc, s.regs, [s.mem EXCEPT ![x] = v], s.scratch, s.mie,
                    s.mpie, s.mepc, s.instret)
  BY DEF IsState, State

\* A trap, a return from one, and the step to the next instruction.
LEMMA TrapIs ==
  ASSUME NEW s, IsState(s)
  PROVE  Trap(s) = State(Handler, s.regs, s.mem, s.scratch, FALSE, s.mie, s.pc,
                         s.instret)
<1> DEFINE t1 == [s EXCEPT !.mepc = s.pc]
           t2 == [t1 EXCEPT !.pc = Handler]
           t3 == [t2 EXCEPT !.mpie = s.mie]
<1>1. Trap(s) = [t3 EXCEPT !.mie = FALSE]
  BY Zenon DEF Trap
<1> HIDE DEF t1, t2, t3
<1>2. t1 = State(s.pc, s.regs, s.mem, s.scratch, s.mie, s.mpie, s.pc, s.instret)
  BY SetField, Zenon DEF t1
<1>3. t2 = State(Handler, s.regs, s.mem, s.scratch, s.mie, s.mpie, s.pc, s.instret)
  BY <1>2 DEF t2, State
<1>4. t3 = State(Handler, s.regs, s.mem, s.scratch, s.mie, s.mie, s.pc, s.instret)
  BY <1>3 DEF t3, State
<1>5. ASSUME NEW x
      PROVE  [t3 EXCEPT !.mie = x] =
               State(Handler, s.regs, s.mem, s.scratch, x, s.mie, s.pc, s.instret)
  BY <1>4 DEF State
<1>6. QED
  BY <1>1, <1>5, Zenon

LEMMA ReturnIs ==
  ASSUME NEW s, IsState(s), NEW x, NEW y, NEW z
  PROVE  [s EXCEPT !.pc = x, !.mie = y, !.mpie = z] =
           State(x, s.regs, s.mem, s.scratch, y, z, s.mepc, s.instret)
<1> DEFINE t1 == [s EXCEPT !.pc = x]
           t2 == [t1 EXCEPT !.mie = y]
<1>1. [s EXCEPT !.pc = x, !.mie = y, !.mpie = z] = [t2 EXCEPT !.mpie = z]
  BY Zenon
<1> HIDE DEF t1, t2
<1>2. t1 = State(x, s.regs, s.mem, s.scratch, s.mie, s.mpie, s.mepc, s.instret)
  BY SetField, Zenon DEF t1
<1>3. t2 = State(x, s.regs, s.mem, s.scratch, y, s.mpie, s.mepc, s.instret)
  BY <1>2 DEF t2, State
<1>4. [t2 EXCEPT !.mpie = z] =
        State(x, s.regs, s.mem, s.scratch, y, z, s.mepc, s.instret)
  BY <1>3 DEF State
<1>5. QED
  BY <1>1, <1>4, Zenon

LEMMA NextIs ==
  ASSUME NEW s, IsState(s)
  PROVE  [s EXCEPT !.pc = NextPC(@), !.instret = (@ + 1) % INSTRETMOD] =
           State(NextPC(s.pc), s.regs, s.mem, s.scratch, s.mie, s.mpie, s.mepc,
                 (s.instret + 1) % INSTRETMOD)
<1> DEFINE t == [s EXCEPT !.pc = NextPC(s.pc)]
<1>1. [s EXCEPT !.pc = NextPC(@), !.instret = (@ + 1) % INSTRETMOD] =
        [t EXCEPT !.instret = (s.instret + 1) % INSTRETMOD]
  OBVIOUS
<1> HIDE DEF t
<1>2. t = State(NextPC(s.pc), s.regs, s.mem, s.scratch, s.mie, s.mpie, s.mepc,
                s.instret)
  BY SetField, Zenon DEF t
<1>3. [t EXCEPT !.instret = (s.instret + 1) % INSTRETMOD] =
        State(NextPC(s.pc), s.regs, s.mem, s.scratch, s.mie, s.mpie, s.mepc,
              (s.instret + 1) % INSTRETMOD)
  BY <1>2 DEF State
<1>4. QED
  BY <1>1, <1>3, Zenon

(***************************************************************************)
(* What the instruction in EX does to the architectural state.             *)
(***************************************************************************)
\* The architectural state after the instruction in EX, field by field.
PcAfter == CASE ex.op = "ecall" -> Handler
             [] ex.op = "mret" -> csr.mepc
             [] OTHER -> IF Jumps THEN JumpTarget ELSE NextPC(reg2.pc)

RdAfter ==
  CASE ex.op = "li" -> ex.imm
    [] ex.op = "alu" -> AluFn(Value(ex.rs1), Value(ex.rs2))
    [] ex.op = "div" -> DivFn(Value(ex.rs1), Value(ex.rs2))
    [] ex.op \in ReadOps -> MemBar[Value(ex.rs1)]
    [] ex.op \in {"jal", "jalr"} -> LinkVal(reg2.pc)
    [] ex.op = "csr" -> csr.scratch
    [] ex.op = "csrmie" -> IF csr.mie THEN 1 ELSE 0
    [] OTHER -> 0

RegAfter(r) == IF ex.op \in HasRd /\ ex.rd = r THEN RdAfter ELSE RegBar(r)

MemAfter ==
  CASE ex.op = "store" -> [MemBar EXCEPT ![Value(ex.rs1)] = Value(ex.rs2)]
    [] ex.op = "amo" -> [MemBar EXCEPT ![Value(ex.rs1)] =
                           AmoFn(MemBar[Value(ex.rs1)], Value(ex.rs2))]
    [] OTHER -> MemBar

ScratchAfter == IF ex.op = "csr" THEN Value(ex.rs1) ELSE csr.scratch

MieAfter == CASE ex.op = "ecall" -> FALSE
              [] ex.op = "mret" -> csr.mpie
              [] ex.op = "csrmie" -> Value(ex.rs1) # 0
              [] OTHER -> csr.mie

MpieAfter == CASE ex.op = "ecall" -> csr.mie
               [] ex.op = "mret" -> TRUE
               [] OTHER -> csr.mpie

MepcAfter == IF ex.op = "ecall" THEN reg2.pc ELSE csr.mepc

Count == (csr.instret + IF reg3.valid THEN 1 ELSE 0) % INSTRETMOD

CountAfter == IF ex.op = "ecall" THEN Count ELSE (Count + 1) % INSTRETMOD

Regs == [r \in RegSet \ {0} |-> RegBar(r)]
RegsAfter == [r \in RegSet \ {0} |-> RegAfter(r)]

After == State(PcAfter, RegsAfter, MemAfter, ScratchAfter, MieAfter, MpieAfter,
               MepcAfter, CountAfter)

\* The architectural state, field by field.
LEMMA ArchIs ==
  ArchBar = State(PcBar, Regs, MemBar, csr.scratch, csr.mie, csr.mpie, csr.mepc,
                  Count)
  BY Zenon DEF ArchBar, State, Regs, Count

LEMMA ArchState == IsState(ArchBar)
  BY ArchIs, Zenon DEF IsState, State

\* The instance's copy of the instruction semantics is the module's own.
LEMMA SameIsa ==
  /\ \A s : A!Trap(s) = Trap(s)
  /\ \A i, s : A!Exec(i, s) = Exec(i, s)
<1>1. \A s : A!Trap(s) = Trap(s)
  BY Zenon DEF A!Trap, Trap, A!Handler, Handler
<1>2. \A s, r : A!ReadReg(s, r) = ReadReg(s, r)
  BY Zenon DEF A!ReadReg, ReadReg
<1>3. \A s, r, v : A!WriteReg(s, r, v) = WriteReg(s, r, v)
  BY Zenon DEF A!WriteReg, WriteReg
<1>4. \A a, b : /\ A!AluFn(a, b) = AluFn(a, b) /\ A!DivFn(a, b) = DivFn(a, b)
                /\ A!AmoFn(a, b) = AmoFn(a, b)
  BY Zenon DEF A!AluFn, AluFn, A!DivFn, DivFn, A!AmoFn, AmoFn
<1>5. \A p : /\ A!NextPC(p) = NextPC(p) /\ A!LinkVal(p) = LinkVal(p)
             /\ A!JumpTo(p) = JumpTo(p)
  BY Zenon DEF A!NextPC, NextPC, A!LinkVal, LinkVal, A!JumpTo, JumpTo
<1>6. ASSUME NEW i, NEW s PROVE A!Exec(i, s) = Exec(i, s)
  BY <1>1, <1>2, <1>3, <1>4, <1>5, Zenon DEF A!Exec, Exec
<1>7. QED
  BY <1>1, <1>6, Zenon

\* An instruction reads the architecture's value of a register.
LEMMA ArchRead == ASSUME NEW r \in RegSet PROVE ReadReg(ArchBar, r) = Value(r)
  BY DEF ReadReg, ArchBar, Value

\* Executing the instruction in EX on the architectural state gives After.
LEMMA ExecIs ==
  ASSUME TypeOK, reg2.valid, ex.op \in AllOps \ {"sc", "lpf"}
  PROVE  Exec(ex, ArchBar) = After
<1> DEFINE n == [ArchBar EXCEPT !.pc = NextPC(@), !.instret = (@ + 1) % INSTRETMOD]
           a == Value(ex.rs1)
           b == Value(ex.rs2)
           R(v) == [r \in RegSet \ {0} |-> IF ex.rd = r THEN v ELSE RegBar(r)]
<1>1. ReadReg(ArchBar, ex.rs1) = a /\ ReadReg(ArchBar, ex.rs2) = b
  BY WiresTyped, ArchRead, Zenon DEF Fields
<1>2. /\ ArchBar.pc = reg2.pc /\ ArchBar.mem = MemBar /\ ArchBar.regs = Regs
      /\ ArchBar.scratch = csr.scratch /\ ArchBar.mie = csr.mie
      /\ ArchBar.mpie = csr.mpie /\ ArchBar.mepc = csr.mepc
      /\ ArchBar.instret = Count
  BY ArchIs, Zenon DEF State, PcBar
<1>3. ex.rd \in RegSet
  BY WiresTyped, Zenon DEF Fields
<1>4. n = State(NextPC(reg2.pc), Regs, MemBar, csr.scratch, csr.mie, csr.mpie,
                csr.mepc, (Count + 1) % INSTRETMOD)
  <2>1. n = State(NextPC(ArchBar.pc), ArchBar.regs, ArchBar.mem, ArchBar.scratch,
                  ArchBar.mie, ArchBar.mpie, ArchBar.mepc,
                  (ArchBar.instret + 1) % INSTRETMOD)
    BY ArchState, NextIs, Zenon
  <2>2. QED
    BY <1>2, <2>1, Zenon
<1>5. IsState(n) /\ n.regs = Regs
  <2> HIDE DEF n
  <2>1. QED
    BY <1>4, Zenon DEF IsState, State
<1>6. /\ n.pc = NextPC(reg2.pc) /\ n.mem = MemBar /\ n.scratch = csr.scratch
      /\ n.mie = csr.mie /\ n.mpie = csr.mpie /\ n.mepc = csr.mepc
      /\ n.instret = (Count + 1) % INSTRETMOD
  <2> HIDE DEF n
  <2>1. QED
    BY <1>4, Zenon DEF State
<1>7. \A v : [Regs EXCEPT ![ex.rd] = v] = R(v)
  BY Zenon DEF Regs
<1>8. ex.rd = 0 => \A v : R(v) = Regs
  BY DEF Regs
<1>9. ASSUME NEW s, IsState(s), s.regs = Regs, NEW v
      PROVE  WriteReg(s, ex.rd, v) = State(s.pc, R(v), s.mem, s.scratch, s.mie,
                                           s.mpie, s.mepc, s.instret)
  <2>1. CASE ex.rd = 0
    <3>1. R(v) = Regs
      BY <1>8, <2>1, Zenon
    <3>2. QED
      BY <1>9, <2>1, <3>1, Zenon DEF WriteReg, IsState
  <2>2. CASE ex.rd # 0
    <3>1. [s.regs EXCEPT ![ex.rd] = v] = R(v)
      BY <1>7, <1>9, Zenon
    <3>2. WriteReg(s, ex.rd, v) =
            State(s.pc, [s.regs EXCEPT ![ex.rd] = v], s.mem, s.scratch, s.mie,
                  s.mpie, s.mepc, s.instret)
      <4>1. WriteReg(s, ex.rd, v) = [s EXCEPT !.regs[ex.rd] = v]
        BY <2>2, Zenon DEF WriteReg
      <4>2. IsState(s)
        BY <1>9, Zenon
      <4>3. QED
        BY <4>1, <4>2 DEF IsState, State
    <3>3. QED
      BY <3>1, <3>2, Zenon
  <2>3. QED
    BY <2>1, <2>2, Zenon
<1>10. /\ ex.op \in HasRd => RegsAfter = R(RdAfter)
       /\ ex.op \notin HasRd => RegsAfter = Regs
  BY Zenon DEF RegsAfter, RegAfter, Regs
<1> HIDE DEF n, a, b, R
<1>11. ASSUME NEW x, NEW y, NEW z
       PROVE  /\ [n EXCEPT !.pc = x] =
                   State(x, Regs, MemBar, csr.scratch, csr.mie, csr.mpie,
                         csr.mepc, (Count + 1) % INSTRETMOD)
              /\ [n EXCEPT !.scratch = x] =
                   State(NextPC(reg2.pc), Regs, MemBar, x, csr.mie, csr.mpie,
                         csr.mepc, (Count + 1) % INSTRETMOD)
              /\ [n EXCEPT !.mie = x] =
                   State(NextPC(reg2.pc), Regs, MemBar, csr.scratch, x, csr.mpie,
                         csr.mepc, (Count + 1) % INSTRETMOD)
              /\ [n EXCEPT !.mem[x] = y] =
                   State(NextPC(reg2.pc), Regs, [MemBar EXCEPT ![x] = y], csr.scratch,
                         csr.mie, csr.mpie, csr.mepc, (Count + 1) % INSTRETMOD)
              /\ [n EXCEPT !.pc = x, !.mie = y, !.mpie = z] =
                   State(x, Regs, MemBar, csr.scratch, y, z,
                         csr.mepc, (Count + 1) % INSTRETMOD)
  <2>1. /\ [n EXCEPT !.pc = x] = State(x, n.regs, n.mem, n.scratch, n.mie, n.mpie,
                                       n.mepc, n.instret)
        /\ [n EXCEPT !.scratch = x] = State(n.pc, n.regs, n.mem, x, n.mie, n.mpie,
                                            n.mepc, n.instret)
        /\ [n EXCEPT !.mie = x] = State(n.pc, n.regs, n.mem, n.scratch, x, n.mpie,
                                        n.mepc, n.instret)
    BY <1>5, SetField, Zenon
  <2>2. [n EXCEPT !.mem[x] = y] =
          State(n.pc, n.regs, [n.mem EXCEPT ![x] = y], n.scratch, n.mie, n.mpie,
                n.mepc, n.instret)
    BY <1>5, SetEntry, Zenon
  <2>3. [n EXCEPT !.pc = x, !.mie = y, !.mpie = z] =
          State(x, n.regs, n.mem, n.scratch, y, z, n.mepc, n.instret)
    BY <1>5, ReturnIs, Zenon
  <2>4. QED
    BY <1>5, <1>6, <2>1, <2>2, <2>3, Zenon
<1>12. CASE ex.op = "li"
  <2>1. Exec(ex, ArchBar) = WriteReg(n, ex.rd, ex.imm)
    BY <1>1, <1>2, <1>12 DEF Exec, n
  <2>2. Exec(ex, ArchBar) =
          State(NextPC(reg2.pc), R(ex.imm), MemBar, csr.scratch, csr.mie,
                csr.mpie, csr.mepc, (Count + 1) % INSTRETMOD)
    <3>1. WriteReg(n, ex.rd, ex.imm) =
            State(n.pc, R(ex.imm), n.mem, n.scratch, n.mie, n.mpie, n.mepc,
                  n.instret)
      BY <1>5, <1>9, Zenon
    <3>2. QED
      BY <1>6, <2>1, <3>1, Zenon
  <2>3. /\ PcAfter = NextPC(reg2.pc) /\ MemAfter = MemBar
        /\ ScratchAfter = csr.scratch /\ MieAfter = csr.mie
        /\ MpieAfter = csr.mpie /\ MepcAfter = csr.mepc
        /\ CountAfter = (Count + 1) % INSTRETMOD
    BY <1>12 DEF PcAfter, Jumps, JumpTarget, MemAfter, ScratchAfter, MieAfter, MpieAfter,
                 MepcAfter, CountAfter, a, b
  <2>4. RdAfter = ex.imm /\ ex.op \in HasRd
    BY <1>12 DEF RdAfter, HasRd, ReadOps, AmoOps, a, b
  <2>5. RegsAfter = R(ex.imm)
    BY <1>10, <2>4, Zenon
  <2>6. QED
    BY <2>2, <2>3, <2>5, Zenon DEF After
<1>13. CASE ex.op = "alu"
  <2>1. Exec(ex, ArchBar) = WriteReg(n, ex.rd, AluFn(a, b))
    BY <1>1, <1>2, <1>13 DEF Exec, n
  <2>2. Exec(ex, ArchBar) =
          State(NextPC(reg2.pc), R(AluFn(a, b)), MemBar, csr.scratch, csr.mie,
                csr.mpie, csr.mepc, (Count + 1) % INSTRETMOD)
    <3>1. WriteReg(n, ex.rd, AluFn(a, b)) =
            State(n.pc, R(AluFn(a, b)), n.mem, n.scratch, n.mie, n.mpie, n.mepc,
                  n.instret)
      BY <1>5, <1>9, Zenon
    <3>2. QED
      BY <1>6, <2>1, <3>1, Zenon
  <2>3. /\ PcAfter = NextPC(reg2.pc) /\ MemAfter = MemBar
        /\ ScratchAfter = csr.scratch /\ MieAfter = csr.mie
        /\ MpieAfter = csr.mpie /\ MepcAfter = csr.mepc
        /\ CountAfter = (Count + 1) % INSTRETMOD
    BY <1>13 DEF PcAfter, Jumps, JumpTarget, MemAfter, ScratchAfter, MieAfter, MpieAfter,
                 MepcAfter, CountAfter, a, b
  <2>4. RdAfter = AluFn(a, b) /\ ex.op \in HasRd
    BY <1>13 DEF RdAfter, HasRd, ReadOps, AmoOps, a, b
  <2>5. RegsAfter = R(AluFn(a, b))
    BY <1>10, <2>4, Zenon
  <2>6. QED
    BY <2>2, <2>3, <2>5, Zenon DEF After
<1>14. CASE ex.op = "div"
  <2>1. Exec(ex, ArchBar) = WriteReg(n, ex.rd, DivFn(a, b))
    BY <1>1, <1>2, <1>14 DEF Exec, n
  <2>2. Exec(ex, ArchBar) =
          State(NextPC(reg2.pc), R(DivFn(a, b)), MemBar, csr.scratch, csr.mie,
                csr.mpie, csr.mepc, (Count + 1) % INSTRETMOD)
    <3>1. WriteReg(n, ex.rd, DivFn(a, b)) =
            State(n.pc, R(DivFn(a, b)), n.mem, n.scratch, n.mie, n.mpie, n.mepc,
                  n.instret)
      BY <1>5, <1>9, Zenon
    <3>2. QED
      BY <1>6, <2>1, <3>1, Zenon
  <2>3. /\ PcAfter = NextPC(reg2.pc) /\ MemAfter = MemBar
        /\ ScratchAfter = csr.scratch /\ MieAfter = csr.mie
        /\ MpieAfter = csr.mpie /\ MepcAfter = csr.mepc
        /\ CountAfter = (Count + 1) % INSTRETMOD
    BY <1>14 DEF PcAfter, Jumps, JumpTarget, MemAfter, ScratchAfter, MieAfter, MpieAfter,
                 MepcAfter, CountAfter, a, b
  <2>4. RdAfter = DivFn(a, b) /\ ex.op \in HasRd
    BY <1>14 DEF RdAfter, HasRd, ReadOps, AmoOps, a, b
  <2>5. RegsAfter = R(DivFn(a, b))
    BY <1>10, <2>4, Zenon
  <2>6. QED
    BY <2>2, <2>3, <2>5, Zenon DEF After
<1>15. CASE ex.op = "load"
  <2>1. Exec(ex, ArchBar) = WriteReg(n, ex.rd, MemBar[a])
    BY <1>1, <1>2, <1>15 DEF Exec, n
  <2>2. Exec(ex, ArchBar) =
          State(NextPC(reg2.pc), R(MemBar[a]), MemBar, csr.scratch, csr.mie,
                csr.mpie, csr.mepc, (Count + 1) % INSTRETMOD)
    <3>1. WriteReg(n, ex.rd, MemBar[a]) =
            State(n.pc, R(MemBar[a]), n.mem, n.scratch, n.mie, n.mpie, n.mepc,
                  n.instret)
      BY <1>5, <1>9, Zenon
    <3>2. QED
      BY <1>6, <2>1, <3>1, Zenon
  <2>3. /\ PcAfter = NextPC(reg2.pc) /\ MemAfter = MemBar
        /\ ScratchAfter = csr.scratch /\ MieAfter = csr.mie
        /\ MpieAfter = csr.mpie /\ MepcAfter = csr.mepc
        /\ CountAfter = (Count + 1) % INSTRETMOD
    BY <1>15 DEF PcAfter, Jumps, JumpTarget, MemAfter, ScratchAfter, MieAfter, MpieAfter,
                 MepcAfter, CountAfter, a, b
  <2>4. RdAfter = MemBar[a] /\ ex.op \in HasRd
    BY <1>15 DEF RdAfter, HasRd, ReadOps, AmoOps, a, b
  <2>5. RegsAfter = R(MemBar[a])
    BY <1>10, <2>4, Zenon
  <2>6. QED
    BY <2>2, <2>3, <2>5, Zenon DEF After
<1>16. CASE ex.op = "lr"
  <2>1. Exec(ex, ArchBar) = WriteReg(n, ex.rd, MemBar[a])
    BY <1>1, <1>2, <1>16 DEF Exec, n
  <2>2. Exec(ex, ArchBar) =
          State(NextPC(reg2.pc), R(MemBar[a]), MemBar, csr.scratch, csr.mie,
                csr.mpie, csr.mepc, (Count + 1) % INSTRETMOD)
    <3>1. WriteReg(n, ex.rd, MemBar[a]) =
            State(n.pc, R(MemBar[a]), n.mem, n.scratch, n.mie, n.mpie, n.mepc,
                  n.instret)
      BY <1>5, <1>9, Zenon
    <3>2. QED
      BY <1>6, <2>1, <3>1, Zenon
  <2>3. /\ PcAfter = NextPC(reg2.pc) /\ MemAfter = MemBar
        /\ ScratchAfter = csr.scratch /\ MieAfter = csr.mie
        /\ MpieAfter = csr.mpie /\ MepcAfter = csr.mepc
        /\ CountAfter = (Count + 1) % INSTRETMOD
    BY <1>16 DEF PcAfter, Jumps, JumpTarget, MemAfter, ScratchAfter, MieAfter, MpieAfter,
                 MepcAfter, CountAfter, a, b
  <2>4. RdAfter = MemBar[a] /\ ex.op \in HasRd
    BY <1>16 DEF RdAfter, HasRd, ReadOps, AmoOps, a, b
  <2>5. RegsAfter = R(MemBar[a])
    BY <1>10, <2>4, Zenon
  <2>6. QED
    BY <2>2, <2>3, <2>5, Zenon DEF After
<1>17. CASE ex.op = "amo"
  <2>1. Exec(ex, ArchBar) = WriteReg([n EXCEPT !.mem[a] = AmoFn(@, b)], ex.rd, MemBar[a])
    BY <1>1, <1>2, <1>17 DEF Exec, n
  <2>2. [n EXCEPT !.mem[a] = AmoFn(@, b)] = [n EXCEPT !.mem[a] = AmoFn(MemBar[a], b)]
    BY <1>6, Zenon
  <2>3. [n EXCEPT !.mem[a] = AmoFn(@, b)] =
          State(NextPC(reg2.pc), Regs, [MemBar EXCEPT ![a] = AmoFn(MemBar[a], b)],
                csr.scratch, csr.mie, csr.mpie, csr.mepc,
                (Count + 1) % INSTRETMOD)
    <3>1. [n EXCEPT !.mem[a] = AmoFn(MemBar[a], b)] =
            State(NextPC(reg2.pc), Regs, [MemBar EXCEPT ![a] = AmoFn(MemBar[a], b)],
                  csr.scratch, csr.mie, csr.mpie, csr.mepc,
                  (Count + 1) % INSTRETMOD)
      BY <1>11, Zenon
    <3>2. QED
      BY <2>2, <3>1, Zenon
  <2>4. Exec(ex, ArchBar) =
          State(NextPC(reg2.pc), R(MemBar[a]), [MemBar EXCEPT ![a] = AmoFn(MemBar[a], b)],
                csr.scratch, csr.mie, csr.mpie, csr.mepc,
                (Count + 1) % INSTRETMOD)
    <3> DEFINE s == [n EXCEPT !.mem[a] = AmoFn(@, b)]
    <3> HIDE DEF s
    <3>1. s =
          State(NextPC(reg2.pc), Regs, [MemBar EXCEPT ![a] = AmoFn(MemBar[a], b)],
                csr.scratch, csr.mie, csr.mpie, csr.mepc,
                (Count + 1) % INSTRETMOD)
      BY <2>3, Zenon DEF s
    <3>2. /\ IsState(s) /\ s.pc = NextPC(reg2.pc) /\ s.regs = Regs
          /\ s.mem = [MemBar EXCEPT ![a] = AmoFn(MemBar[a], b)] /\ s.scratch = csr.scratch
          /\ s.mie = csr.mie /\ s.mpie = csr.mpie /\ s.mepc = csr.mepc
          /\ s.instret = (Count + 1) % INSTRETMOD
      BY <3>1, Zenon DEF IsState, State
    <3>3. Exec(ex, ArchBar) = WriteReg(s, ex.rd, MemBar[a])
      BY <2>1, Zenon DEF s
    <3>4. WriteReg(s, ex.rd, MemBar[a]) =
            State(s.pc, R(MemBar[a]), s.mem, s.scratch, s.mie, s.mpie, s.mepc, s.instret)
      BY <1>9, <3>2, Zenon
    <3>5. QED
      BY <3>2, <3>3, <3>4, Zenon
  <2>5. /\ PcAfter = NextPC(reg2.pc)
        /\ MemAfter = [MemBar EXCEPT ![a] = AmoFn(MemBar[a], b)]
        /\ ScratchAfter = csr.scratch /\ MieAfter = csr.mie
        /\ MpieAfter = csr.mpie /\ MepcAfter = csr.mepc
        /\ CountAfter = (Count + 1) % INSTRETMOD
    BY <1>17 DEF PcAfter, Jumps, JumpTarget, MemAfter, ScratchAfter, MieAfter, MpieAfter,
                 MepcAfter, CountAfter, a, b
  <2>6. RdAfter = MemBar[a] /\ ex.op \in HasRd
    BY <1>17 DEF RdAfter, HasRd, ReadOps, AmoOps, a, b
  <2>7. RegsAfter = R(MemBar[a])
    BY <1>10, <2>6, Zenon
  <2>8. QED
    BY <2>4, <2>5, <2>7, Zenon DEF After
<1>18. CASE ex.op = "jal"
  <2>1. Exec(ex, ArchBar) = WriteReg([n EXCEPT !.pc = ex.imm], ex.rd, LinkVal(reg2.pc))
    BY <1>1, <1>2, <1>18 DEF Exec, n
  <2>2. [n EXCEPT !.pc = ex.imm] =
          State(ex.imm, Regs, MemBar, csr.scratch, csr.mie,
                csr.mpie, csr.mepc, (Count + 1) % INSTRETMOD)
    BY <1>11, Zenon
  <2>3. Exec(ex, ArchBar) =
          State(ex.imm, R(LinkVal(reg2.pc)), MemBar, csr.scratch, csr.mie,
                csr.mpie, csr.mepc, (Count + 1) % INSTRETMOD)
    <3> DEFINE s == [n EXCEPT !.pc = ex.imm]
    <3> HIDE DEF s
    <3>1. s =
          State(ex.imm, Regs, MemBar, csr.scratch, csr.mie,
                csr.mpie, csr.mepc, (Count + 1) % INSTRETMOD)
      BY <2>2, Zenon DEF s
    <3>2. /\ IsState(s) /\ s.pc = ex.imm /\ s.regs = Regs
          /\ s.mem = MemBar /\ s.scratch = csr.scratch
          /\ s.mie = csr.mie /\ s.mpie = csr.mpie /\ s.mepc = csr.mepc
          /\ s.instret = (Count + 1) % INSTRETMOD
      BY <3>1, Zenon DEF IsState, State
    <3>3. Exec(ex, ArchBar) = WriteReg(s, ex.rd, LinkVal(reg2.pc))
      BY <2>1, Zenon DEF s
    <3>4. WriteReg(s, ex.rd, LinkVal(reg2.pc)) =
            State(s.pc, R(LinkVal(reg2.pc)), s.mem, s.scratch, s.mie, s.mpie, s.mepc,
                  s.instret)
      BY <1>9, <3>2, Zenon
    <3>5. QED
      BY <3>2, <3>3, <3>4, Zenon
  <2>4. /\ PcAfter = ex.imm /\ MemAfter = MemBar
        /\ ScratchAfter = csr.scratch /\ MieAfter = csr.mie
        /\ MpieAfter = csr.mpie /\ MepcAfter = csr.mepc
        /\ CountAfter = (Count + 1) % INSTRETMOD
    BY <1>18 DEF PcAfter, Jumps, JumpTarget, MemAfter, ScratchAfter, MieAfter, MpieAfter,
                 MepcAfter, CountAfter, a, b
  <2>5. RdAfter = LinkVal(reg2.pc) /\ ex.op \in HasRd
    BY <1>18 DEF RdAfter, HasRd, ReadOps, AmoOps, a, b
  <2>6. RegsAfter = R(LinkVal(reg2.pc))
    BY <1>10, <2>5, Zenon
  <2>7. QED
    BY <2>3, <2>4, <2>6, Zenon DEF After
<1>19. CASE ex.op = "jalr"
  <2>1. Exec(ex, ArchBar) = WriteReg([n EXCEPT !.pc = JumpTo(a)], ex.rd, LinkVal(reg2.pc))
    BY <1>1, <1>2, <1>19 DEF Exec, n
  <2>2. [n EXCEPT !.pc = JumpTo(a)] =
          State(JumpTo(a), Regs, MemBar, csr.scratch, csr.mie,
                csr.mpie, csr.mepc, (Count + 1) % INSTRETMOD)
    BY <1>11, Zenon
  <2>3. Exec(ex, ArchBar) =
          State(JumpTo(a), R(LinkVal(reg2.pc)), MemBar, csr.scratch, csr.mie,
                csr.mpie, csr.mepc, (Count + 1) % INSTRETMOD)
    <3> DEFINE s == [n EXCEPT !.pc = JumpTo(a)]
    <3> HIDE DEF s
    <3>1. s =
          State(JumpTo(a), Regs, MemBar, csr.scratch, csr.mie,
                csr.mpie, csr.mepc, (Count + 1) % INSTRETMOD)
      BY <2>2, Zenon DEF s
    <3>2. /\ IsState(s) /\ s.pc = JumpTo(a) /\ s.regs = Regs
          /\ s.mem = MemBar /\ s.scratch = csr.scratch
          /\ s.mie = csr.mie /\ s.mpie = csr.mpie /\ s.mepc = csr.mepc
          /\ s.instret = (Count + 1) % INSTRETMOD
      BY <3>1, Zenon DEF IsState, State
    <3>3. Exec(ex, ArchBar) = WriteReg(s, ex.rd, LinkVal(reg2.pc))
      BY <2>1, Zenon DEF s
    <3>4. WriteReg(s, ex.rd, LinkVal(reg2.pc)) =
            State(s.pc, R(LinkVal(reg2.pc)), s.mem, s.scratch, s.mie, s.mpie, s.mepc,
                  s.instret)
      BY <1>9, <3>2, Zenon
    <3>5. QED
      BY <3>2, <3>3, <3>4, Zenon
  <2>4. /\ PcAfter = JumpTo(a) /\ MemAfter = MemBar
        /\ ScratchAfter = csr.scratch /\ MieAfter = csr.mie
        /\ MpieAfter = csr.mpie /\ MepcAfter = csr.mepc
        /\ CountAfter = (Count + 1) % INSTRETMOD
    BY <1>19 DEF PcAfter, Jumps, JumpTarget, MemAfter, ScratchAfter, MieAfter, MpieAfter,
                 MepcAfter, CountAfter, a, b
  <2>5. RdAfter = LinkVal(reg2.pc) /\ ex.op \in HasRd
    BY <1>19 DEF RdAfter, HasRd, ReadOps, AmoOps, a, b
  <2>6. RegsAfter = R(LinkVal(reg2.pc))
    BY <1>10, <2>5, Zenon
  <2>7. QED
    BY <2>3, <2>4, <2>6, Zenon DEF After
<1>20. CASE ex.op = "csr"
  <2>1. Exec(ex, ArchBar) = WriteReg([n EXCEPT !.scratch = a], ex.rd, csr.scratch)
    BY <1>1, <1>2, <1>20 DEF Exec, n
  <2>2. [n EXCEPT !.scratch = a] =
          State(NextPC(reg2.pc), Regs, MemBar, a, csr.mie,
                csr.mpie, csr.mepc, (Count + 1) % INSTRETMOD)
    BY <1>11, Zenon
  <2>3. Exec(ex, ArchBar) =
          State(NextPC(reg2.pc), R(csr.scratch), MemBar, a, csr.mie,
                csr.mpie, csr.mepc, (Count + 1) % INSTRETMOD)
    <3> DEFINE s == [n EXCEPT !.scratch = a]
    <3> HIDE DEF s
    <3>1. s =
          State(NextPC(reg2.pc), Regs, MemBar, a, csr.mie,
                csr.mpie, csr.mepc, (Count + 1) % INSTRETMOD)
      BY <2>2, Zenon DEF s
    <3>2. /\ IsState(s) /\ s.pc = NextPC(reg2.pc) /\ s.regs = Regs
          /\ s.mem = MemBar /\ s.scratch = a
          /\ s.mie = csr.mie /\ s.mpie = csr.mpie /\ s.mepc = csr.mepc
          /\ s.instret = (Count + 1) % INSTRETMOD
      BY <3>1, Zenon DEF IsState, State
    <3>3. Exec(ex, ArchBar) = WriteReg(s, ex.rd, csr.scratch)
      BY <2>1, Zenon DEF s
    <3>4. WriteReg(s, ex.rd, csr.scratch) =
            State(s.pc, R(csr.scratch), s.mem, s.scratch, s.mie, s.mpie, s.mepc, s.instret)
      BY <1>9, <3>2, Zenon
    <3>5. QED
      BY <3>2, <3>3, <3>4, Zenon
  <2>4. /\ PcAfter = NextPC(reg2.pc) /\ MemAfter = MemBar
        /\ ScratchAfter = a /\ MieAfter = csr.mie
        /\ MpieAfter = csr.mpie /\ MepcAfter = csr.mepc
        /\ CountAfter = (Count + 1) % INSTRETMOD
    BY <1>20 DEF PcAfter, Jumps, JumpTarget, MemAfter, ScratchAfter, MieAfter, MpieAfter,
                 MepcAfter, CountAfter, a, b
  <2>5. RdAfter = csr.scratch /\ ex.op \in HasRd
    BY <1>20 DEF RdAfter, HasRd, ReadOps, AmoOps, a, b
  <2>6. RegsAfter = R(csr.scratch)
    BY <1>10, <2>5, Zenon
  <2>7. QED
    BY <2>3, <2>4, <2>6, Zenon DEF After
<1>21. CASE ex.op = "csrmie"
  <2>1. Exec(ex, ArchBar) = WriteReg([n EXCEPT !.mie = (a # 0)], ex.rd,
                                     (IF csr.mie THEN 1 ELSE 0))
    BY <1>1, <1>2, <1>21 DEF Exec, n
  <2>2. [n EXCEPT !.mie = (a # 0)] =
          State(NextPC(reg2.pc), Regs, MemBar, csr.scratch, (a # 0),
                csr.mpie, csr.mepc, (Count + 1) % INSTRETMOD)
    BY <1>11, Zenon
  <2>3. Exec(ex, ArchBar) =
          State(NextPC(reg2.pc), R((IF csr.mie THEN 1 ELSE 0)), MemBar, csr.scratch,
                (a # 0),
            csr.mpie, csr.mepc, (Count + 1) % INSTRETMOD)
    <3> DEFINE s == [n EXCEPT !.mie = (a # 0)]
    <3> HIDE DEF s
    <3>1. s =
          State(NextPC(reg2.pc), Regs, MemBar, csr.scratch, (a # 0),
                csr.mpie, csr.mepc, (Count + 1) % INSTRETMOD)
      BY <2>2, Zenon DEF s
    <3>2. /\ IsState(s) /\ s.pc = NextPC(reg2.pc) /\ s.regs = Regs
          /\ s.mem = MemBar /\ s.scratch = csr.scratch
          /\ s.mie = (a # 0) /\ s.mpie = csr.mpie /\ s.mepc = csr.mepc
          /\ s.instret = (Count + 1) % INSTRETMOD
      BY <3>1, Zenon DEF IsState, State
    <3>3. Exec(ex, ArchBar) = WriteReg(s, ex.rd, (IF csr.mie THEN 1 ELSE 0))
      BY <2>1, Zenon DEF s
    <3>4. WriteReg(s, ex.rd, (IF csr.mie THEN 1 ELSE 0)) =
            State(s.pc, R((IF csr.mie THEN 1 ELSE 0)), s.mem, s.scratch, s.mie, s.mpie,
                  s.mepc, s.instret)
      BY <1>9, <3>2, Zenon
    <3>5. QED
      BY <3>2, <3>3, <3>4, Zenon
  <2>4. /\ PcAfter = NextPC(reg2.pc) /\ MemAfter = MemBar
        /\ ScratchAfter = csr.scratch /\ MieAfter = (a # 0)
        /\ MpieAfter = csr.mpie /\ MepcAfter = csr.mepc
        /\ CountAfter = (Count + 1) % INSTRETMOD
    BY <1>21 DEF PcAfter, Jumps, JumpTarget, MemAfter, ScratchAfter, MieAfter, MpieAfter,
                 MepcAfter, CountAfter, a, b
  <2>5. RdAfter = (IF csr.mie THEN 1 ELSE 0) /\ ex.op \in HasRd
    BY <1>21 DEF RdAfter, HasRd, ReadOps, AmoOps, a, b
  <2>6. RegsAfter = R((IF csr.mie THEN 1 ELSE 0))
    BY <1>10, <2>5, Zenon
  <2>7. QED
    BY <2>3, <2>4, <2>6, Zenon DEF After
<1>22. CASE ex.op = "store"
  <2>1. Exec(ex, ArchBar) = [n EXCEPT !.mem[a] = b]
    BY <1>1, <1>2, <1>22 DEF Exec, n
  <2>2. [n EXCEPT !.mem[a] = b] =
          State(NextPC(reg2.pc), Regs, [MemBar EXCEPT ![a] = b], csr.scratch, csr.mie,
                csr.mpie, csr.mepc, (Count + 1) % INSTRETMOD)
    BY <1>11, Zenon
  <2>3. /\ PcAfter = NextPC(reg2.pc) /\ MemAfter = [MemBar EXCEPT ![a] = b]
        /\ ScratchAfter = csr.scratch /\ MieAfter = csr.mie
        /\ MpieAfter = csr.mpie /\ MepcAfter = csr.mepc
        /\ CountAfter = (Count + 1) % INSTRETMOD
        /\ ex.op \notin HasRd
    BY <1>22 DEF PcAfter, Jumps, JumpTarget, MemAfter, ScratchAfter, MieAfter, MpieAfter,
                 MepcAfter, CountAfter, a, b, HasRd
  <2>4. QED
    BY <1>10, <2>1, <2>2, <2>3, Zenon DEF After
<1>23. CASE ex.op = "beq"
  <2>1. Exec(ex, ArchBar) = (IF a = b THEN [n EXCEPT !.pc = ex.imm] ELSE n)
    BY <1>1, <1>2, <1>23 DEF Exec, n
  <2>2. (IF a = b THEN [n EXCEPT !.pc = ex.imm] ELSE n) =
          State((IF a = b THEN ex.imm ELSE NextPC(reg2.pc)), Regs, MemBar, csr.scratch,
                csr.mie,
            csr.mpie, csr.mepc, (Count + 1) % INSTRETMOD)
    BY <1>4, <1>11, Zenon
  <2>3. /\ PcAfter = (IF a = b THEN ex.imm ELSE NextPC(reg2.pc)) /\ MemAfter = MemBar
        /\ ScratchAfter = csr.scratch /\ MieAfter = csr.mie
        /\ MpieAfter = csr.mpie /\ MepcAfter = csr.mepc
        /\ CountAfter = (Count + 1) % INSTRETMOD
        /\ ex.op \notin HasRd
    BY <1>23 DEF PcAfter, Jumps, JumpTarget, MemAfter, ScratchAfter, MieAfter, MpieAfter,
                 MepcAfter, CountAfter, a, b, HasRd
  <2>4. QED
    BY <1>10, <2>1, <2>2, <2>3, Zenon DEF After
<1>24. CASE ex.op = "mret"
  <2>1. Exec(ex, ArchBar) = [n EXCEPT !.pc = csr.mepc, !.mie = csr.mpie, !.mpie = TRUE]
    BY <1>1, <1>2, <1>24 DEF Exec, n
  <2>2. [n EXCEPT !.pc = csr.mepc, !.mie = csr.mpie, !.mpie = TRUE] =
          State(csr.mepc, Regs, MemBar, csr.scratch, csr.mpie,
            TRUE, csr.mepc, (Count + 1) % INSTRETMOD)
    BY <1>11, Zenon
  <2>3. /\ PcAfter = csr.mepc /\ MemAfter = MemBar
        /\ ScratchAfter = csr.scratch /\ MieAfter = csr.mpie
        /\ MpieAfter = TRUE /\ MepcAfter = csr.mepc /\ CountAfter = (Count + 1) % INSTRETMOD
        /\ ex.op \notin HasRd
    BY <1>24 DEF PcAfter, Jumps, JumpTarget, MemAfter, ScratchAfter, MieAfter, MpieAfter,
                 MepcAfter, CountAfter, a, b, HasRd
  <2>4. QED
    BY <1>10, <2>1, <2>2, <2>3, Zenon DEF After
<1>25. CASE ex.op = "ecall"
  <2>1. Exec(ex, ArchBar) = Trap(ArchBar)
    BY <1>1, <1>2, <1>25 DEF Exec, n
  <2>2. Trap(ArchBar) =
          State(Handler, Regs, MemBar, csr.scratch, FALSE,
                csr.mie, reg2.pc, Count)
    <3>1. Trap(ArchBar) = State(Handler, ArchBar.regs, ArchBar.mem, ArchBar.scratch,
                                FALSE, ArchBar.mie, ArchBar.pc, ArchBar.instret)
      BY ArchState, TrapIs, Zenon
    <3>2. QED
      BY <1>2, <3>1, Zenon
  <2>3. /\ PcAfter = Handler /\ MemAfter = MemBar
        /\ ScratchAfter = csr.scratch /\ MieAfter = FALSE
        /\ MpieAfter = csr.mie /\ MepcAfter = reg2.pc /\ CountAfter = Count
        /\ ex.op \notin HasRd
    BY <1>25 DEF PcAfter, Jumps, JumpTarget, MemAfter, ScratchAfter, MieAfter, MpieAfter,
                 MepcAfter, CountAfter, a, b, HasRd
  <2>4. QED
    BY <1>10, <2>1, <2>2, <2>3, Zenon DEF After
<1>26. QED
  BY <1>12, <1>13, <1>14, <1>15, <1>16, <1>17, <1>18, <1>19, <1>20,
     <1>21, <1>22, <1>23, <1>24, <1>25 DEF AllOps

(***************************************************************************)
(* EX reads the architectural operands and redirects where they say.       *)
(***************************************************************************)
Whole == /\ TypeOK /\ Supported(build)
         /\ LoadUseSafe /\ OperandsTracked
         /\ Kinds /\ Sequence /\ Apart /\ Access /\ Taken

\* x0 is never forwarded.
LEMMA ForwardZero == ASSUME NEW v PROVE Forward(0, v) = v
  BY Zenon DEF Forward

\* EX works on the architecture's values, also once it has been held.
LEMMA ArgsRight ==
  ASSUME TypeOK, LoadUseSafe, OperandsTracked, Kinds, Taken
  PROVE  /\ ~Drained => /\ readData1_final = Value(ex.rs1)
                        /\ readData2_final = Value(ex.rs2)
         /\ ~isDivRem => /\ dtlb_vaddr = Value(ex.rs1)
                         /\ dtlb_store_data = Value(ex.rs2)
         /\ ~isDivRem /\ ex.op \notin {"load", "store"} =>
              /\ readData1_final = Value(ex.rs1)
              /\ readData2_final = Value(ex.rs2)
<1>1. OperandsFresh
  BY TrackedFresh, Zenon
<1>2. ex.rs1 = 0 => readData1_final = 0
  BY ForwardZero, Zenon DEF Kinds, readData1_final
<1>3. ex.rs2 = 0 => readData2_final = 0
  BY ForwardZero, Zenon DEF Kinds, readData2_final
<1>4. ~reg2.valid => ex.rs1 = 0 /\ ex.rs2 = 0
  BY DEF Kinds, Nop
<1>5. ASSUME ~Drained PROVE /\ readData1_final = Value(ex.rs1)
                            /\ readData2_final = Value(ex.rs2)
  BY <1>1, <1>2, <1>3, <1>4, <1>5, Zenon DEF OperandsFresh, Value
<1>6. ~isDivRem => ~div.busy /\ ~div.done
  BY Zenon DEF Taken
<1>7. ASSUME ~isDivRem PROVE /\ dtlb_vaddr = Value(ex.rs1)
                             /\ dtlb_store_data = Value(ex.rs2)
  BY <1>5, <1>6, <1>7, Zenon DEF Drained, Taken, dtlb_vaddr, dtlb_store_data
<1>8. ASSUME ~isDivRem, ex.op \notin {"load", "store"}
      PROVE /\ readData1_final = Value(ex.rs1)
            /\ readData2_final = Value(ex.rs2)
  BY <1>5, <1>6, <1>8, Zenon DEF Drained, Taken
<1>9. QED
  BY <1>5, <1>7, <1>8, Zenon

\* EX redirects the fetch if and only if the architecture does not go where
\* the fetch went, and to where the architecture goes.
LEMMA Redirects ==
  ASSUME Whole, NEW dm \in BOOLEAN
  PROVE  /\ other_redirect_taken(dm) <=> Redirecting
         /\ exception_taken(dm) <=> ex.op = "ecall"
         /\ Redirecting => redirect_target(dm, FALSE) = PcAfter
         /\ ~Redirecting => PcAfter = Predicted(reg2)
<1> USE DEF Whole
<1>1. ex.op \in AllOps \ {"sc", "lpf"}
  BY OpsIn, Zenon
<1>2. exception_taken(dm) <=> ex.op = "ecall"
  BY <1>1 DEF exception_taken, dtlb_page_fault
<1>3. ex.op \in {"beq", "jalr"} => /\ readData1_final = Value(ex.rs1)
                                   /\ readData2_final = Value(ex.rs2)
  BY ArgsRight DEF isDivRem
<1>4. desired_taken <=> Jumps
  BY <1>3 DEF desired_taken, Jumps
<1>5. desired_target = JumpTarget
  BY <1>3, Zenon DEF desired_target, JumpTarget
<1>6. desired_taken \in BOOLEAN /\ Jumps \in BOOLEAN /\ reg2.pt \in BOOLEAN
  BY Zenon DEF desired_taken, Jumps, TypeOK
<1>7. desired_taken = Jumps
  BY <1>4, <1>6, Zenon
<1>8. branch_or_jump_redirect <=>
        IF build.Predictor
        THEN reg2.pt # Jumps \/ (Jumps /\ reg2.ptgt # JumpTarget)
        ELSE Jumps
  BY <1>5, <1>7, Zenon DEF branch_or_jump_redirect, mispredict
<1>9. other_redirect_taken(dm) <=> Redirecting
  BY <1>2, <1>8, Zenon DEF other_redirect_taken, Redirecting, mret_real
<1>10. ASSUME Redirecting PROVE redirect_target(dm, FALSE) = PcAfter
  <2>1. CASE ex.op = "ecall"
    BY <1>2, <2>1, Zenon DEF redirect_target, PcAfter
  <2>2. CASE ex.op = "mret"
    <3>1. ex.op # "ecall"
      BY <2>2
    <3>2. QED
      BY <1>2, <2>2, <3>1, Zenon DEF redirect_target, PcAfter, mret_real
  <2>3. CASE ex.op # "ecall" /\ ex.op # "mret"
    <3>1. redirect_target(dm, FALSE) = branch_or_jump_target
      BY <1>2, <2>3, Zenon DEF redirect_target, mret_real
    <3>2. PcAfter = IF Jumps THEN JumpTarget ELSE NextPC(reg2.pc)
      BY <2>3, Zenon DEF PcAfter
    <3>3. ~build.Predictor => Jumps
      BY <1>10, <2>3, Zenon DEF Redirecting
    <3>4. branch_or_jump_target = IF Jumps THEN JumpTarget ELSE NextPC(reg2.pc)
      BY <1>5, <1>7, <3>3, Zenon DEF branch_or_jump_target
    <3>5. QED
      BY <3>1, <3>2, <3>4, Zenon
  <2>4. QED
    BY <2>1, <2>2, <2>3, Zenon
<1>11. ASSUME ~Redirecting PROVE PcAfter = Predicted(reg2)
  <2>1. PcAfter = IF Jumps THEN JumpTarget ELSE NextPC(reg2.pc)
    BY <1>11, Zenon DEF PcAfter, Redirecting
  <2>2. CASE build.Predictor
    BY <1>6, <1>11, <2>1, <2>2, Zenon DEF Redirecting, Predicted
  <2>3. CASE ~build.Predictor
    BY <1>11, <2>1, <2>3, Zenon DEF Redirecting, Predicted, Kinds
  <2>4. QED
    BY <2>2, <2>3, Zenon
<1>12. QED
  BY <1>2, <1>9, <1>10, <1>11, Zenon

(***************************************************************************)
(* minstret, with the instruction in MEM counted already.                  *)
(***************************************************************************)
LEMMA ModSmall == ASSUME NEW m \in Nat \ {0}, NEW x \in 0 .. (m - 1) PROVE x % m = x
  OBVIOUS

\* minstret moves when an instruction leaves EX, and only then.
LEMMA CountMoves ==
  ASSUME TypeOK, Kinds, Supported(build), csr'.instret = InstretEdge
  PROVE  /\ Count \in 0 .. (INSTRETMOD - 1)
         /\ mem_hold /\ reg3' = reg3 => Count' = Count
         /\ ~mem_hold => Count' = IF reg3'.valid THEN (Count + 1) % INSTRETMOD
                                  ELSE Count
<1>1. csr.instret \in 0 .. (INSTRETMOD - 1)
  BY Zenon DEF TypeOK
<1>2. INSTRETMOD \in Nat \ {0}
  BY IsaAssumption, Zenon
<1>3. csr.instret + (IF reg3.valid THEN 1 ELSE 0) \in Int
  BY <1>1, <1>2
<1>4. Count \in 0 .. (INSTRETMOD - 1)
  BY <1>2, <1>3, ModRange, Zenon DEF Count
<1>5. Count = IF reg3.valid THEN (csr.instret + 1) % INSTRETMOD ELSE csr.instret
  <2>1. CASE reg3.valid
    BY <2>1, Zenon DEF Count
  <2>2. CASE ~reg3.valid
    <3>1. Count = (csr.instret + 0) % INSTRETMOD
      BY <2>2, Zenon DEF Count
    <3>2. csr.instret + 0 = csr.instret
      BY <1>1
    <3>3. csr.instret % INSTRETMOD = csr.instret
      BY <1>1, <1>2, ModSmall, Zenon
    <3>4. QED
      BY <2>2, <3>1, <3>2, <3>3, Zenon
  <2>3. QED
    BY <2>1, <2>2, Zenon
<1>6. ASSUME mem_hold, reg3' = reg3 PROVE Count' = Count
  <2>1. CASE mem_stall
    BY <1>6, <2>1, Zenon DEF InstretEdge, Count
  <2>2. CASE amo_stall
    <3>1. reg3.op \in build.Ops \cap AmoOps
      BY <2>2 DEF amo_stall, amo_active, Kinds, AmoOps
    <3>2. INSTRETMOD = 1
      BY <3>1, Zenon DEF Supported
    <3>3. Count = 0
      BY <1>4, <3>2
    <3>4. InstretEdge = 0
      BY <1>1, <3>2 DEF InstretEdge
    <3>5. Count' = 0
      BY <3>2, <3>4 DEF Count
    <3>6. QED
      BY <3>3, <3>5, Zenon
  <2>3. QED
    BY <1>6, <2>1, <2>2, Zenon DEF mem_hold
<1>7. ASSUME ~mem_hold
      PROVE Count' = IF reg3'.valid THEN (Count + 1) % INSTRETMOD ELSE Count
  <2>1. csr'.instret = Count
    BY <1>5, <1>7, Zenon DEF InstretEdge, mem_hold
  <2>2. Count' = (Count + IF reg3'.valid THEN 1 ELSE 0) % INSTRETMOD
    BY <2>1, Zenon DEF Count
  <2>3. Count + 0 = Count
    BY <1>2, <1>4
  <2>4. Count % INSTRETMOD = Count
    BY <1>2, <1>4, ModSmall, Zenon
  <2>5. QED
    BY <2>2, <2>3, <2>4, Zenon
<1>8. QED
  BY <1>4, <1>6, <1>7, Zenon

\* What an edge does to the CSRs.
LEMMA CsrMoves ==
  ASSUME TypeOK, NEW dm \in BOOLEAN, NEW it \in BOOLEAN, NEW bt \in BOOLEAN,
         CsrEdge(dm, it, bt)
  PROVE  /\ csr'.scratch = ScratchEdge(dm, bt)
         /\ csr'.instret = InstretEdge
         /\ csr'.mie = MstatusEdge(dm, it, bt).mie
         /\ csr'.mpie = MstatusEdge(dm, it, bt).mpie
         /\ csr'.mepc = MstatusEdge(dm, it, bt).mepc
<1>1. DOMAIN MstatusEdge(dm, it, bt) = {"scratch", "mie", "mpie", "mepc", "instret"}
  <2>1. DOMAIN csr = {"scratch", "mie", "mpie", "mepc", "instret"}
    BY DEF TypeOK
  <2>2. QED
    BY <2>1, Zenon DEF MstatusEdge
<1>2. QED
  BY <1>1 DEF CsrEdge

(***************************************************************************)
(* MEM, WB and the CSRs in one cycle.                                      *)
(***************************************************************************)
\* The edges that make up a cycle.
LEMMA CycleEdges ==
  ASSUME NEW fm, NEW dm, NEW fin, NEW it, NEW bt, Cycle(fm, dm, fin, it, bt)
  PROVE  /\ MemoryEdges /\ build' = build
         /\ Reg3Edge(dm, bt) /\ Reg2Edge(fm, dm, bt)
         /\ DividerEdge(fin) /\ DtlbEdge(dm, bt) /\ CsrEdge(dm, it, bt)
         /\ SquashExtendEdge(bt) /\ FetchEdge(fm, dm, it, bt)
         /\ it => ~pc_stall(fm, dm, bt)
         /\ bt = (other_redirect_taken(dm) \/ it)
  BY Zenon DEF Cycle, Edges, MemoryEdges

\* While EX is held the architectural state does not move.
LEMMA BackHeld ==
  ASSUME Whole, NEW fm \in BOOLEAN, NEW dm \in BOOLEAN, NEW fin \in BOOLEAN,
         NEW it \in BOOLEAN, NEW bt \in BOOLEAN, Cycle(fm, dm, fin, it, bt),
         reg2_hold(dm, bt)
  PROVE  /\ ~it /\ reg2' = reg2
         /\ \A r \in RegSet \ {0} : RegBar(r)' = RegBar(r)
         /\ MemBar' = MemBar /\ Count' = Count
         /\ csr'.scratch = csr.scratch /\ csr'.mie = csr.mie
         /\ csr'.mpie = csr.mpie /\ csr'.mepc = csr.mepc
<1> USE DEF Whole
<1>1. /\ MemoryEdges /\ Reg3Edge(dm, bt) /\ Reg2Edge(fm, dm, bt)
      /\ CsrEdge(dm, it, bt)
  BY CycleEdges, Zenon
<1>2. ~it
  BY CycleEdges, Zenon DEF pc_stall
<1>3. reg2' = reg2
  BY <1>1, Zenon DEF Reg2Edge
<1>4. ScratchEdge(dm, bt) = csr.scratch /\ MstatusEdge(dm, it, bt) = csr
  BY <1>2, Zenon DEF ScratchEdge, MstatusEdge, trap_taken
<1>5. /\ csr'.scratch = csr.scratch /\ csr'.mie = csr.mie
      /\ csr'.mpie = csr.mpie /\ csr'.mepc = csr.mepc
      /\ csr'.instret = InstretEdge
  BY <1>1, <1>4, CsrMoves
<1>6. CASE mem_hold
  <2>1. reg3' = reg3
    BY <1>1, <1>6, Reg3Moves, Zenon
  <2>2. Count' = Count
    BY <1>5, <1>6, <2>1, CountMoves, Zenon
  <2>3. QED
    BY <1>1, <1>2, <1>3, <1>5, <1>6, <2>1, <2>2, MemWaits, Zenon
<1>7. CASE ~mem_hold
  <2>1. reg3' = NoReg3
    BY <1>1, <1>7, Reg3Moves, Zenon
  <2>2. reg3'.rd = 0 /\ reg3'.op = "reg" /\ reg3'.valid = FALSE
    BY <2>1, Zenon DEF NoReg3
  <2>3. Count' = Count
    BY <1>5, <1>7, <2>2, CountMoves, Zenon
  <2>4. \A r \in RegSet \ {0} : RegBar(r)' = RegBar(r)
    BY <1>1, <1>7, <2>2, Landed, Zenon
  <2>5. MemBar' = MemBar
    <3>1. reg3'.op # "store" /\ reg3'.op # "amo"
      BY <2>2
    <3>2. QED
      BY <1>1, <1>7, <3>1, Landed, Zenon
  <2>6. QED
    BY <1>2, <1>3, <1>5, <2>3, <2>4, <2>5, Zenon
<1>8. QED
  BY <1>6, <1>7, Zenon

\* An address leaves EX translated.
LEMMA Translated ==
  ASSUME Whole, NEW fm \in BOOLEAN, NEW dm \in BOOLEAN, NEW fin \in BOOLEAN,
         NEW it \in BOOLEAN, NEW bt \in BOOLEAN, Cycle(fm, dm, fin, it, bt),
         ~reg2_hold(dm, bt), ex.op \in {"load", "store"}
  PROVE  mem_paddr(dm) = Value(ex.rs1)
<1> USE DEF Whole
<1>1. ~isDivRem
  BY DEF isDivRem
<1>2. ~(dtlb_needed /\ dm)
  <2>1. SUFFICES ASSUME dtlb_needed, dm PROVE FALSE
    BY Zenon
  <2>2. bt
    BY <2>1, Zenon DEF reg2_hold, dtlb_miss
  <2>3. ex.op \in build.Ops
    BY DEF Kinds
  <2>4. ~build.Interrupts /\ ~build.Predictor
    BY <2>1, <2>3, Zenon DEF Supported, dtlb_needed
  <2>5. ~it
    BY <2>4, Zenon DEF Cycle
  <2>6. Redirecting
    BY <2>2, <2>5, Redirects, CycleEdges, Zenon
  <2>7. ex.op \in {"jal", "jalr", "beq", "ecall", "mret"}
    BY <2>4, <2>6, Zenon DEF Redirecting, Jumps
  <2>8. QED
    BY <2>7
<1>3. QED
  BY <1>1, <1>2, ArgsRight, Zenon DEF mem_paddr

\* EX hands on the address, or the result the architecture computes.
LEMMA Computed ==
  ASSUME Whole, NEW fm \in BOOLEAN, NEW dm \in BOOLEAN, NEW fin \in BOOLEAN,
         NEW it \in BOOLEAN, NEW bt \in BOOLEAN, Cycle(fm, dm, fin, it, bt),
         ~reg2_hold(dm, bt)
  PROVE  /\ ex.op \in ReadOps \cup {"store"} => ex_result(dm) = Value(ex.rs1)
         /\ ex.op \in HasRd \ ReadOps => ex_result(dm) = RdAfter
<1> USE DEF Whole
<1>1. ex.op \in AllOps \ {"sc", "lpf"}
  BY OpsIn, Zenon
<1>2. CASE ex.op \in {"load", "store"}
  <2>1. ex_result(dm) = mem_paddr(dm)
    <3>1. /\ ex.op \in MemReads \cup MemWrites /\ ex.op \notin AmoOps
          /\ ex.op \notin {"li", "alu", "div", "jal", "jalr", "csr", "csrmie"}
      BY <1>2 DEF MemReads, MemWrites, AmoOps
    <3>2. QED
      BY <3>1, Zenon DEF ex_result
  <2>2. mem_paddr(dm) = Value(ex.rs1)
    BY <1>2, Translated, Zenon
  <2>3. QED
    BY <1>2, <2>1, <2>2 DEF HasRd, ReadOps
<1>3. CASE ex.op \in AmoOps
  <2>1. readData1_final = Value(ex.rs1)
    BY <1>3, ArgsRight DEF AmoOps, isDivRem
  <2>2. ex_result(dm) = readData1_final
    BY <1>3 DEF ex_result, MemReads, MemWrites, AmoOps
  <2>3. QED
    BY <1>3, <2>1, <2>2, Zenon DEF ReadOps
<1>4. CASE ex.op = "div"
  <2>1. div.done
    BY <1>4, Zenon DEF reg2_hold, div_stall, isDivRem
  <2>2. div.result = DivFn(Value(ex.rs1), Value(ex.rs2))
    BY <2>1, Zenon DEF Taken
  <2>3. QED
    BY <1>4, <2>2 DEF ex_result, RdAfter, ReadOps, AmoOps
<1>5. CASE ex.op = "alu"
  <2>1. readData1_final = Value(ex.rs1) /\ readData2_final = Value(ex.rs2)
    BY <1>5, ArgsRight DEF isDivRem
  <2>2. QED
    BY <1>5, <2>1 DEF ex_result, RdAfter, ReadOps, AmoOps
<1>6. CASE ex.op \in {"li", "jal", "jalr", "csr", "csrmie"}
  BY <1>6 DEF ex_result, RdAfter, ReadOps, AmoOps, MemReads, MemWrites
<1>7. CASE ex.op \in {"beq", "ecall", "mret"}
  BY <1>7 DEF ReadOps, AmoOps, HasRd
<1>8. QED
  BY <1>1, <1>2, <1>3, <1>4, <1>5, <1>6, <1>7 DEF AllOps, AmoOps

\* When EX moves, registers, memory and counter take the instruction's effect.
LEMMA BackMoves ==
  ASSUME Whole, NEW fm \in BOOLEAN, NEW dm \in BOOLEAN, NEW fin \in BOOLEAN,
         NEW it \in BOOLEAN, NEW bt \in BOOLEAN, Cycle(fm, dm, fin, it, bt),
         ~reg2_hold(dm, bt)
  PROVE  /\ \A r \in RegSet \ {0} : RegBar(r)' = RegAfter(r)
         /\ MemBar' = MemAfter
         /\ Count' = IF reg2.valid THEN CountAfter ELSE Count
         /\ csr'.scratch = ScratchAfter
<1> USE DEF Whole
<1>1. /\ MemoryEdges /\ Reg3Edge(dm, bt) /\ CsrEdge(dm, it, bt)
  BY CycleEdges, Zenon
<1>2. ~mem_hold /\ ~div_stall /\ ~dtlb_miss(dm, bt)
  BY Zenon DEF reg2_hold
<1>3. ex.op \in AllOps \ {"sc", "lpf"}
  BY OpsIn, Zenon
<1>4. csr'.scratch = ScratchEdge(dm, bt) /\ csr'.instret = InstretEdge
  BY <1>1, CsrMoves, Zenon
<1>5. csr'.scratch = ScratchAfter
  <2>1. ex.op = "csr" => readData1_final = Value(ex.rs1)
    BY ArgsRight DEF isDivRem
  <2>2. QED
    BY <1>4, <2>1, Zenon DEF ScratchEdge, ScratchAfter
<1>6. CASE ex.op = "ecall"
  <2>1. reg3' = NoReg3
    BY <1>1, <1>2, <1>6, Redirects, Zenon DEF Reg3Edge, reg3_bubble
  <2>2. reg3'.rd = 0 /\ reg3'.op = "reg" /\ reg3'.valid = FALSE
    BY <2>1, Zenon DEF NoReg3
  <2>3. Count' = Count
    BY <1>2, <1>4, <2>2, CountMoves, Zenon
  <2>4. ASSUME NEW r \in RegSet \ {0} PROVE RegBar(r)' = RegAfter(r)
    <3>1. RegBar(r)' = RegBar(r)
      BY <1>1, <1>2, <2>2, Landed, Zenon
    <3>2. QED
      BY <1>6, <3>1 DEF RegAfter, HasRd
  <2>5. MemBar' = MemBar
    <3>1. reg3'.op # "store" /\ reg3'.op # "amo"
      BY <2>2
    <3>2. QED
      BY <1>1, <1>2, <3>1, Landed, Zenon
  <2>6. MemAfter = MemBar
    BY <1>6 DEF MemAfter
  <2>7. CountAfter = Count
    BY <1>6, Zenon DEF CountAfter
  <2>8. QED
    BY <1>5, <2>3, <2>4, <2>5, <2>6, <2>7, Zenon
<1>7. CASE ex.op # "ecall"
  <2>1. reg3' = [valid |-> reg2.valid,
                 op |-> IF ex.op \in MemReads \cup MemWrites \cup AmoOps
                        THEN ex.op ELSE "reg",
                 rd |-> IF ex.op \in HasRd THEN ex.rd ELSE 0,
                 res |-> ex_result(dm), data |-> dtlb_store_data]
    BY <1>1, <1>2, <1>7, Redirects, Zenon DEF Reg3Edge, reg3_bubble
  <2>2. /\ reg3'.valid = reg2.valid /\ reg3'.res = ex_result(dm)
        /\ reg3'.op = IF ex.op \in MemReads \cup MemWrites \cup AmoOps
                      THEN ex.op ELSE "reg"
        /\ reg3'.rd = IF ex.op \in HasRd THEN ex.rd ELSE 0
        /\ reg3'.data = dtlb_store_data
    BY <2>1, Zenon
  <2>3. /\ reg3'.op \in MemReads \cup AmoOps <=> ex.op \in ReadOps
        /\ reg3'.op = "store" <=> ex.op = "store"
        /\ reg3'.op = "amo" <=> ex.op = "amo"
    BY <1>3, <2>2 DEF ReadOps, AmoOps, MemReads, MemWrites
  <2>4. Count' = IF reg2.valid THEN CountAfter ELSE Count
    BY <1>2, <1>4, <1>7, <2>2, CountMoves, Zenon DEF CountAfter
  <2>5. ASSUME NEW r \in RegSet \ {0} PROVE RegBar(r)' = RegAfter(r)
    <3>1. r # 0
      OBVIOUS
    <3>2. RegBar(r)' = IF reg3'.rd # r THEN RegBar(r)
                       ELSE IF reg3'.op \in MemReads \cup AmoOps
                            THEN MemBar[reg3'.res] ELSE reg3'.res
      BY <1>1, <1>2, Landed, Zenon
    <3>3. CASE ~(ex.op \in HasRd /\ ex.rd = r)
      BY <2>2, <3>1, <3>2, <3>3, Zenon DEF RegAfter
    <3>4. CASE ex.op \in HasRd /\ ex.rd = r /\ ex.op \in ReadOps
      <4>1. RdAfter = MemBar[Value(ex.rs1)]
        BY <3>4 DEF RdAfter, ReadOps, AmoOps
      <4>2. QED
        BY <2>2, <2>3, <3>2, <3>4, <4>1, Computed, Zenon DEF RegAfter
    <3>5. CASE ex.op \in HasRd /\ ex.rd = r /\ ex.op \notin ReadOps
      BY <2>2, <2>3, <3>2, <3>5, Computed, Zenon DEF RegAfter
    <3>6. QED
      BY <3>3, <3>4, <3>5, Zenon
  <2>6. MemBar' = MemAfter
    <3>1. ex.op \in {"store", "amo"} => /\ reg3'.res = Value(ex.rs1)
                                        /\ reg3'.data = Value(ex.rs2)
      BY <2>2, Computed, ArgsRight DEF isDivRem, ReadOps, AmoOps
    <3>2. MemBar' = CASE reg3'.op = "store" ->
                           [MemBar EXCEPT ![reg3'.res] = reg3'.data]
                      [] reg3'.op = "amo" ->
                           [MemBar EXCEPT ![reg3'.res] =
                              AmoFn(MemBar[reg3'.res], reg3'.data)]
                      [] OTHER -> MemBar
      BY <1>1, <1>2, Landed, Zenon
    <3>3. CASE ex.op = "store"
      BY <2>3, <3>1, <3>2, <3>3, Zenon DEF MemAfter
    <3>4. CASE ex.op = "amo"
      <4>1. ex.op # "store"
        BY <3>4
      <4>2. QED
        BY <2>3, <3>1, <3>2, <3>4, <4>1, Zenon DEF MemAfter
    <3>5. CASE ex.op # "store" /\ ex.op # "amo"
      BY <2>3, <3>2, <3>5, Zenon DEF MemAfter
    <3>6. QED
      BY <3>3, <3>4, <3>5, Zenon
  <2>7. QED
    BY <1>5, <2>4, <2>5, <2>6, Zenon
<1>8. QED
  BY <1>6, <1>7, Zenon

\* And so do the trap registers, or they take an interrupt's.
LEMMA MstatusMoves ==
  ASSUME Whole, NEW fm \in BOOLEAN, NEW dm \in BOOLEAN, NEW fin \in BOOLEAN,
         NEW it \in BOOLEAN, NEW bt \in BOOLEAN, Cycle(fm, dm, fin, it, bt),
         ~reg2_hold(dm, bt)
  PROVE  /\ it => /\ csr'.mie = FALSE /\ csr'.mpie = csr.mie
                  /\ csr'.mepc = interrupt_mepc
         /\ ~it => /\ csr'.mie = MieAfter /\ csr'.mpie = MpieAfter
                   /\ csr'.mepc = MepcAfter
<1> USE DEF Whole
<1> DEFINE M == MstatusEdge(dm, it, bt)
<1>1. csr'.mie = M.mie /\ csr'.mpie = M.mpie /\ csr'.mepc = M.mepc
  BY CycleEdges, CsrMoves
<1>2. trap_taken(dm, it, bt) <=> ex.op = "ecall" \/ it
  BY Redirects, Zenon DEF trap_taken
<1>3. CASE it
  <2>1. M = [csr EXCEPT !.mpie = csr.mie, !.mie = FALSE, !.mepc = interrupt_mepc]
    BY <1>2, <1>3, Zenon DEF MstatusEdge
  <2>2. QED
    BY <1>1, <1>3, <2>1, Zenon DEF TypeOK
<1>4. CASE ~it /\ ex.op = "ecall"
  <2>1. M = [csr EXCEPT !.mpie = csr.mie, !.mie = FALSE, !.mepc = reg2.pc]
    BY <1>2, <1>4, Zenon DEF MstatusEdge
  <2>2. QED
    BY <1>1, <1>4, <2>1 DEF TypeOK, MieAfter, MpieAfter, MepcAfter
<1>5. CASE ~it /\ ex.op = "mret"
  <2>1. ex.op # "ecall" /\ mret_real
    BY <1>5 DEF mret_real
  <2>2. M = [csr EXCEPT !.mie = csr.mpie, !.mpie = TRUE]
    BY <1>2, <1>5, <2>1, Zenon DEF MstatusEdge
  <2>3. QED
    BY <1>1, <1>5, <2>1, <2>2, Zenon DEF TypeOK, MieAfter, MpieAfter, MepcAfter
<1>6. CASE ~it /\ ex.op = "csrmie"
  <2>1. ex.op # "ecall" /\ ~mret_real /\ ex.op # "mret"
    BY <1>6 DEF mret_real
  <2>2. readData1_final = Value(ex.rs1)
    BY <1>6, ArgsRight DEF isDivRem
  <2>3. M = [csr EXCEPT !.mie = (Value(ex.rs1) # 0)]
    BY <1>2, <1>6, <2>1, <2>2, Zenon DEF MstatusEdge
  <2>4. QED
    BY <1>1, <1>6, <2>1, <2>3 DEF TypeOK, MieAfter, MpieAfter, MepcAfter
<1>7. CASE ~it /\ ex.op \notin {"ecall", "mret", "csrmie"}
  <2>1. M = csr
    BY <1>2, <1>7, Zenon DEF MstatusEdge, mret_real
  <2>2. QED
    BY <1>1, <1>7, <2>1, Zenon DEF MieAfter, MpieAfter, MepcAfter
<1>8. QED
  BY <1>3, <1>4, <1>5, <1>6, <1>7, Zenon

(***************************************************************************)
(* The front end: which program counter comes next.                        *)
(***************************************************************************)

\* A bubble in EX redirects nothing and holds nothing.
LEMMA Quiet ==
  ASSUME Whole, ~reg2.valid
  PROVE  ~Redirecting /\ ex = Nop /\ ex.op = "li" /\ ex.rd = 0
<1> USE DEF Whole
<1>1. ex = Nop /\ ~reg2.pt
  BY Zenon DEF Kinds
<1>2. ex.op = "li" /\ ex.rd = 0
  BY <1>1, Zenon DEF Nop
<1>3. ~Jumps
  BY <1>2 DEF Jumps
<1>4. reg2.pt = Jumps
  BY <1>1, <1>3, Zenon DEF TypeOK, Jumps
<1>5. QED
  BY <1>1, <1>2, <1>3, <1>4 DEF Redirecting

\* Whatever redirects the fetch is no load or AMO, and nothing stalls it.
LEMMA RedirectFree ==
  ASSUME Whole, NEW fm \in BOOLEAN, NEW dm \in BOOLEAN, NEW fin \in BOOLEAN,
         NEW it \in BOOLEAN, NEW bt \in BOOLEAN, Cycle(fm, dm, fin, it, bt),
         bt, ~reg2_hold(dm, bt)
  PROVE  /\ ~pc_stall(fm, dm, bt)
         /\ ~it => Redirecting /\ ex.op \notin ReadOps
<1> USE DEF Whole
<1>1. CASE it
  BY <1>1, CycleEdges, Zenon
<1>2. CASE ~it
  <2>1. Redirecting
    BY <1>2, Redirects, CycleEdges, Zenon
  <2>2. ex.op \notin ReadOps
    <3>1. CASE build.Predictor
      BY <3>1 DEF Supported, Kinds, ReadOps, AmoOps
    <3>2. CASE ~build.Predictor
      BY <2>1, <3>2 DEF Redirecting, Jumps, ReadOps, AmoOps
    <3>3. QED
      BY <3>1, <3>2, Zenon
  <2>3. ex.op \notin MemReads \cup AmoOps
    BY <2>2, OpsIn DEF ReadOps, MemReads
  <2>4. ~stall(bt) /\ ~fetch_miss(fm, bt)
    BY <2>3, Zenon DEF stall, Hazard, HazardNoForward, fetch_miss
  <2>5. QED
    BY <1>2, <2>1, <2>2, <2>4, Zenon DEF pc_stall
<1>3. QED
  BY <1>1, <1>2, Zenon

\* How the front end moves when EX does not hold it.
LEMMA FrontRedirected ==
  ASSUME Whole, NEW fm \in BOOLEAN, NEW dm \in BOOLEAN, NEW fin \in BOOLEAN,
         NEW it \in BOOLEAN, NEW bt \in BOOLEAN, Cycle(fm, dm, fin, it, bt),
         bt, ~reg2_hold(dm, bt)
  PROVE  /\ pc' = redirect_target(dm, it)
         /\ reg1' = NoReg1 /\ reg2' = NoReg2
         /\ redirect_squash_extend_r' = build.SplitFetch
<1>1. ~pc_stall(fm, dm, bt)
  BY RedirectFree, Zenon
<1>2. PICK p \in Prediction : PcEdge(fm, dm, it, bt, p) /\ Reg1Edge(fm, dm, bt, p)
  <2>1. FetchEdge(fm, dm, it, bt)
    BY CycleEdges, Zenon
  <2>2. QED
    BY ONLY <2>1, Zenon DEF FetchEdge
<1>3. pc' = redirect_target(dm, it)
  BY <1>1, <1>2, Zenon DEF PcEdge
<1>4. reg1' = NoReg1
  BY <1>2, Zenon DEF Reg1Edge
<1>5. reg2' = NoReg2
  BY CycleEdges, Zenon DEF Reg2Edge
<1>6. build.SplitFetch \in BOOLEAN
  BY BuildsAssumption DEF Whole, TypeOK, Build
<1>7. redirect_squash_extend_r' = build.SplitFetch
  BY <1>6, CycleEdges, Zenon DEF SquashExtendEdge
<1>8. QED
  BY <1>3, <1>4, <1>5, <1>7, Zenon

\* A front end that waits: EX holds it, or a flush puts a bubble into EX.
LEMMA FrontWaits ==
  ASSUME Whole, NEW fm \in BOOLEAN, NEW dm \in BOOLEAN, NEW fin \in BOOLEAN,
         NEW it \in BOOLEAN, NEW bt \in BOOLEAN, Cycle(fm, dm, fin, it, bt),
         ~bt, pc_stall(fm, dm, bt)
  PROVE  /\ ~redirect_squash_extend_r /\ ~redirect_squash_extend_r'
         /\ pc' = pc /\ reg1' = reg1 /\ reg1a' = reg1a
<1> USE DEF Whole
<1>1. ~it /\ ~Redirecting
  BY CycleEdges, Redirects, Zenon
<1>2. ASSUME redirect_squash_extend_r PROVE FALSE
  <2>1. ~reg1.valid /\ ~reg2.valid /\ reg3.op \notin ReadOps
    BY <1>1, <1>2, Zenon DEF Sequence
  <2>2. ex.op = "li" /\ ex.rd = 0
    BY <2>1, Quiet, Zenon
  <2>3. ~div_stall /\ ~dtlb_miss(dm, bt) /\ ex.op \notin MemReads \cup AmoOps
    BY <2>2 DEF div_stall, isDivRem, dtlb_miss, dtlb_needed, MemReads, MemWrites,
                AmoOps
  <2>4. ~mem_hold
    BY <2>1 DEF mem_hold, mem_stall, amo_stall, amo_active, lsu_ack, eff_memWrite,
                ReadOps, AmoOps
  <2>5. reg1.inst.rs1 = 0 /\ reg1.inst.rs2 = 0
    BY <2>1 DEF Kinds, Nop
  <2>6. ~stall(bt)
    BY <2>2, <2>3, <2>5, Zenon DEF stall, Hazard, HazardNoForward, Reads
  <2>7. QED
    BY <1>2, <2>3, <2>4, <2>6, Zenon DEF pc_stall, reg2_hold, fetch_miss
<1>3. PICK p \in Prediction : /\ PcEdge(fm, dm, it, bt, p)
                              /\ Reg1aEdge(fm, dm, bt, p)
                              /\ Reg1Edge(fm, dm, bt, p)
  BY CycleEdges, Zenon DEF FetchEdge
<1>4. pc' = pc /\ reg1a' = reg1a
  BY <1>3, Zenon DEF PcEdge, Reg1aEdge
<1>5. reg1' = reg1
  BY <1>2, <1>3, Zenon DEF Reg1Edge
<1>6. ~redirect_squash_extend_r'
  BY CycleEdges, Zenon DEF SquashExtendEdge
<1>7. QED
  BY <1>2, <1>4, <1>5, <1>6, Zenon

\* A front end that moves.
LEMMA FrontMoves ==
  ASSUME Whole, NEW fm \in BOOLEAN, NEW dm \in BOOLEAN, NEW fin \in BOOLEAN,
         NEW it \in BOOLEAN, NEW bt \in BOOLEAN, Cycle(fm, dm, fin, it, bt),
         ~bt, ~pc_stall(fm, dm, bt)
  PROVE  /\ ~redirect_squash_extend_r'
         /\ reg2'.valid = reg1.valid /\ reg2'.pc = reg1.pc
         /\ reg2'.inst = reg1.inst /\ reg2'.pt = reg1.pt
         /\ reg2'.ptgt = reg1.ptgt
         /\ redirect_squash_extend_r => reg1' = NoReg1
         /\ \E p \in Prediction :
              /\ pc' = IF p.pt THEN p.ptgt ELSE NextPC(pc)
              /\ reg1a' = IF build.SplitFetch
                          THEN [pc |-> pc, pt |-> p.pt, ptgt |-> p.ptgt]
                          ELSE reg1a
              /\ ~redirect_squash_extend_r =>
                   \E i \in Fetchable(fetch(p).pc) :
                     reg1' = [valid |-> TRUE, pc |-> fetch(p).pc, inst |-> i,
                              pt |-> fetch(p).pt, ptgt |-> fetch(p).ptgt]
<1>1. PICK p \in Prediction : /\ PcEdge(fm, dm, it, bt, p)
                              /\ Reg1aEdge(fm, dm, bt, p)
                              /\ Reg1Edge(fm, dm, bt, p)
  BY CycleEdges DEF FetchEdge
<1>2. pc' = IF p.pt THEN p.ptgt ELSE NextPC(pc)
  BY <1>1, Zenon DEF PcEdge
<1>3. reg1a' = IF build.SplitFetch
               THEN [pc |-> pc, pt |-> p.pt, ptgt |-> p.ptgt] ELSE reg1a
  BY <1>1, Zenon DEF Reg1aEdge
<1>4. ~redirect_squash_extend_r =>
        \E i \in Fetchable(fetch(p).pc) :
          reg1' = [valid |-> TRUE, pc |-> fetch(p).pc, inst |-> i,
                   pt |-> fetch(p).pt, ptgt |-> fetch(p).ptgt]
  BY <1>1, Zenon DEF Reg1Edge
<1>5. redirect_squash_extend_r => reg1' = NoReg1
  BY <1>1, Zenon DEF Reg1Edge
<1>6. ~redirect_squash_extend_r'
  BY CycleEdges DEF SquashExtendEdge
<1>7. reg2' = [valid |-> reg1.valid, pc |-> reg1.pc, inst |-> reg1.inst,
               pt |-> reg1.pt, ptgt |-> reg1.ptgt,
               a |-> RegisterFile(reg1.inst.rs1),
               b |-> RegisterFile(reg1.inst.rs2)]
  BY CycleEdges DEF Reg2Edge, pc_stall
<1>8. QED
  BY <1>2, <1>3, <1>4, <1>5, <1>6, <1>7, Zenon

\* An instruction that redirects nothing is followed by the next one, or, out
\* of reset under split fetch, by a second copy of the nop at the reset address.
LEMMA FollowedPc ==
  ASSUME Whole, ~Redirecting, reg2.valid, Follows(reg2, reg1.pc)
  PROVE  \/ reg1.pc = PcAfter
         \/ ex = Nop /\ reg1.pc = PcBar /\ INSTRETMOD = 1
<1> USE DEF Whole
<1>1. TRUE \in BOOLEAN
  BY Zenon
<1>2. PcAfter = Predicted(reg2)
  BY <1>1, Redirects, Zenon
<1>3. CASE reg1.pc = Predicted(reg2)
  BY <1>2, <1>3, Zenon
<1>4. CASE build.SplitFetch /\ reg2.pc = 0 /\ reg1.pc = 0
  <2>1. build.BootNop /\ INSTRETMOD = 1
    BY <1>4, Zenon DEF Supported
  <2>2. QED
    BY <1>4, <2>1, Zenon DEF Kinds, PcBar
<1>5. QED
  BY <1>3, <1>4, Zenon DEF Follows

\* The program counter of the architectural state after a cycle.
LEMMA PcHeld ==
  ASSUME Whole, NEW fm \in BOOLEAN, NEW dm \in BOOLEAN, NEW fin \in BOOLEAN,
         NEW it \in BOOLEAN, NEW bt \in BOOLEAN, Cycle(fm, dm, fin, it, bt),
         reg2_hold(dm, bt)
  PROVE  PcBar' = PcBar
<1>1. ~it /\ reg2' = reg2 /\ build' = build
  BY BackHeld, CycleEdges
<1>2. CASE reg2.valid
  BY <1>1, <1>2, Zenon DEF PcBar
<1>3. CASE ~reg2.valid
  <2>1. ~bt
    <3>1. bt = (other_redirect_taken(dm) \/ it)
      BY CycleEdges, Zenon
    <3>2. ~Redirecting
      BY <1>3, Quiet, Zenon
    <3>3. ~other_redirect_taken(dm)
      BY <3>2, Redirects, Zenon
    <3>4. QED
      BY <1>1, <3>1, <3>3, Zenon
  <2>2. /\ ~redirect_squash_extend_r /\ ~redirect_squash_extend_r'
        /\ pc' = pc /\ reg1' = reg1 /\ reg1a' = reg1a
    BY <2>1, FrontWaits, Zenon DEF pc_stall
  <2>3. QED
    BY <1>1, <2>2, Zenon DEF PcBar
<1>4. QED
  BY <1>2, <1>3, Zenon

\* When EX moves, so does the architecture's program counter: to the handler
\* with an interrupt, to the successor of the instruction in EX, or, past a
\* bubble, not at all.
LEMMA PcMoves ==
  ASSUME Whole, NEW fm \in BOOLEAN, NEW dm \in BOOLEAN, NEW fin \in BOOLEAN,
         NEW it \in BOOLEAN, NEW bt \in BOOLEAN, Cycle(fm, dm, fin, it, bt),
         ~reg2_hold(dm, bt)
  PROVE  /\ it => /\ PcBar' = Handler
                  /\ interrupt_mepc = IF reg2.valid THEN PcAfter ELSE PcBar
         /\ ~it /\ ~reg2.valid => PcBar' = PcBar
         /\ ~it /\ reg2.valid =>
              \/ PcBar' = PcAfter
              \/ ex = Nop /\ PcBar' = PcBar /\ INSTRETMOD = 1
<1> USE DEF Whole
<1>1. build' = build /\ bt = (other_redirect_taken(dm) \/ it)
  BY CycleEdges, Zenon
<1>2. CASE bt
  <2>1. /\ pc' = redirect_target(dm, it)
        /\ reg1' = NoReg1 /\ reg2' = NoReg2
        /\ redirect_squash_extend_r' = build.SplitFetch
    BY <1>2, FrontRedirected, Zenon
  <2>2. ~reg1'.valid /\ ~reg2'.valid
    BY <2>1, Zenon DEF NoReg1, NoReg2
  <2>3. PcBar' = redirect_target(dm, it)
    BY <1>1, <2>1, <2>2, Zenon DEF PcBar
  <2>4. CASE it
    <3>1. redirect_target(dm, it) = Handler
      BY <2>4, Zenon DEF redirect_target
    <3>2. ~Redirecting /\ build.Interrupts
      BY <2>4, Redirects, Zenon DEF Cycle
    <3>3. ~build.SplitFetch
      BY <3>2, Zenon DEF Supported
    <3>4. CASE reg2.valid
      <4>1. reg1.valid /\ Follows(reg2, reg1.pc)
        BY <3>2, <3>4, Zenon DEF Sequence
      <4>2. reg1.pc = Predicted(reg2)
        BY <3>3, <4>1, Zenon DEF Follows
      <4>3. PcAfter = Predicted(reg2)
        BY <3>2, Redirects, Zenon
      <4>4. QED
        BY <2>3, <2>4, <3>1, <3>4, <4>1, <4>2, <4>3, Zenon DEF interrupt_mepc
    <3>5. CASE ~reg2.valid
      BY <2>3, <2>4, <3>1, <3>3, <3>5, Zenon DEF interrupt_mepc, PcBar
    <3>6. QED
      BY <3>4, <3>5, Zenon
  <2>5. CASE ~it
    <3>1. Redirecting
      BY <1>2, <2>5, RedirectFree, Zenon
    <3>2. redirect_target(dm, it) = PcAfter
      <4>1. it = FALSE
        BY <2>5, Zenon
      <4>2. QED
        BY <3>1, <4>1, Redirects, Zenon
    <3>3. reg2.valid
      BY <3>1, Quiet, Zenon
    <3>4. QED
      BY <2>3, <2>5, <3>2, <3>3, Zenon
  <2>6. QED
    BY <2>4, <2>5, Zenon
<1>3. CASE ~bt
  <2>1. ~it /\ ~Redirecting
    BY <1>1, <1>3, Redirects, Zenon
  <2>2. CASE pc_stall(fm, dm, bt)
    <3>1. /\ ~redirect_squash_extend_r /\ ~redirect_squash_extend_r'
          /\ pc' = pc /\ reg1' = reg1 /\ reg1a' = reg1a
      BY <1>3, <2>2, FrontWaits, Zenon
    <3>2. reg2' = [NoReg2 EXCEPT !.pc = reg1.pc, !.pt = reg1.pt,
                                 !.ptgt = reg1.ptgt]
      BY <1>3, <2>2, CycleEdges DEF Reg2Edge, pc_stall
    <3>3. ~reg2'.valid
      BY <3>2, Zenon DEF NoReg2
    <3>4. CASE ~reg2.valid
      BY <1>1, <2>1, <3>1, <3>3, <3>4, Zenon DEF PcBar
    <3>5. CASE reg2.valid
      <4>1. reg1.valid /\ Follows(reg2, reg1.pc)
        BY <2>1, <3>5, Zenon DEF Sequence
      <4>2. PcBar' = reg1.pc
        BY <3>1, <3>3, <4>1, Zenon DEF PcBar
      <4>3. QED
        BY <2>1, <3>5, <4>1, <4>2, FollowedPc, Zenon
    <3>6. QED
      BY <3>4, <3>5, Zenon
  <2>3. CASE ~pc_stall(fm, dm, bt)
    <3>1. PICK p \in Prediction :
            /\ ~redirect_squash_extend_r'
            /\ reg2'.valid = reg1.valid /\ reg2'.pc = reg1.pc
            /\ redirect_squash_extend_r => reg1' = NoReg1
            /\ reg1a' = IF build.SplitFetch
                        THEN [pc |-> pc, pt |-> p.pt, ptgt |-> p.ptgt]
                        ELSE reg1a
            /\ ~redirect_squash_extend_r =>
                 \E i \in Fetchable(fetch(p).pc) :
                   reg1' = [valid |-> TRUE, pc |-> fetch(p).pc, inst |-> i,
                            pt |-> fetch(p).pt, ptgt |-> fetch(p).ptgt]
      BY <1>3, <2>3, FrontMoves, Zenon
    <3>2. CASE reg2.valid
      <4>1. reg1.valid /\ Follows(reg2, reg1.pc)
        BY <2>1, <3>2, Zenon DEF Sequence
      <4>2. PcBar' = reg1.pc
        BY <3>1, <4>1, Zenon DEF PcBar
      <4>3. QED
        BY <2>1, <3>2, <4>1, <4>2, FollowedPc, Zenon
    <3>3. CASE ~reg2.valid /\ reg1.valid
      BY <2>1, <3>1, <3>3, Zenon DEF PcBar
    <3>4. CASE ~reg2.valid /\ ~reg1.valid /\ redirect_squash_extend_r
      <4>1. build.SplitFetch
        BY <3>4, Zenon DEF Sequence
      <4>2. ~reg1'.valid
        BY <3>1, <3>4 DEF NoReg1
      <4>3. reg1a'.pc = pc
        BY <3>1, <4>1, Zenon
      <4>4. QED
        BY <1>1, <2>1, <3>1, <3>4, <4>1, <4>2, <4>3, Zenon DEF PcBar
    <3>5. CASE ~reg2.valid /\ ~reg1.valid /\ ~redirect_squash_extend_r
      <4>1. PICK i \in Fetchable(fetch(p).pc) :
              reg1' = [valid |-> TRUE, pc |-> fetch(p).pc, inst |-> i,
                       pt |-> fetch(p).pt, ptgt |-> fetch(p).ptgt]
        BY <3>1, <3>5, Zenon
      <4>2. reg1'.valid /\ reg1'.pc = fetch(p).pc
        BY <4>1, Zenon
      <4>3. fetch(p).pc = IF build.SplitFetch THEN reg1a.pc ELSE pc
        BY Zenon DEF fetch
      <4>4. QED
        BY <2>1, <3>1, <3>5, <4>2, <4>3, Zenon DEF PcBar
    <3>6. QED
      BY <3>2, <3>3, <3>4, <3>5, Zenon
  <2>4. QED
    BY <2>2, <2>3, Zenon
<1>4. QED
  BY <1>2, <1>3, Zenon

(***************************************************************************)
(* Every cycle keeps the invariant.                                        *)
(***************************************************************************)

\* What redirects an instruction held in EX keeps redirecting it.
LEMMA ValuesHeld ==
  ASSUME Whole, NEW fm \in BOOLEAN, NEW dm \in BOOLEAN, NEW fin \in BOOLEAN,
         NEW it \in BOOLEAN, NEW bt \in BOOLEAN, Cycle(fm, dm, fin, it, bt),
         reg2_hold(dm, bt)
  PROVE  /\ Value(ex.rs1)' = Value(ex.rs1) /\ Value(ex.rs2)' = Value(ex.rs2)
         /\ Redirecting' <=> Redirecting
<1>1. reg2' = reg2 /\ build' = build
  BY BackHeld, CycleEdges
<1>2. \A r \in RegSet \ {0} : RegBar(r)' = RegBar(r)
  BY BackHeld, Zenon
<1>3. ex.rs1 \in RegSet /\ ex.rs2 \in RegSet
  BY WiresTyped, Zenon DEF Whole, Fields
<1>4. ASSUME NEW r \in RegSet
      PROVE  (IF r = 0 THEN 0 ELSE RegBar(r)') = (IF r = 0 THEN 0 ELSE RegBar(r))
  BY <1>2
<1>5. ex' = ex
  BY <1>1, Zenon DEF ex
<1>6. Value(ex.rs1)' = Value(ex.rs1) /\ Value(ex.rs2)' = Value(ex.rs2)
  BY <1>3, <1>4, <1>5 DEF Value
<1>7. (Jumps' <=> Jumps) /\ JumpTarget' = JumpTarget
  BY <1>5, <1>6, Zenon DEF Jumps, JumpTarget
<1>8. Jumps' \in BOOLEAN /\ Jumps \in BOOLEAN
  BY Zenon DEF Jumps
<1>9. Jumps' = Jumps
  BY <1>7, <1>8, Zenon
<1>10. Redirecting' <=> Redirecting
  BY <1>1, <1>5, <1>7, <1>9, Zenon DEF Redirecting
<1>11. QED
  BY <1>6, <1>10, Zenon

\* A cycle keeps each part of the invariant.
LEMMA TakenStep ==
  ASSUME Whole, NEW fm \in BOOLEAN, NEW dm \in BOOLEAN, NEW fin \in BOOLEAN,
         NEW it \in BOOLEAN, NEW bt \in BOOLEAN, Cycle(fm, dm, fin, it, bt)
  PROVE  Taken'
<1> USE DEF Whole
<1>1. DividerEdge(fin) /\ DtlbEdge(dm, bt)
  BY CycleEdges, Zenon
<1>2. ~(div'.busy /\ div'.done)
  <2>1. div \in [busy : BOOLEAN, done : BOOLEAN, result : Val]
    BY Zenon DEF TypeOK
  <2>2. ~(div.busy /\ div.done)
    BY Zenon DEF Taken
  <2>3. CASE div' = [div EXCEPT !.busy = FALSE, !.done = TRUE]
    BY <2>1, <2>3
  <2>4. CASE div' = div \/ div' = [div EXCEPT !.done = FALSE]
    BY <2>1, <2>2, <2>4
  <2>5. CASE div' = [busy |-> TRUE, done |-> FALSE,
                     result |-> DivFn(readData1_final, readData2_final)]
    BY <2>5, Zenon
  <2>6. QED
    BY <1>1, <2>3, <2>4, <2>5, Zenon DEF DividerEdge
<1>3. ASSUME div'.busy \/ div'.done
      PROVE  isDivRem' /\ div'.result = DivFn(Value(ex.rs1), Value(ex.rs2))'
  <2>1. isDivRem /\ ~div.done
    BY <1>1, <1>3, Zenon DEF DividerEdge, TypeOK, Taken
  <2>2. reg2_hold(dm, bt)
    BY <2>1, Zenon DEF reg2_hold, div_stall
  <2>3. reg2' = reg2
    BY <2>2, BackHeld, Zenon
  <2>4. Value(ex.rs1)' = Value(ex.rs1) /\ Value(ex.rs2)' = Value(ex.rs2)
    BY <2>2, ValuesHeld, Zenon
  <2>5. div'.result = DivFn(Value(ex.rs1), Value(ex.rs2))
    <3>1. CASE div.busy
      BY <1>1, <2>1, <3>1, Zenon DEF DividerEdge, TypeOK, Taken
    <3>2. CASE ~div.busy
      <4>1. ~dtlb.miss
        BY <2>1 DEF Taken, isDivRem
      <4>2. /\ readData1_final = Value(ex.rs1)
            /\ readData2_final = Value(ex.rs2)
        BY <2>1, <3>2, <4>1, ArgsRight, Zenon DEF Drained
      <4>3. div' = [busy |-> TRUE, done |-> FALSE,
                    result |-> DivFn(readData1_final, readData2_final)]
        BY <1>1, <2>1, <3>2, Zenon DEF DividerEdge
      <4>4. QED
        BY <4>2, <4>3, Zenon
    <3>3. QED
      BY <3>1, <3>2, Zenon
  <2>6. isDivRem'
    BY <2>1, <2>3, Zenon DEF isDivRem, ex
  <2>7. QED
    BY <2>4, <2>5, <2>6, Zenon
<1>4. ASSUME dtlb'.miss
      PROVE  /\ ex'.op \in {"load", "store"}
             /\ dtlb'.vaddr = Value(ex.rs1)' /\ dtlb'.data = Value(ex.rs2)'
  <2>1. dtlb_miss(dm, bt)
    BY <1>1, <1>4, Zenon DEF DtlbEdge, TypeOK
  <2>2. reg2_hold(dm, bt)
    BY <2>1, Zenon DEF reg2_hold
  <2>3. reg2' = reg2
    BY <2>2, BackHeld, Zenon
  <2>4. Value(ex.rs1)' = Value(ex.rs1) /\ Value(ex.rs2)' = Value(ex.rs2)
    BY <2>2, ValuesHeld, Zenon
  <2>5. ex.op \in {"load", "store"} /\ dtlb_needed
    BY <2>1, OpsIn DEF dtlb_miss, dtlb_needed, MemReads, MemWrites
  <2>6. dtlb'.vaddr = Value(ex.rs1) /\ dtlb'.data = Value(ex.rs2)
    <3>1. CASE dtlb.miss
      BY <1>1, <3>1, Zenon DEF DtlbEdge, TypeOK, Taken
    <3>2. CASE ~dtlb.miss
      <4>1. ~isDivRem
        BY <2>5 DEF isDivRem
      <4>2. ~Drained
        BY <3>2, <4>1, Zenon DEF Drained, Taken
      <4>3. /\ readData1_final = Value(ex.rs1)
            /\ readData2_final = Value(ex.rs2)
        BY <4>2, ArgsRight, Zenon
      <4>4. dtlb' = [miss |-> dtlb_miss(dm, bt), vaddr |-> readData1_final,
                     data |-> readData2_final]
        BY <1>1, <2>5, <3>2, Zenon DEF DtlbEdge
      <4>5. QED
        BY <4>3, <4>4, Zenon
    <3>3. QED
      BY <3>1, <3>2, Zenon
  <2>7. ex' = ex
    BY <2>3, Zenon DEF ex
  <2>8. QED
    BY <2>4, <2>5, <2>6, <2>7, Zenon
<1>5. QED
  BY <1>2, <1>3, <1>4, Zenon DEF Taken

LEMMA AccessStep ==
  ASSUME Whole, NEW fm \in BOOLEAN, NEW dm \in BOOLEAN, NEW fin \in BOOLEAN,
         NEW it \in BOOLEAN, NEW bt \in BOOLEAN, Cycle(fm, dm, fin, it, bt)
  PROVE  Access' /\ (reg4'.isAmo => ~amo_active')
<1> USE DEF Whole
<1>1. MemoryEdges /\ Reg3Edge(dm, bt)
  BY CycleEdges, Zenon
<1>2. CASE mem_hold
  <2>1. reg3' = reg3
    BY <1>1, <1>2, Reg3Moves, Zenon
  <2>2. Access' /\ reg4' = reg4
    BY <1>1, <1>2, <2>1, MemWaits, Zenon
  <2>3. QED
    BY <2>1, <2>2, Zenon DEF Apart, amo_active
<1>3. CASE ~mem_hold
  BY <1>1, <1>3, Reg3Fresh, Zenon
<1>4. QED
  BY <1>2, <1>3, Zenon

\* How the instructions in reg1 and reg2 move together.
LEMMA Reg12Moves ==
  ASSUME Whole, NEW fm \in BOOLEAN, NEW dm \in BOOLEAN, NEW fin \in BOOLEAN,
         NEW it \in BOOLEAN, NEW bt \in BOOLEAN, Cycle(fm, dm, fin, it, bt)
  PROVE  \/ reg2_hold(dm, bt) /\ reg2' = reg2 /\ reg1' \in {reg1, NoReg1}
         \/ ~reg2_hold(dm, bt) /\ bt /\ reg2' = NoReg2 /\ reg1' = NoReg1
         \/ /\ ~reg2_hold(dm, bt) /\ ~bt /\ pc_stall(fm, dm, bt)
            /\ stall(bt) \/ fetch_miss(fm, bt)
            /\ reg2' = [NoReg2 EXCEPT !.pc = reg1.pc, !.pt = reg1.pt,
                                      !.ptgt = reg1.ptgt]
            /\ reg1' = reg1
         \/ /\ ~reg2_hold(dm, bt) /\ ~bt /\ ~pc_stall(fm, dm, bt)
            /\ reg2' = [valid |-> reg1.valid, pc |-> reg1.pc, inst |-> reg1.inst,
                        pt |-> reg1.pt, ptgt |-> reg1.ptgt,
                        a |-> RegisterFile(reg1.inst.rs1),
                        b |-> RegisterFile(reg1.inst.rs2)]
            /\ \/ reg1' = NoReg1
               \/ \E p \in Prediction : \E i \in Fetchable(fetch(p).pc) :
                    reg1' = [valid |-> TRUE, pc |-> fetch(p).pc, inst |-> i,
                             pt |-> fetch(p).pt, ptgt |-> fetch(p).ptgt]
<1>1. PICK p \in Prediction : Reg1Edge(fm, dm, bt, p)
  BY CycleEdges DEF FetchEdge
<1>2. Reg2Edge(fm, dm, bt)
  BY CycleEdges, Zenon
<1>3. CASE reg2_hold(dm, bt)
  BY <1>1, <1>2, <1>3, Zenon DEF Reg1Edge, Reg2Edge, pc_stall
<1>4. CASE ~reg2_hold(dm, bt) /\ bt
  BY <1>1, <1>2, <1>4, Zenon DEF Reg1Edge, Reg2Edge
<1>5. CASE ~reg2_hold(dm, bt) /\ ~bt /\ pc_stall(fm, dm, bt)
  BY <1>2, <1>5, FrontWaits, Zenon DEF Reg2Edge, pc_stall
<1>6. CASE ~reg2_hold(dm, bt) /\ ~bt /\ ~pc_stall(fm, dm, bt)
  <2>1. reg2' = [valid |-> reg1.valid, pc |-> reg1.pc, inst |-> reg1.inst,
                 pt |-> reg1.pt, ptgt |-> reg1.ptgt,
                 a |-> RegisterFile(reg1.inst.rs1),
                 b |-> RegisterFile(reg1.inst.rs2)]
    BY <1>2, <1>6, Zenon DEF Reg2Edge, pc_stall
  <2>2. \/ reg1' = NoReg1
        \/ \E i \in Fetchable(fetch(p).pc) :
             reg1' = [valid |-> TRUE, pc |-> fetch(p).pc, inst |-> i,
                      pt |-> fetch(p).pt, ptgt |-> fetch(p).ptgt]
    BY <1>1, <1>6, Zenon DEF Reg1Edge
  <2>3. QED
    BY <1>6, <2>1, <2>2, Zenon
<1>7. QED
  BY <1>3, <1>4, <1>5, <1>6, Zenon

\* What a fetch can return.
LEMMA Fetched ==
  ASSUME Whole, NEW p \in Prediction, NEW i \in Fetchable(fetch(p).pc)
  PROVE  /\ i.op \in build.Ops \cup {"li"}
         /\ i.op \in AmoOps => reg1.inst.op \notin ReadOps
         /\ build.BootNop /\ fetch(p).pc = 0 => i = Nop
         /\ ~build.Predictor => ~fetch(p).pt
<1> USE DEF Whole
<1>1. ASSUME i # Nop
      PROVE \E o \in build.Ops : /\ i \in Encodings[o]
                                 /\ o \in AmoOps => reg1.inst.op \notin build.AmoNotAfter
  BY <1>1, Zenon DEF Fetchable
<1>2. ASSUME NEW o \in build.Ops, i \in Encodings[o] PROVE i.op = o
  <2>1. o \in AllOps
    BY BuildsAssumption, Zenon DEF TypeOK, Build
  <2>2. i \in FieldsOf(o)
    BY <1>2, <2>1, Zenon DEF Encodings
  <2>3. QED
    BY <2>2, Zenon DEF FieldsOf
<1>3. i # Nop => i.op \in build.Ops
                 /\ (i.op \in AmoOps => reg1.inst.op \notin build.AmoNotAfter)
  BY <1>1, <1>2, Zenon
<1>4. Nop.op = "li" /\ "li" \notin AmoOps
  BY DEF Nop, AmoOps
<1>5. i.op \in AmoOps => reg1.inst.op \notin ReadOps
  <2>1. SUFFICES ASSUME i.op \in AmoOps PROVE reg1.inst.op \notin ReadOps
    BY Zenon
  <2>2. i # Nop
    BY <1>4, <2>1, Zenon
  <2>3. i.op \in build.Ops \cap AmoOps
    BY <1>3, <2>1, <2>2, Zenon
  <2>4. ReadOps \subseteq build.AmoNotAfter
    BY <2>3, Zenon DEF Supported
  <2>5. QED
    BY <1>3, <2>1, <2>2, <2>4, Zenon
<1>6. build.BootNop /\ fetch(p).pc = 0 => i = Nop
  BY Zenon DEF Fetchable
<1>7. ~build.Predictor => ~fetch(p).pt
  <2>1. ~build.Predictor => p.pt = FALSE
    BY DEF Prediction
  <2>2. QED
    BY <2>1, Zenon DEF fetch, Kinds
<1>8. QED
  BY <1>3, <1>4, <1>5, <1>6, <1>7, Zenon

LEMMA KindsStep ==
  ASSUME Whole, NEW fm \in BOOLEAN, NEW dm \in BOOLEAN, NEW fin \in BOOLEAN,
         NEW it \in BOOLEAN, NEW bt \in BOOLEAN, Cycle(fm, dm, fin, it, bt)
  PROVE  Kinds'
<1> USE DEF Whole
<1> DEFINE K1 == /\ reg1'.inst.op \in build.Ops \cup {"li"}
                 /\ ~reg1'.valid => reg1'.inst = Nop /\ ~reg1'.pt
                 /\ ~build.Predictor => ~reg1'.pt
                 /\ build.BootNop => (reg1'.pc = 0 => reg1'.inst = Nop)
           K2 == /\ reg2'.inst.op \in build.Ops \cup {"li"}
                 /\ ~reg2'.valid => reg2'.inst = Nop /\ ~reg2'.pt
                 /\ ~build.Predictor => ~reg2'.pt
                 /\ build.BootNop => (reg2'.pc = 0 => reg2'.inst = Nop)
                 /\ reg2'.inst.rs1 = 0 => reg2'.a = 0
                 /\ reg2'.inst.rs2 = 0 => reg2'.b = 0
<1>1. build' = build /\ Reg3Edge(dm, bt)
  BY CycleEdges, Zenon
<1>2. Nop.op = "li"
  BY Zenon DEF Nop
<1>3. /\ NoReg1.inst = Nop /\ ~NoReg1.pt /\ NoReg2.inst = Nop /\ ~NoReg2.pt
      /\ NoReg2.a = 0 /\ NoReg2.b = 0
  BY Zenon DEF NoReg1, NoReg2
<1>4. reg1' = NoReg1 => K1
  BY <1>2, <1>3, Zenon
<1>5. reg1' = reg1 => K1
  BY Zenon DEF Kinds
<1>6. reg2' = NoReg2 => K2
  BY <1>2, <1>3, Zenon
<1>7. reg2' = reg2 => K2
  BY Zenon DEF Kinds, ex
<1>8. K1 /\ K2
  <2>1. CASE reg2' = reg2 /\ reg1' \in {reg1, NoReg1}
    BY <1>4, <1>5, <1>7, <2>1, Zenon
  <2>2. CASE reg2' = NoReg2 /\ reg1' = NoReg1
    BY <1>4, <1>6, <2>2, Zenon
  <2>3. CASE /\ stall(bt) \/ fetch_miss(fm, bt)
             /\ reg2' = [NoReg2 EXCEPT !.pc = reg1.pc, !.pt = reg1.pt,
                                       !.ptgt = reg1.ptgt]
             /\ reg1' = reg1
    <3>1. ~build.Predictor
      <4>1. SUFFICES ASSUME build.Predictor PROVE FALSE
        BY Zenon
      <4>2. ~fetch_miss(fm, bt)
        BY <4>1, Zenon DEF Supported, fetch_miss
      <4>3. ex.op \notin MemReads \cup AmoOps
        <5>1. ex.op \notin ReadOps
          BY <4>1 DEF Supported, Kinds, ReadOps, AmoOps
        <5>2. QED
          BY <5>1, OpsIn DEF ReadOps, MemReads
      <4>4. ~stall(bt)
        BY <4>1, <4>3, Zenon DEF Supported, stall, Hazard
      <4>5. QED
        BY <2>3, <4>2, <4>4, Zenon
    <3>2. ~reg1.pt
      BY <3>1, Zenon DEF Kinds
    <3>3. /\ reg2'.inst = Nop /\ reg2'.pt = reg1.pt /\ reg2'.a = 0 /\ reg2'.b = 0
      BY <2>3, Zenon DEF NoReg2
    <3>4. QED
      BY <1>2, <1>5, <2>3, <3>2, <3>3, Zenon
  <2>4. CASE /\ reg2' = [valid |-> reg1.valid, pc |-> reg1.pc, inst |-> reg1.inst,
                         pt |-> reg1.pt, ptgt |-> reg1.ptgt,
                         a |-> RegisterFile(reg1.inst.rs1),
                         b |-> RegisterFile(reg1.inst.rs2)]
             /\ \/ reg1' = NoReg1
                \/ \E p \in Prediction : \E i \in Fetchable(fetch(p).pc) :
                     reg1' = [valid |-> TRUE, pc |-> fetch(p).pc, inst |-> i,
                              pt |-> fetch(p).pt, ptgt |-> fetch(p).ptgt]
    <3>1. /\ reg2'.valid = reg1.valid /\ reg2'.pc = reg1.pc
          /\ reg2'.inst = reg1.inst /\ reg2'.pt = reg1.pt
          /\ reg2'.a = RegisterFile(reg1.inst.rs1)
          /\ reg2'.b = RegisterFile(reg1.inst.rs2)
      BY <2>4, Zenon
    <3>2. RegisterFile(0) = 0
      BY Zenon DEF RegisterFile
    <3>3. K2
      BY <3>1, <3>2, Zenon DEF Kinds
    <3>4. ASSUME NEW p \in Prediction, NEW i \in Fetchable(fetch(p).pc),
                 reg1' = [valid |-> TRUE, pc |-> fetch(p).pc, inst |-> i,
                          pt |-> fetch(p).pt, ptgt |-> fetch(p).ptgt]
          PROVE  K1
      <4>1. /\ reg1'.valid /\ reg1'.pc = fetch(p).pc /\ reg1'.inst = i
            /\ reg1'.pt = fetch(p).pt
        BY <3>4, Zenon
      <4>2. QED
        BY <4>1, Fetched, Zenon
    <3>5. QED
      BY <1>4, <2>4, <3>3, <3>4, Zenon
  <2>5. QED
    BY <2>1, <2>2, <2>3, <2>4, Reg12Moves, ZenonT(30)
<1>9. reg3'.op \in build.Ops \cup {"reg"}
  <2>1. CASE reg3' = reg3
    BY <2>1, Zenon DEF Kinds
  <2>2. CASE reg3' = NoReg3
    BY <2>2, Zenon DEF NoReg3
  <2>3. CASE reg3'.op = IF ex.op \in MemReads \cup MemWrites \cup AmoOps
                        THEN ex.op ELSE "reg"
    BY <2>3 DEF Kinds, MemReads, MemWrites, AmoOps
  <2>4. QED
    BY <1>1, <2>1, <2>2, <2>3, Reg3Moves, Zenon
<1>10. ~build.Predictor => ~reg1a'.pt
  <2>1. SUFFICES ASSUME ~build.Predictor PROVE ~reg1a'.pt
    BY Zenon
  <2>2. PICK p \in Prediction : Reg1aEdge(fm, dm, bt, p)
    BY CycleEdges DEF FetchEdge
  <2>3. p.pt = FALSE
    BY <2>1 DEF Prediction
  <2>4. QED
    BY <2>1, <2>2, <2>3, Zenon DEF Reg1aEdge, Kinds
<1>11. QED
  BY <1>1, <1>8, <1>9, <1>10, Zenon DEF Kinds, ex

LEMMA ApartStep ==
  ASSUME Whole, NEW fm \in BOOLEAN, NEW dm \in BOOLEAN, NEW fin \in BOOLEAN,
         NEW it \in BOOLEAN, NEW bt \in BOOLEAN, Cycle(fm, dm, fin, it, bt)
  PROVE  Apart'
<1> USE DEF Whole
<1>1. Reg3Edge(dm, bt)
  BY CycleEdges, Zenon
<1>2. /\ NoReg1.inst.op \notin AmoOps /\ NoReg2.inst.op \notin ReadOps
      /\ NoReg3.op \notin ReadOps /\ NoReg2.inst.op \notin AmoOps
      /\ NoReg2.inst = Nop /\ Nop.op \notin ReadOps /\ Nop.op \notin AmoOps
  BY DEF NoReg1, NoReg2, NoReg3, Nop, AmoOps, ReadOps
<1>3. CASE reg2_hold(dm, bt) /\ reg2' = reg2 /\ reg1' \in {reg1, NoReg1}
  <2>1. reg3' \in {reg3, NoReg3}
    BY <1>1, <1>3, Reg3Moves, Zenon
  <2>2. QED
    BY <1>2, <1>3, <2>1, AccessStep, Zenon DEF Apart, ex
<1>4. CASE ~reg2_hold(dm, bt) /\ reg2'.inst = Nop /\ reg1' \in {reg1, NoReg1}
  BY <1>2, <1>4, AccessStep, Zenon DEF Apart, ex
<1>5. CASE /\ ~reg2_hold(dm, bt) /\ reg2'.inst = reg1.inst
           /\ reg1'.inst.op \in AmoOps => reg1.inst.op \notin ReadOps
  <2>1. ~mem_hold
    BY <1>5, Zenon DEF reg2_hold
  <2>2. reg3'.op \in {"reg", ex.op}
    BY <1>1, <2>1, Reg3Moves DEF NoReg3
  <2>3. "reg" \notin ReadOps
    BY DEF ReadOps, AmoOps
  <2>4. QED
    BY <1>5, <2>2, <2>3, AccessStep, Zenon DEF Apart, ex
<1>6. \/ reg2_hold(dm, bt) /\ reg2' = reg2 /\ reg1' \in {reg1, NoReg1}
      \/ ~reg2_hold(dm, bt) /\ reg2'.inst = Nop /\ reg1' \in {reg1, NoReg1}
      \/ /\ ~reg2_hold(dm, bt) /\ reg2'.inst = reg1.inst
         /\ reg1'.inst.op \in AmoOps => reg1.inst.op \notin ReadOps
  <2>1. [NoReg2 EXCEPT !.pc = reg1.pc, !.pt = reg1.pt, !.ptgt = reg1.ptgt].inst = Nop
    BY Zenon DEF NoReg2
  <2>2. ASSUME NEW p \in Prediction, NEW i \in Fetchable(fetch(p).pc),
               reg1' = [valid |-> TRUE, pc |-> fetch(p).pc, inst |-> i,
                        pt |-> fetch(p).pt, ptgt |-> fetch(p).ptgt]
        PROVE  reg1'.inst.op \in AmoOps => reg1.inst.op \notin ReadOps
    <3>1. reg1'.inst = i
      BY <2>2, Zenon
    <3>2. QED
      BY <3>1, Fetched, Zenon
  <2>3. reg1' = NoReg1 => reg1'.inst.op \notin AmoOps
    BY <1>2, Zenon
  <2>4. ASSUME reg2' = [valid |-> reg1.valid, pc |-> reg1.pc, inst |-> reg1.inst,
                        pt |-> reg1.pt, ptgt |-> reg1.ptgt,
                        a |-> RegisterFile(reg1.inst.rs1),
                        b |-> RegisterFile(reg1.inst.rs2)]
        PROVE  reg2'.inst = reg1.inst
    BY <2>4, Zenon
  <2>5. CASE reg2_hold(dm, bt)
    BY <2>5, Reg12Moves, Zenon
  <2>6. CASE ~reg2_hold(dm, bt) /\ bt
    BY <1>2, <2>6, Reg12Moves, Zenon
  <2>7. CASE ~reg2_hold(dm, bt) /\ ~bt /\ pc_stall(fm, dm, bt)
    <3>1. /\ reg1' = reg1
          /\ reg2' = [NoReg2 EXCEPT !.pc = reg1.pc, !.pt = reg1.pt,
                                    !.ptgt = reg1.ptgt]
      BY <2>7, Reg12Moves, Zenon
    <3>2. QED
      BY <2>1, <2>7, <3>1, Zenon
  <2>8. CASE ~reg2_hold(dm, bt) /\ ~bt /\ ~pc_stall(fm, dm, bt)
    <3>1. /\ reg2' = [valid |-> reg1.valid, pc |-> reg1.pc, inst |-> reg1.inst,
                      pt |-> reg1.pt, ptgt |-> reg1.ptgt,
                      a |-> RegisterFile(reg1.inst.rs1),
                      b |-> RegisterFile(reg1.inst.rs2)]
          /\ \/ reg1' = NoReg1
             \/ \E p \in Prediction : \E i \in Fetchable(fetch(p).pc) :
                  reg1' = [valid |-> TRUE, pc |-> fetch(p).pc, inst |-> i,
                           pt |-> fetch(p).pt, ptgt |-> fetch(p).ptgt]
      BY <2>8, Reg12Moves, Zenon
    <3>2. reg2'.inst = reg1.inst
      BY <2>4, <3>1, Zenon
    <3>3. reg1'.inst.op \in AmoOps => reg1.inst.op \notin ReadOps
      BY <2>2, <2>3, <3>1, Zenon
    <3>4. QED
      BY <2>8, <3>2, <3>3, Zenon
  <2>9. QED
    BY <2>5, <2>6, <2>7, <2>8, Zenon
<1>7. QED
  BY <1>3, <1>4, <1>5, <1>6, Zenon

LEMMA SequenceStep ==
  ASSUME Whole, NEW fm \in BOOLEAN, NEW dm \in BOOLEAN, NEW fin \in BOOLEAN,
         NEW it \in BOOLEAN, NEW bt \in BOOLEAN, Cycle(fm, dm, fin, it, bt)
  PROVE  Sequence'
<1> USE DEF Whole
<1>1. /\ build' = build /\ bt = (other_redirect_taken(dm) \/ it)
      /\ Reg3Edge(dm, bt) /\ SquashExtendEdge(bt)
  BY CycleEdges, Zenon
<1>2. ~NoReg1.valid /\ ~NoReg2.valid
  BY Zenon DEF NoReg1, NoReg2
<1>3. CASE reg2_hold(dm, bt) /\ bt
  <2>1. ~it /\ reg2' = reg2
    BY <1>3, BackHeld, Zenon
  <2>2. Redirecting
    BY <1>1, <1>3, <2>1, Redirects, Zenon
  <2>3. Redirecting' /\ reg2.valid
    BY <1>3, <2>2, ValuesHeld, Quiet, Zenon
  <2>4. reg1' = NoReg1
    <3>1. PICK p \in Prediction : Reg1Edge(fm, dm, bt, p)
      BY CycleEdges DEF FetchEdge
    <3>2. QED
      BY <1>3, <3>1, Zenon DEF Reg1Edge
  <2>5. redirect_squash_extend_r' <=> build.SplitFetch
    BY <1>1, <1>3, Zenon DEF SquashExtendEdge
  <2>6. QED
    BY <1>1, <1>2, <2>1, <2>3, <2>4, <2>5, Zenon DEF Sequence
<1>4. CASE ~reg2_hold(dm, bt) /\ bt
  <2>1. /\ reg1' = NoReg1 /\ reg2' = NoReg2
        /\ redirect_squash_extend_r' = build.SplitFetch
    BY <1>4, FrontRedirected, Zenon
  <2>2. ASSUME build.SplitFetch PROVE reg3'.op \notin ReadOps
    <3>1. ~it
      BY <2>2, Zenon DEF Cycle, Supported
    <3>2. ex.op \notin ReadOps
      BY <1>4, <3>1, RedirectFree, Zenon
    <3>3. reg3'.op \in {"reg", ex.op}
      <4>1. ~mem_hold
        BY <1>4, Zenon DEF reg2_hold
      <4>2. NoReg3.op = "reg"
        BY Zenon DEF NoReg3
      <4>3. QED
        BY <1>1, <4>1, <4>2, Reg3Moves, Zenon
    <3>4. "reg" \notin ReadOps
      BY DEF ReadOps, AmoOps
    <3>5. QED
      BY <3>2, <3>3, <3>4, Zenon
  <2>3. QED
    BY <1>1, <1>2, <2>1, <2>2, Zenon DEF Sequence
<1>5. CASE ~bt /\ pc_stall(fm, dm, bt)
  <2>1. /\ ~redirect_squash_extend_r /\ ~redirect_squash_extend_r'
        /\ pc' = pc /\ reg1' = reg1 /\ reg1a' = reg1a
    BY <1>5, FrontWaits, Zenon
  <2>2. /\ reg1'.valid => Follows(reg1, IF build.SplitFetch THEN reg1a.pc ELSE pc)'
        /\ build'.SplitFetch => Follows(reg1a, pc)'
    BY <1>1, <2>1, Zenon DEF Sequence, Follows, Predicted
  <2>3. CASE reg2' = reg2 /\ reg2_hold(dm, bt)
    <3>1. Redirecting' <=> Redirecting
      BY <2>3, ValuesHeld, Zenon
    <3>2. reg2'.valid /\ reg1'.valid => Follows(reg2, reg1.pc)'
      BY <1>1, <2>1, <2>3, Zenon DEF Sequence, Follows, Predicted
    <3>3. reg2'.valid /\ ~reg1'.valid => Redirecting'
      BY <2>1, <2>3, <3>1, Zenon DEF Sequence
    <3>4. QED
      BY <2>1, <2>2, <3>2, <3>3, Zenon DEF Sequence
  <2>4. CASE ~reg2'.valid
    BY <2>1, <2>2, <2>4, Zenon DEF Sequence
  <2>5. (reg2_hold(dm, bt) /\ reg2' = reg2) \/ ~reg2'.valid
    <3>1. ~[NoReg2 EXCEPT !.pc = reg1.pc, !.pt = reg1.pt,
                          !.ptgt = reg1.ptgt].valid
      BY Zenon DEF NoReg2
    <3>2. QED
      BY <1>5, <3>1, Reg12Moves, Zenon
  <2>6. QED
    BY <2>3, <2>4, <2>5, Zenon
<1>6. CASE ~bt /\ ~pc_stall(fm, dm, bt)
  <2>1. PICK p \in Prediction :
          /\ ~redirect_squash_extend_r'
          /\ reg2'.valid = reg1.valid /\ reg2'.pc = reg1.pc
          /\ reg2'.pt = reg1.pt /\ reg2'.ptgt = reg1.ptgt
          /\ redirect_squash_extend_r => reg1' = NoReg1
          /\ pc' = IF p.pt THEN p.ptgt ELSE NextPC(pc)
          /\ reg1a' = IF build.SplitFetch
                      THEN [pc |-> pc, pt |-> p.pt, ptgt |-> p.ptgt]
                      ELSE reg1a
          /\ ~redirect_squash_extend_r =>
               \E i \in Fetchable(fetch(p).pc) :
                 reg1' = [valid |-> TRUE, pc |-> fetch(p).pc, inst |-> i,
                          pt |-> fetch(p).pt, ptgt |-> fetch(p).ptgt]
    BY <1>6, FrontMoves, Zenon
  <2>2. ASSUME build.SplitFetch
        PROVE  /\ reg1a'.pc = pc /\ reg1a'.pt = p.pt /\ reg1a'.ptgt = p.ptgt
               /\ Follows(reg1a, pc)'
    <3>1. reg1a'.pc = pc /\ reg1a'.pt = p.pt /\ reg1a'.ptgt = p.ptgt
      BY <2>1, <2>2, Zenon
    <3>2. QED
      BY <2>1, <3>1, Zenon DEF Follows, Predicted
  <2>3. CASE redirect_squash_extend_r
    <3>1. ~reg1.valid
      BY <2>3, Zenon DEF Sequence
    <3>2. ~reg1'.valid /\ ~reg2'.valid
      BY <1>2, <2>1, <2>3, <3>1, Zenon
    <3>3. QED
      BY <1>1, <2>1, <2>2, <3>2, Zenon DEF Sequence
  <2>4. CASE ~redirect_squash_extend_r
    <3>1. /\ reg1'.valid /\ reg1'.pc = fetch(p).pc /\ reg1'.pt = fetch(p).pt
          /\ reg1'.ptgt = fetch(p).ptgt
      <4>1. PICK i \in Fetchable(fetch(p).pc) :
              reg1' = [valid |-> TRUE, pc |-> fetch(p).pc, inst |-> i,
                       pt |-> fetch(p).pt, ptgt |-> fetch(p).ptgt]
        BY <2>1, <2>4, Zenon
      <4>2. QED
        BY <4>1, Zenon
    <3>2. CASE build.SplitFetch
      <4>1. fetch(p) = reg1a
        BY <3>2, Zenon DEF fetch
      <4>2. Follows(reg1, reg1a.pc)'
        BY <1>1, <2>2, <2>4, <3>1, <3>2, <4>1, Zenon
           DEF Sequence, Follows, Predicted
      <4>3. reg2'.valid => Follows(reg2, reg1.pc)'
        BY <1>1, <2>1, <3>1, <3>2, <4>1, Zenon DEF Sequence, Follows, Predicted
      <4>4. QED
        BY <1>1, <2>1, <2>2, <3>1, <3>2, <4>2, <4>3, Zenon DEF Sequence
    <3>3. CASE ~build.SplitFetch
      <4>1. /\ fetch(p).pc = pc /\ fetch(p).pt = p.pt /\ fetch(p).ptgt = p.ptgt
        BY <3>3, Zenon DEF fetch
      <4>2. Follows(reg1, pc)'
        BY <2>1, <3>1, <4>1, Zenon DEF Follows, Predicted
      <4>3. reg2'.valid => Follows(reg2, reg1.pc)'
        BY <1>1, <2>1, <3>1, <3>3, <4>1, Zenon DEF Sequence, Follows, Predicted
      <4>4. QED
        BY <1>1, <2>1, <3>1, <3>3, <4>2, <4>3, Zenon DEF Sequence
    <3>4. QED
      BY <3>2, <3>3, Zenon
  <2>5. QED
    BY <2>3, <2>4, Zenon
<1>7. QED
  BY <1>3, <1>4, <1>5, <1>6, Zenon

\* A step keeps the invariant.
LEMMA WholeStep == ASSUME Whole, [Next]_vars PROVE Whole'
<1> USE DEF Whole
<1>1. CASE UNCHANGED vars
  <2>1. /\ build' = build /\ pc' = pc /\ reg1a' = reg1a
        /\ redirect_squash_extend_r' = redirect_squash_extend_r
        /\ reg1' = reg1 /\ reg2' = reg2 /\ reg3' = reg3 /\ reg4' = reg4
        /\ regs' = regs /\ mem' = mem /\ readData' = readData
        /\ mem_read_pending_r' = mem_read_pending_r
        /\ mem_stall_done_r' = mem_stall_done_r
        /\ amo' = amo /\ div' = div /\ dtlb' = dtlb /\ csr' = csr
    BY <1>1, Zenon DEF vars
  <2>2. TypeOK' /\ Supported(build)'
    BY <2>1, NextTyped, Zenon DEF Supported
  <2>3. LoadUseSafe'
    BY <2>1, Zenon DEF LoadUseSafe, Reads, ex
  <2>4. OperandsTracked'
    BY <2>1, Zenon
       DEF OperandsTracked, Waiting, Tracks, ex, mem_hold, mem_stall, amo_stall,
           amo_active, lsu_ack, eff_memWrite
  <2>5. Kinds'
    BY <2>1, Zenon DEF Kinds, ex
  <2>6. Value(ex.rs1)' = Value(ex.rs1) /\ Value(ex.rs2)' = Value(ex.rs2)
    BY <2>1, Zenon DEF Value, RegBar, LoadedValue, writeData_regwb, ex
  <2>7. Redirecting' <=> Redirecting
    <3>1. Jumps' = Jumps /\ JumpTarget' = JumpTarget
      BY <2>1, <2>6, Zenon DEF Jumps, JumpTarget, ex
    <3>2. QED
      BY <2>1, <3>1, Zenon DEF Redirecting, ex
  <2>8. Sequence'
    BY <2>1, <2>7, Zenon DEF Sequence, Follows, Predicted
  <2>9. Apart' /\ Access'
    BY <2>1, Zenon DEF Apart, Access, amo_active, ex
  <2>10. Taken'
    BY <2>1, <2>6, Zenon DEF Taken, isDivRem, ex
  <2>11. QED
    BY <2>2, <2>3, <2>4, <2>5, <2>8, <2>9, <2>10, Zenon
<1>2. CASE Next
  <2>1. PICK fm, dm, fin, it, bt \in BOOLEAN : Cycle(fm, dm, fin, it, bt)
    BY <1>2, StepIsCycle, Zenon
  <2>2. TypeOK' /\ LoadUseSafe' /\ OperandsTracked'
    BY <1>2, NextTyped, LoadUseStep, TrackedStep, Zenon
  <2>3. build' = build
    BY <2>1, CycleEdges, Zenon
  <2>4. Supported(build)'
    BY <2>3, Zenon DEF Supported
  <2>5. Apart'
    BY ONLY <2>1, Whole, ApartStep, Zenon
  <2>6. Kinds' /\ Sequence' /\ Access' /\ Taken'
    BY <2>1, KindsStep, SequenceStep, AccessStep, TakenStep, Zenon
  <2>7. QED
    BY <2>2, <2>4, <2>5, <2>6, Zenon
<1>3. QED
  BY <1>1, <1>2, Zenon

\* A nop changes nothing but the program counter and minstret.
LEMMA NopIdle ==
  ASSUME ex.op = "li", ex.rd = 0
  PROVE  /\ RegsAfter = Regs
         /\ MemAfter = MemBar /\ ScratchAfter = csr.scratch
         /\ MieAfter = csr.mie /\ MpieAfter = csr.mpie /\ MepcAfter = csr.mepc
<1>1. ASSUME NEW r \in RegSet \ {0} PROVE RegAfter(r) = RegBar(r)
  BY DEF RegAfter
<1>2. QED
  BY <1>1 DEF RegsAfter, Regs, MemAfter, ScratchAfter, MieAfter, MpieAfter,
              MepcAfter

(***************************************************************************)
(* One cycle is one step of the architecture.                              *)
(***************************************************************************)
LEMMA CycleRefines ==
  ASSUME Whole, NEW fm \in BOOLEAN, NEW dm \in BOOLEAN, NEW fin \in BOOLEAN,
         NEW it \in BOOLEAN, NEW bt \in BOOLEAN, Cycle(fm, dm, fin, it, bt)
  PROVE  \/ ArchBar' = ArchBar
         \/ reg2.valid /\ ArchBar' = Exec(ex, ArchBar)
         \/ reg2.valid /\ Exec(ex, ArchBar).mie /\ ArchBar' = Trap(Exec(ex, ArchBar))
         \/ ArchBar.mie /\ ArchBar' = Trap(ArchBar)
<1> USE DEF Whole
<1>1. ArchBar' = State(PcBar', Regs', MemBar', csr'.scratch, csr'.mie, csr'.mpie,
                       csr'.mepc, Count')
  BY Zenon DEF ArchBar, State, Regs, Count
<1>2. CASE reg2_hold(dm, bt)
  <2>1. PcBar' = PcBar
    BY <1>2, PcHeld, Zenon
  <2>2. Regs' = Regs
    <3>1. \A r \in RegSet \ {0} : RegBar(r)' = RegBar(r)
      BY <1>2, BackHeld, Zenon
    <3>2. QED
      BY <3>1, Zenon DEF Regs
  <2>3. QED
    BY <1>1, <1>2, <2>1, <2>2, ArchIs, BackHeld, Zenon
<1>3. CASE ~reg2_hold(dm, bt)
  <2>1. Regs' = RegsAfter
    <3>1. \A r \in RegSet \ {0} : RegBar(r)' = RegAfter(r)
      BY <1>3, BackMoves, Zenon
    <3>2. QED
      BY <3>1, Zenon DEF Regs, RegsAfter
  <2>2. /\ MemBar' = MemAfter /\ csr'.scratch = ScratchAfter
        /\ Count' = IF reg2.valid THEN CountAfter ELSE Count
    BY <1>3, BackMoves, Zenon
  <2>3. it => csr.mie /\ build.Interrupts /\ ~other_redirect_taken(dm)
    BY Zenon DEF Cycle
  <2>4. CASE reg2.valid
    <3>1. Exec(ex, ArchBar) = After
      BY <2>4, ExecIs, OpsIn, Zenon
    <3>2. CASE it
      <4>1. ~Redirecting
        BY <2>3, <3>2, Redirects, Zenon
      <4>2. ex.op \notin {"ecall", "mret"}
        BY <4>1, Zenon DEF Redirecting
      <4>3. ex.op # "csrmie"
        BY <2>3, <3>2, Zenon DEF Supported, Kinds
      <4>4. /\ MieAfter = csr.mie /\ MpieAfter = csr.mpie /\ MepcAfter = csr.mepc
        BY <4>2, <4>3, Zenon DEF MieAfter, MpieAfter, MepcAfter
      <4>5. /\ csr'.mie = FALSE /\ csr'.mpie = csr.mie /\ csr'.mepc = PcAfter
            /\ PcBar' = Handler
        BY <1>3, <2>4, <3>2, MstatusMoves, PcMoves, Zenon
      <4>6. ArchBar' = State(Handler, RegsAfter, MemAfter, ScratchAfter, FALSE,
                             csr.mie, PcAfter, CountAfter)
        BY <1>1, <2>1, <2>2, <2>4, <4>5, Zenon
      <4>7. /\ IsState(After) /\ After.pc = PcAfter /\ After.regs = RegsAfter
            /\ After.mem = MemAfter /\ After.scratch = ScratchAfter
            /\ After.mie = csr.mie /\ After.instret = CountAfter
        BY <4>4, Zenon DEF After, IsState, State
      <4>8. Trap(After) = State(Handler, RegsAfter, MemAfter, ScratchAfter, FALSE,
                                csr.mie, PcAfter, CountAfter)
        BY <4>7, TrapIs, Zenon
      <4>9. QED
        BY <2>3, <2>4, <3>1, <3>2, <4>6, <4>7, <4>8, Zenon
    <3>3. CASE ~it /\ PcBar' = PcAfter
      <4>1. /\ csr'.mie = MieAfter /\ csr'.mpie = MpieAfter
            /\ csr'.mepc = MepcAfter
        BY <1>3, <3>3, MstatusMoves, Zenon
      <4>2. ArchBar' = After
        BY <1>1, <2>1, <2>2, <2>4, <3>3, <4>1, Zenon DEF After
      <4>3. QED
        BY <2>4, <3>1, <4>2, Zenon
    <3>4. CASE ~it /\ ex = Nop /\ PcBar' = PcBar /\ INSTRETMOD = 1
      <4>1. ex.op = "li" /\ ex.rd = 0
        BY <3>4, Zenon DEF Nop
      <4>2. Count' = Count
        <5>1. csr'.instret = InstretEdge
          <6>1. CsrEdge(dm, it, bt)
            BY CycleEdges, Zenon
          <6>2. QED
            BY <6>1, CsrMoves, Zenon DEF Whole
        <5>2. Count \in 0 .. 0
          BY <3>4, <5>1, CountMoves
        <5>3. (Count + 1) % 1 = 0
          BY <5>2
        <5>4. QED
          BY <2>2, <2>4, <3>4, <4>1, <5>2, <5>3 DEF CountAfter
      <4>3. QED
        BY <1>1, <1>3, <2>1, <2>2, <3>4, <4>1, <4>2, NopIdle, MstatusMoves,
           ArchIs, Zenon
    <3>5. QED
      BY <1>3, <2>4, <3>2, <3>3, <3>4, PcMoves, Zenon
  <2>5. CASE ~reg2.valid
    <3>1. ex.op = "li" /\ ex.rd = 0
      BY <2>5, Quiet, Zenon
    <3>2. CASE it
      <4>1. /\ csr'.mie = FALSE /\ csr'.mpie = csr.mie /\ csr'.mepc = PcBar
            /\ PcBar' = Handler
        BY <1>3, <2>5, <3>2, MstatusMoves, PcMoves, Zenon
      <4>2. ArchBar' = State(Handler, Regs, MemBar, csr.scratch, FALSE, csr.mie,
                             PcBar, Count)
        BY <1>1, <2>1, <2>2, <2>5, <3>1, <4>1, NopIdle, Zenon
      <4>3. /\ IsState(ArchBar) /\ ArchBar.pc = PcBar /\ ArchBar.regs = Regs
            /\ ArchBar.mem = MemBar /\ ArchBar.scratch = csr.scratch
            /\ ArchBar.mie = csr.mie /\ ArchBar.instret = Count
        BY ArchIs, ArchState, Zenon DEF State
      <4>4. Trap(ArchBar) = State(Handler, Regs, MemBar, csr.scratch, FALSE,
                                  csr.mie, PcBar, Count)
        BY <4>3, TrapIs, Zenon
      <4>5. QED
        BY <2>3, <3>2, <4>2, <4>3, <4>4, Zenon
    <3>3. CASE ~it
      <4>1. PcBar' = PcBar
        BY <1>3, <2>5, <3>3, PcMoves, Zenon
      <4>2. QED
        BY <1>1, <1>3, <2>1, <2>2, <2>5, <3>1, <3>3, <4>1, NopIdle, MstatusMoves,
           ArchIs, Zenon
    <3>4. QED
      BY <3>2, <3>3, Zenon
  <2>6. QED
    BY <2>4, <2>5, Zenon
<1>4. QED
  BY <1>2, <1>3, Zenon

\* A step of the pipeline is a step of the architecture, or none.
LEMMA StepRefines ==
  ASSUME Whole, [Next]_vars
  PROVE  [ \/ reg2.valid /\ (A!Execute(ex) \/ A!ExecuteInterrupted(ex))
           \/ A!Interrupt ]_ArchBar
<1>1. CASE UNCHANGED vars
  BY <1>1
     DEF vars, ArchBar, PcBar, RegBar, MemBar, LoadedValue, writeData_regwb
<1>2. CASE Next
  <2>1. PICK fm, dm, fin, it, bt \in BOOLEAN : Cycle(fm, dm, fin, it, bt)
    BY <1>2, StepIsCycle, Zenon
  <2>2. \/ ArchBar' = ArchBar
        \/ reg2.valid /\ ArchBar' = Exec(ex, ArchBar)
        \/ reg2.valid /\ Exec(ex, ArchBar).mie /\ ArchBar' = Trap(Exec(ex, ArchBar))
        \/ ArchBar.mie /\ ArchBar' = Trap(ArchBar)
    BY <2>1, CycleRefines, Zenon
  <2>3. QED
    BY <2>2, SameIsa, Zenon
       DEF A!Execute, A!ExecuteInterrupted, A!Interrupt, A!InterruptIn
<1>3. QED
  BY <1>1, <1>2, Zenon

\* The reset state satisfies the invariant and is the architecture's.
LEMMA InitWhole ==
  ASSUME Init, Supported(build) PROVE Whole
<1>1. TypeOK
  BY InitTyped, Zenon
<1>2. /\ ~reg1.valid /\ ~reg2.valid /\ reg1.inst = Nop /\ ex = Nop
      /\ ~reg1.pt /\ ~reg2.pt /\ ~reg1a.pt /\ reg1a.pc = 0 /\ pc = 0
      /\ reg2.a = 0 /\ reg2.b = 0 /\ reg3.op = "reg" /\ ~reg4.isAmo
      /\ ~redirect_squash_extend_r /\ ~mem_stall_done_r
      /\ ~div.busy /\ ~div.done /\ ~dtlb.miss
  BY Zenon DEF Init, NoReg1, NoReg2, NoReg3, NoReg4, ex
<1>3. Nop.op = "li" /\ Nop.rs1 = 0 /\ Nop.rs2 = 0
  BY Zenon DEF Nop
<1>4. LoadUseSafe
  BY <1>2, Zenon DEF LoadUseSafe
<1>5. OperandsTracked
  BY <1>2, <1>3, Zenon DEF OperandsTracked, Tracks
<1>6. Kinds
  BY <1>2, <1>3, Zenon DEF Kinds
<1>7. Sequence
  BY <1>2, Zenon DEF Sequence, Follows
<1>8. Apart
  BY <1>2, <1>3 DEF Apart, AmoOps
<1>9. Access
  BY <1>2 DEF Access, amo_active, AmoOps
<1>10. Taken
  BY <1>2, Zenon DEF Taken
<1>11. QED
  BY <1>1, <1>4, <1>5, <1>6, <1>7, <1>8, <1>9, <1>10, Zenon DEF Whole

LEMMA InitRefines == ASSUME Init PROVE A!Init
<1>1. TypeOK
  BY InitTyped, Zenon
<1>2. reg3.rd = 0 /\ reg4.rd = 0 /\ reg3.op = "reg" /\ ~reg3.valid
  BY Zenon DEF Init, NoReg3, NoReg4
<1>3. Regs = ResetRegs
  <2>1. ASSUME NEW r \in RegSet \ {0} PROVE RegBar(r) = regs[r]
    BY <1>2 DEF RegBar
  <2>2. regs = ResetRegs
    BY Zenon DEF Init
  <2>3. QED
    BY <2>1, <2>2, Zenon DEF Regs, ResetRegs
<1>4. MemBar = mem
  BY <1>2 DEF MemBar
<1>5. PcBar = 0
  <2>1. ~reg2.valid /\ ~reg1.valid /\ reg1a.pc = 0 /\ pc = 0
    BY Zenon DEF Init, NoReg1, NoReg2
  <2>2. QED
    BY <2>1, Zenon DEF PcBar
<1>6. Count = 0
  <2>1. csr.instret = 0
    BY Zenon DEF Init
  <2>2. QED
    BY <1>2, <2>1, IsaAssumption DEF Count
<1>7. /\ csr.scratch = 0 /\ csr.mie = FALSE /\ csr.mpie = FALSE /\ csr.mepc = 0
  BY Zenon DEF Init
<1>8. ArchBar = [pc |-> 0, regs |-> ResetRegs, mem |-> mem, scratch |-> 0,
                 mie |-> FALSE, mpie |-> FALSE, mepc |-> 0, instret |-> 0]
  BY <1>3, <1>4, <1>5, <1>6, <1>7, ArchIs, Zenon DEF State
<1>9. mem \in [Val -> Val]
  BY <1>1, Zenon DEF TypeOK
<1>10. A!ResetRegs = ResetRegs /\ A!Val = Val
  BY Zenon DEF A!ResetRegs, ResetRegs, A!Val, Val, A!RegSet, RegSet
<1>11. QED
  BY <1>8, <1>9, <1>10, Zenon DEF A!Init

\* Forwarding, stalls, squashes, prediction, traps and interrupts are
\* invisible to the program: what riscvpipeline.v does in a cycle is nothing,
\* the instruction in EX, or an interrupt between two instructions.
THEOREM Refines == Spec /\ Supported(build) => RefinesIsa
<1>1. Init /\ Supported(build) => Whole
  BY InitWhole, Zenon
<1>2. Whole /\ [Next]_vars => Whole'
  BY WholeStep, Zenon
<1>3. Whole /\ [Next]_vars =>
        [ \/ reg2.valid /\ (A!Execute(ex) \/ A!ExecuteInterrupted(ex))
          \/ A!Interrupt ]_ArchBar
  BY StepRefines, Zenon
<1>4. Init => A!Init
  BY InitRefines, Zenon
<1>5. QED
  BY <1>1, <1>2, <1>3, <1>4, PTL DEF Spec, RefinesIsa

=============================================================================
