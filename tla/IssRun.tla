-------------------------------- MODULE IssRun --------------------------------
(***************************************************************************)
(* The instruction-set simulator running a program (sim/tools/iss.py:      *)
(* ISS.step, ISS.run): where it goes, what it accesses and when it stops.  *)
(*                                                                         *)
(* The state m knows the values the properties depend on and forgets the   *)
(* rest: x, csr and mem map the registers, CSRs and memory words whose     *)
(* value is known, and any other may hold anything, so that a branch goes  *)
(* both ways.  Values are 32-bit numbers, signed.  An operator that has    *)
(* such a choice returns the set of states that may follow.  The status    *)
(* "astray" is the model's own: the program jumps to or accesses an        *)
(* address that is not known.  "raised" is an exception of the simulator.  *)
(***************************************************************************)
EXTENDS Encoding, FiniteSetsExt, Functions

LOCAL Mmu == INSTANCE IssTranslate

MSTATUS == 768
MTVEC == 773
MEPC == 833
SATP == 384
MIE == 772
Tracked == {MTVEC, MEPC, SATP, MIE}
PrivLevel == [U |-> 0, S |-> 1, M |-> 3]
NoAccess == [k |-> "none", addr |-> 0, width |-> 0]
NoInterrupt == -1

\* Knowing and forgetting a value.
Known(f, k, v) == (k :> v) @@ f
Forget(f, k) == Restrict(f, DOMAIN f \ {k})
Pages == {0, 4096}      \* words of memory whose contents matter

ISS_init(mem_size, xlen, after) ==
  [pc |-> 0, xlen |-> xlen, x |-> 2 :> mem_size @@ [r \in 1 .. 31 |-> 0],
   csr |-> [a \in Tracked |-> 0], mem |-> [a \in Pages |-> 0],
   mem_size |-> mem_size, priv |-> "M",
   mstatus |-> [mie |-> FALSE, mpie |-> FALSE, mpp |-> "U"],
   pending |-> after, steps |-> 0, status |-> "running", event |-> "step",
   access |-> NoAccess]

XKnown(m, r) == r = 0 \/ r \in DOMAIN m.x
XVal(m, r) == IF r = 0 THEN 0 ELSE m.x[r]
wr(m, rd, v) == IF rd = 0 THEN m ELSE [m EXCEPT !.x = Known(@, rd, v)]
wr_any(m, rd) == IF rd = 0 THEN m ELSE [m EXCEPT !.x = Forget(@, rd)]
Goto(m, pc) == [m EXCEPT !.pc = pc]

(***************************************************************************)
(* trap (never delegated: medeleg and mideleg stay 0), mret.               *)
(***************************************************************************)
trap(m, event) ==
  IF MTVEC \notin DOMAIN m.csr
  THEN [m EXCEPT !.event = event, !.status = "astray"]
  ELSE [m EXCEPT !.event = event, !.pc = m.csr[MTVEC], !.priv = "M",
                 !.csr = Known(@, MEPC, m.pc),
                 !.mstatus = [mie |-> FALSE, mpie |-> m.mstatus.mie,
                              mpp |-> m.priv]]

mret(m) ==
  IF MEPC \notin DOMAIN m.csr THEN [m EXCEPT !.status = "astray"]
  ELSE [m EXCEPT !.event = "mret", !.pc = m.csr[MEPC], !.priv = m.mstatus.mpp,
                 !.mstatus = [mie |-> m.mstatus.mpie, mpie |-> TRUE,
                              mpp |-> "U"]]

(***************************************************************************)
(* translate over the known memory.                                        *)
(***************************************************************************)
PteAt(m, addr) ==
  LET v == IF addr \in DOMAIN m.mem THEN m.mem[addr] ELSE 0
      bit(n) == (v \div 2^n) % 2 = 1
  IN  [v |-> bit(0), ppn |-> (v \div 1024) % 2^20,
       perm |-> {c \in {"r", "w", "x", "u"} :
                   bit(CASE c = "r" -> 1 [] c = "w" -> 2 [] c = "x" -> 3
                         [] c = "u" -> 4)}]
Translated(m, addr, access) ==
  LET tables == [frame \in Nat |->
                   [i \in 0 .. 1023 |-> PteAt(m, 4096 * frame + 4 * i)]]
      satp == m.csr[SATP]
      page == Mmu!translate(tables, IF satp < 0 THEN "sv32" ELSE "bare",
                            satp % 2^20, addr \div 4096, access, m.priv, 10)
  IN  [fault |-> page.fault, addr |-> 4096 * page.ppn + (addr % 4096)]

(***************************************************************************)
(* Loads and stores.  A store wraps in the memory and an address from      *)
(* MMIO_BASE on has no effect; a page-table word it hits is forgotten.     *)
(***************************************************************************)
Width(mn) == CASE mn \in {"lb", "lbu", "sb"} -> 1
               [] mn \in {"lh", "lhu", "sh"} -> 2
               [] mn \in {"ld", "sd"} -> 8
               [] OTHER -> 4
MMIO_BASE == 2^28

Stored(m, addr, width, st) ==
  LET src == st.args[1]
      hit == {a \in Pages : \E i \in 0 .. width - 1 :
                (addr + i) % m.mem_size \in a .. a + 3}
  IN  IF addr >= MMIO_BASE THEN m
      ELSE IF addr \in hit /\ width = 4 /\ src.k = "x" /\ XKnown(m, src.v)
      THEN [m EXCEPT !.mem = Known(@, addr, XVal(m, src.v))]
      ELSE [m EXCEPT !.mem = Restrict(@, DOMAIN @ \ hit)]

MemoryStep(m, st, store) ==
  LET base == st.args[3].v
      width == Width(st.mn)
      vaddr == XVal(m, base) + st.args[2].v
      t == Translated(m, vaddr, IF store THEN "w" ELSE "r")
      did == [Goto(m, m.pc + 4) EXCEPT
                !.access = [k |-> IF store THEN "w" ELSE "r",
                            addr |-> t.addr, width |-> width]]
  IN  IF ~XKnown(m, base) THEN [m EXCEPT !.status = "astray"]
      ELSE IF t.fault THEN trap(m, "trap")
      ELSE IF store THEN Stored(did, t.addr, width, st)
      ELSE IF st.args[1].k = "x" THEN wr_any(did, st.args[1].v) ELSE did

(***************************************************************************)
(* CSR instructions.  The value written is known when it is the known      *)
(* source, or the old value because the source has no bits.  Any other     *)
(* makes mstatus any of the values it can have.                            *)
(***************************************************************************)
CsrPermitted(m, addr) == PrivLevel[m.priv] >= (addr \div 256) % 4

\* csr_write keeps the bits of mie that exist.
Masked(addr, v) ==
  IF addr # MIE THEN v
  ELSE MapThenSumSet(LAMBDA b : 2^b * ((v \div 2^b) % 2), {1, 3, 5, 7, 9, 11})

csr_write(m, mn, addr, src) ==
  LET known == src.k = "i" \/ XKnown(m, src.v)
      v == IF src.k = "i" THEN src.v ELSE XVal(m, src.v)
      replaces == mn \in {"csrrw", "csrrwi"}
      any == [mie : BOOLEAN, mpie : BOOLEAN, mpp : {"U", "S", "M"}]
  IN  IF known /\ v = 0 /\ ~replaces THEN {m}
      ELSE IF addr = MSTATUS
      THEN IF mn = "csrrsi" /\ v = 8 THEN {[m EXCEPT !.mstatus.mie = TRUE]}
           ELSE {[m EXCEPT !.mstatus = s] : s \in any}
      ELSE IF addr \notin Tracked THEN {m}
      ELSE IF known /\ replaces
      THEN {[m EXCEPT !.csr = Known(@, addr, Masked(addr, v))]}
      ELSE {[m EXCEPT !.csr = Forget(@, addr)]}

CsrStep(m, st) ==
  LET rd == st.args[1].v
      addr == st.args[2].v
      read(n) == IF addr \in DOMAIN m.csr THEN wr(n, rd, m.csr[addr])
                 ELSE wr_any(n, rd)
  IN  IF ~CsrPermitted(m, addr) THEN {trap(m, "trap")}
      ELSE {read(n) : n \in csr_write(Goto(m, m.pc + 4), st.mn, addr,
                                      st.args[3])}

(***************************************************************************)
(* ISS.step                                                                *)
(***************************************************************************)
UpperStep(m, st) ==
  LET rd == st.args[1].v
      imm == 4096 * Sext(st.args[2].v, 20)
  IN  wr(Goto(m, m.pc + 4), rd, IF st.mn = "lui" THEN imm ELSE m.pc + imm)

JumpStep(m, st) ==
  LET rd == st.args[1].v
      link == wr(m, rd, m.pc + 4)
  IN  IF st.mn = "jal" THEN Goto(link, m.pc + st.args[2].v)
      ELSE IF XKnown(m, st.args[3].v)
      THEN Goto(link, 2 * ((XVal(m, st.args[3].v) + st.args[2].v) \div 2))
      ELSE [m EXCEPT !.status = "astray"]

\* A word without an operation: an opcode that is not implemented, or a
\* reserved SYSTEM form, traps; a reserved function of another opcode raises
\* ValueError, which ends the tool (a load or store translates first).
UnknownStep(m, w) ==
  LET access == w.op \in {OP.LOAD, OP.STORE}
      vaddr == XVal(m, w.rs1) + IF w.op = OP.LOAD THEN ImmI(w) ELSE ImmS(w)
      way == IF w.op = OP.LOAD THEN "r" ELSE "w"
  IN  IF w.op \notin {OP.LOAD, OP.STORE, OP.R, OP.W, OP.IMM_W, OP.FP} THEN trap(m, "trap")
      ELSE IF access /\ ~XKnown(m, w.rs1) THEN [m EXCEPT !.status = "astray"]
      ELSE IF access /\ Translated(m, vaddr, way).fault THEN trap(m, "trap")
      ELSE [m EXCEPT !.status = "raised"]

step(m0, w) ==
  LET m == [m0 EXCEPT !.event = "step", !.access = NoAccess]
      st == IssDecode(w, m.xlen)
      a == st.args
      next == Goto(m, m.pc + 4)
      privileged == \/ st.mn = "mret" /\ m.priv # "M"
                    \/ st.mn \in {"sret", "sfence.vma"} /\ m.priv = "U"
  IN CASE st.mn \in {"ecall", "ebreak"} \/ privileged -> {trap(m, "trap")}
       [] st = Unknown -> {UnknownStep(m, w)}
       [] st.mn = "mret" /\ ~privileged -> {mret(m)}
       [] st.mn = "sret" /\ ~privileged -> {[m EXCEPT !.status = "astray"]}
       [] st.mn \in {"skip", "fence"} -> {next}
       [] st.mn \in {"lui", "auipc"} -> {UpperStep(m, st)}
       [] st.mn = "addi" /\ XKnown(m, a[2].v) ->
            {wr(next, a[1].v, XVal(m, a[2].v) + a[3].v)}
       [] st.mn \in DOMAIN LOAD \cup {"flw"} -> {MemoryStep(m, st, FALSE)}
       [] st.mn \in DOMAIN STORE \cup {"fsw"} -> {MemoryStep(m, st, TRUE)}
       [] st.mn \in DOMAIN BRANCH -> {next, Goto(m, m.pc + a[3].v)}
       [] st.mn \in {"jal", "jalr"} -> {JumpStep(m, st)}
       [] st.mn \in DOMAIN CSR_OP -> CsrStep(m, st)
       [] st.mn = "sfence.vma" /\ ~privileged -> {next}
       [] OTHER -> {IF a[1].k = "x" THEN wr_any(next, a[1].v) ELSE next}

(***************************************************************************)
(* One iteration of ISS.run: the scheduled interrupt, the end of the       *)
(* program, the self-loop that halts it, or a step.                        *)
(***************************************************************************)
SelfLoop(w) == w.op = OP.JAL /\ OffsetJ(w) = 0

run(m, words, max_steps) ==
  LET t == Translated(m, m.pc, "x")
  IN  IF m.steps >= max_steps THEN {[m EXCEPT !.status = "runaway"]}
      ELSE IF m.pending # NoInterrupt /\ m.steps >= m.pending /\ m.mstatus.mie
      THEN {[trap(m, "interrupt") EXCEPT !.pending = NoInterrupt]}
      ELSE IF t.fault THEN {trap(m, "trap")}
      ELSE IF t.addr >= 4 * Len(words) THEN {[m EXCEPT !.status = "ended"]}
      ELSE IF SelfLoop(words[(t.addr \div 4) + 1])
      THEN {[m EXCEPT !.status = "halted"]}
      ELSE {[n EXCEPT !.steps = @ + 1] : n \in step(m, words[(t.addr \div 4) + 1])}

=============================================================================
