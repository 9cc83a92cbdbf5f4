---------------------------------- MODULE CSR ----------------------------------
(***************************************************************************)
(* The control and status registers (design/CSR.v) and the logic around    *)
(* the EX stage that drives them (design/riscvpipeline.v): privilege       *)
(* checks, exceptions, interrupt recognition, trap entry with delegation,  *)
(* mret and sret.  One step is one clock edge.  A register's value is the  *)
(* set of the bits that are 1, so csrrs, csrrc and the write masks are     *)
(* union, difference and intersection, as in the code.                     *)
(*                                                                         *)
(* The occupant of EX is any instruction the build lists.  A cycle that    *)
(* holds it (reg2_hold, which implies pc_stall) suppresses the CSR write,  *)
(* the trap, the return and the interrupt alike: it is a stuttering step.  *)
(* The hardware counters (mcycle, minstret, mhpmcounter) are left out.     *)
(***************************************************************************)
EXTENDS Integers

CONSTANT Builds     \* what software and the devices do in one run: the
                    \* occupants of EX, the lines, and whether Allowed binds

VARIABLES
    build,          \* frozen: a member of Builds
    priv_mode,      \* 0 = U, 1 = S, 3 = M
    csr,            \* stored registers: name -> set of bits that are 1
    frames          \* history: what the last trap into M (S) interrupted

vars == <<build, priv_mode, csr, frames>>

U == 0
S == 1
M == 3

MachineRegs == {"mstatus", "mie", "mip", "mideleg", "medeleg", "mtvec",
                "mscratch", "mepc", "mcause", "mtval"}
SupervisorRegs == {"stvec", "sscratch", "sepc", "scause", "stval", "satp"}
FpRegs == {"fflags", "frm"}
Stored == MachineRegs \cup SupervisorRegs \cup FpRegs

\* sstatus, sie, sip and fcsr are windows onto stored registers.
Addr == Stored \cup {"sstatus", "sie", "sip", "fcsr"}

\* Address bits [9:8]: the privilege an access needs.
\* Mutant: one bit of the field is compared, so S reaches machine registers.
RequiredPriv_OneBit(addr) == IF addr \in FpRegs \cup {"fcsr"} THEN U ELSE S

RequiredPriv(addr) ==
    CASE addr \in MachineRegs -> M
      [] addr \in FpRegs \cup {"fcsr"} -> U
      [] OTHER -> S

----------------------------------------------------------------------------
(* Bit positions, as in riscv_defs.vh.                                     *)
MIE == 3
MPIE == 7
SIE == 1
SPIE == 5
SPP == 8
MPP == {11, 12}
MSI == 3
MTI == 7
MEI == 11
SSI == 1
STI == 5
SEI == 9

Bit == 0..31
SSTATUS_BITS == {SIE, SPIE, SPP}
MSTATUS_BITS == SSTATUS_BITS \cup {MIE, MPIE} \cup MPP
SIE_BITS == {SSI, STI, SEI}
MIE_BITS == SIE_BITS \cup {MSI, MTI, MEI}
MEDELEG_BITS == {2, 3, 8, 9, 11, 12, 13, 15}

\* The two-bit MPP field, as a privilege and back.
MppOf(mstatus) == (IF 11 \in mstatus THEN 1 ELSE 0) +
                  (IF 12 \in mstatus THEN 2 ELSE 0)
\* Mutant: the previous privilege is saved in one bit, as SPP saves it.
MppBits_OneBit(p) == IF p % 2 = 1 THEN {11} ELSE {}

MppBits(p) == (IF p % 2 = 1 THEN {11} ELSE {}) \cup (IF p >= 2 THEN {12} ELSE {})

\* A cause code (0..15) as mcause holds it, bit 31 set for an interrupt.
CauseBits(code, is_interrupt) ==
    {k \in 0..3 : (code \div 2^k) % 2 = 1} \cup
    (IF is_interrupt THEN {31} ELSE {})

----------------------------------------------------------------------------
(* The occupant of EX: kind of instruction, the CSR access it makes if it  *)
(* is one, and the page fault it carries.  A fetch fault may ride on any   *)
(* bits at all, since what was fetched is not replaced by a nop.           *)
Pc == {2}           \* its address, the next one's, and a data address
NextPc == {3}
DataAddr == {4}

Kinds == {"plain", "jump", "illegal", "ebreak", "ecall", "mret", "sret",
          "sfence", "fp", "csr"}
Faults == {"none", "fetch", "load", "store"}

\* A page fault needs translation: satp.MODE set (Sv32) and not in M.
translate_enable == 31 \in csr["satp"] /\ priv_mode # M
Possible(x) == x.fault # "none" => translate_enable

Exec == [kind : Kinds, fault : Faults, addr : Addr,
         op : {"csrrw", "csrrs", "csrrc"}, wdata : SUBSET Bit]

ASSUME BuildsAssumption ==
    \A b \in Builds : /\ b.execs \subseteq Exec
                      /\ b.lines \subseteq {MSI, MTI, MEI}
                      /\ b.agree \in BOOLEAN

csr_priv_violation(x) == x.kind = "csr" /\ priv_mode < RequiredPriv(x.addr)
mret_priv_violation(x) == x.kind = "mret" /\ priv_mode # M
sret_priv_violation(x) == x.kind = "sret" /\ priv_mode = U
sfence_priv_violation(x) == x.kind = "sfence" /\ priv_mode = U

illegal_instruction(x) ==
    \/ x.kind = "illegal"
    \/ csr_priv_violation(x)
    \/ mret_priv_violation(x)
    \/ sret_priv_violation(x)
    \/ sfence_priv_violation(x)

mret_real(x) == x.kind = "mret" /\ ~mret_priv_violation(x)
sret_real(x) == x.kind = "sret" /\ ~sret_priv_violation(x)

exception_taken(x) ==
    \/ illegal_instruction(x)
    \/ x.kind \in {"ecall", "ebreak"}
    \/ x.fault # "none"

trap_cause(x) ==
    IF x.fault = "fetch" THEN 12
    ELSE IF x.fault = "load" THEN 13
    ELSE IF x.fault = "store" THEN 15
    ELSE IF illegal_instruction(x) THEN 2
    ELSE IF x.kind = "ebreak" THEN 3
    ELSE CASE priv_mode = M -> 11
           [] priv_mode = S -> 9
           [] OTHER -> 8

trap_value(x) ==
    CASE x.fault = "fetch" -> Pc
      [] x.fault \in {"load", "store"} -> DataAddr
      [] OTHER -> {}

----------------------------------------------------------------------------
(* Interrupts: lines is the set of machine interrupts the devices raise.   *)
m_pending(lines) == csr["mie"] \cap lines

\* Mutant: the supervisor's own enable is not consulted.
s_pending_NoSie ==
    IF priv_mode = S THEN csr["mie"] \cap csr["mip"] \cap {SSI, STI} ELSE {}

s_pending ==
    IF SIE \in csr["mstatus"] /\ priv_mode = S
    THEN csr["mie"] \cap csr["mip"] \cap {SSI, STI}
    ELSE {}

other_redirect_taken(x) ==
    x.kind = "jump" \/ exception_taken(x) \/ mret_real(x) \/ sret_real(x)

\* In a cycle without pc_stall; one with pc_stall takes no interrupt.
interrupt_taken(x, lines) ==
    /\ \/ MIE \in csr["mstatus"] /\ m_pending(lines) # {}
       \/ s_pending # {}
    /\ ~other_redirect_taken(x)

interrupt_cause(lines) ==
    IF MEI \in m_pending(lines) THEN MEI
    ELSE IF MSI \in m_pending(lines) THEN MSI
    ELSE IF MTI \in m_pending(lines) THEN MTI
    ELSE IF SSI \in s_pending THEN SSI
    ELSE STI

\* Where a trap goes: to S when it comes from below M and is delegated.
target_is_s(code, is_interrupt) ==
    priv_mode # M /\ code \in csr[IF is_interrupt THEN "mideleg" ELSE "medeleg"]

----------------------------------------------------------------------------
(* CSR accesses.                                                           *)
csr_rdata(addr, lines) ==
    CASE addr = "sstatus" -> csr["mstatus"] \cap SSTATUS_BITS
      [] addr = "sie" -> csr["mie"] \cap SIE_BITS
      [] addr = "sip" -> csr["mip"] \cap SIE_BITS
      [] addr = "mip" -> csr["mip"] \cup lines
      [] addr = "fcsr" -> csr["fflags"] \cup {b + 5 : b \in csr["frm"]}
      [] OTHER -> csr[addr]

new_val(x, lines) ==
    CASE x.op = "csrrs" -> csr_rdata(x.addr, lines) \cup x.wdata
      [] x.op = "csrrc" -> csr_rdata(x.addr, lines) \ x.wdata
      [] OTHER -> x.wdata

\* What a write of v to addr leaves in stored register r.
Masked(r, addr, v) ==
    CASE r = "mstatus" /\ addr = "mstatus" -> v \cap MSTATUS_BITS
      [] r = "mstatus" /\ addr = "sstatus" ->
            (csr["mstatus"] \ SSTATUS_BITS) \cup (v \cap SSTATUS_BITS)
      [] r = "mie" /\ addr = "mie" -> v \cap MIE_BITS
      [] r = "mie" /\ addr = "sie" ->
            (csr["mie"] \ SIE_BITS) \cup (v \cap SIE_BITS)
      [] r = "mip" /\ addr \in {"mip", "sip"} -> v \cap SIE_BITS
      [] r = "mideleg" /\ addr = r -> v \cap MIE_BITS
      [] r = "medeleg" /\ addr = r -> v \cap MEDELEG_BITS
      [] r = "fflags" /\ addr \in {"fflags", "fcsr"} -> v \cap 0..4
      [] r = "frm" /\ addr = "frm" -> v \cap 0..2
      [] r = "frm" /\ addr = "fcsr" -> {b - 5 : b \in v \cap 5..7}
      [] OTHER -> IF addr = r THEN v ELSE csr[r]

csr_write_en(x) == x.kind = "csr" /\ ~csr_priv_violation(x)

\* fp_flags_we accumulates the flags of an FP instruction into fflags.
Written(r, x, lines) ==
    CASE r = "fflags" /\ x.kind = "fp" -> csr[r] \cup x.wdata
      [] csr_write_en(x) -> Masked(r, x.addr, new_val(x, lines))
      [] OTHER -> csr[r]

----------------------------------------------------------------------------
(* mstatus, with the machine and the supervisor half of the enable stack.  *)
Put(bits, b, on) == IF on THEN bits \cup {b} ELSE bits \ {b}

EnterM(m) ==
    (Put(m, MPIE, MIE \in m) \ ({MIE} \cup MPP)) \cup MppBits(priv_mode)

EnterS(m) == Put(Put(m, SPIE, SIE \in m), SPP, priv_mode % 2 = 1) \ {SIE}

LeaveM(m) == (Put(m, MIE, MPIE \in m) \cup {MPIE}) \ MPP

LeaveS(m) == (Put(m, SIE, SPIE \in m) \cup {SPIE}) \ {SPP}

\* Mutant: one chain for all registers, in which the trap wins.
Trapped_SharedChain(x, lines, to_s, pc, cause, tval) ==
    [r \in Stored |->
       CASE r = "mstatus" -> IF to_s THEN EnterS(csr[r]) ELSE EnterM(csr[r])
         [] r = (IF to_s THEN "sepc" ELSE "mepc") -> pc
         [] r = (IF to_s THEN "scause" ELSE "mcause") -> cause
         [] r = (IF to_s THEN "stval" ELSE "mtval") -> tval
         [] OTHER -> csr[r]]

\* The registers after a trap into S or M that records pc, cause and value;
\* a register the trap does not own still takes the csrrX write, as CSR.v
\* updates each register by a chain of its own.
Trapped(x, lines, to_s, pc, cause, tval) ==
    [r \in Stored |->
       CASE r = "mstatus" -> IF to_s THEN EnterS(csr[r]) ELSE EnterM(csr[r])
         [] r = (IF to_s THEN "sepc" ELSE "mepc") -> pc
         [] r = (IF to_s THEN "scause" ELSE "mcause") -> cause
         [] r = (IF to_s THEN "stval" ELSE "mtval") -> tval
         [] OTHER -> Written(r, x, lines)]

\* The registers after a cycle without a trap.
Untrapped(x, lines) ==
    [r \in Stored |->
       CASE r = "mstatus" /\ mret_real(x) -> LeaveM(csr[r])
         [] r = "mstatus" /\ sret_real(x) -> LeaveS(csr[r])
         [] OTHER -> Written(r, x, lines)]

PrivAfter(x) ==
    CASE mret_real(x) -> MppOf(csr["mstatus"])
      [] sret_real(x) -> IF SPP \in csr["mstatus"] THEN S ELSE U
      [] OTHER -> priv_mode

----------------------------------------------------------------------------
(* History: the privilege, enable bit and pc a trap into M (S) saved, kept *)
(* until the matching return, a write that lands on what holds it, or the  *)
(* next trap into the same level.                                          *)
NoFrame == [live |-> FALSE, priv |-> U, ie |-> FALSE, pc |-> {}]

Forget(gone) == [l \in {M, S} |-> IF l \in gone THEN NoFrame ELSE frames[l]]

FramesAfter(x) ==
    Forget(CASE mret_real(x) -> {M}
             [] sret_real(x) -> {S}
             [] csr_write_en(x) /\ x.addr = "mstatus" -> {M, S}
             [] csr_write_en(x) /\ x.addr = "mepc" -> {M}
             [] csr_write_en(x) /\ x.addr \in {"sstatus", "sepc"} -> {S}
             [] OTHER -> {})

FramesTrapped(x, to_s, pc) ==
    LET ie == (IF to_s THEN SIE ELSE MIE) \in csr["mstatus"]
        lost == IF csr_write_en(x) /\ x.addr = "sepc" THEN {S} ELSE {}
    IN [Forget(lost) EXCEPT ![IF to_s THEN S ELSE M] =
          [live |-> TRUE, priv |-> priv_mode, ie |-> ie, pc |-> pc]]

----------------------------------------------------------------------------
(* One clock edge.                                                         *)
AfterTrap(x, lines, code, is_interrupt, pc, tval) ==
    LET to_s == target_is_s(code, is_interrupt)
        cause == CauseBits(code, is_interrupt)
    IN [priv |-> IF to_s THEN S ELSE M,
        csr |-> Trapped(x, lines, to_s, pc, cause, tval)]

AfterException(x, lines) ==
    AfterTrap(x, lines, trap_cause(x), FALSE, Pc, trap_value(x))

AfterInterrupt(x, lines) ==
    AfterTrap(x, lines, interrupt_cause(lines), TRUE, NextPc, {})

AfterRetire(x, lines) == [priv |-> PrivAfter(x), csr |-> Untrapped(x, lines)]

Becomes(st) == priv_mode' = st.priv /\ csr' = st.csr

Exception(x, lines) ==
    /\ exception_taken(x)
    /\ Becomes(AfterException(x, lines))
    /\ frames' = FramesTrapped(x, target_is_s(trap_cause(x), FALSE), Pc)

Interrupt(x, lines) ==
    /\ interrupt_taken(x, lines)
    /\ Becomes(AfterInterrupt(x, lines))
    /\ frames' = FramesTrapped(x, target_is_s(interrupt_cause(lines), TRUE), NextPc)

\* No trap: none is wanted, or pc_stall, which is free here, makes it wait.
Retire(x, lines) ==
    /\ ~exception_taken(x)
    /\ Becomes(AfterRetire(x, lines))
    /\ frames' = FramesAfter(x)

Init ==
    /\ build \in Builds
    /\ priv_mode = M
    /\ csr = [r \in Stored |-> {}]
    /\ frames = [l \in {M, S} |-> NoFrame]

\* Two cycles in which the core and its reference disagree; a build with
\* agree set keeps them out.  Collision: a csrrX instruction retires with an
\* interrupt that writes the same register.  MaskedCause: a supervisor
\* interrupt is taken while a machine interrupt is pending but MIE is 0.
Collision(x, lines) ==
    /\ csr_write_en(x)
    /\ x.addr \in {"mstatus", "sstatus"} \cup
          (IF target_is_s(interrupt_cause(lines), TRUE)
           THEN {"sepc", "scause", "stval"} ELSE {"mepc", "mcause", "mtval"})

MaskedCause(lines) == MIE \notin csr["mstatus"] /\ m_pending(lines) # {}

Allowed(x, lines) ==
    build.agree /\ interrupt_taken(x, lines) =>
        ~Collision(x, lines) /\ ~MaskedCause(lines)

Next ==
    /\ \E x \in build.execs, lines \in SUBSET build.lines :
          /\ Possible(x)
          /\ \/ Exception(x, lines)
             \/ Allowed(x, lines) /\ Interrupt(x, lines)
             \/ Retire(x, lines)
    /\ UNCHANGED build

Spec == Init /\ [][Next]_vars

----------------------------------------------------------------------------
(* Properties.                                                             *)

\* Every register holds only bits it implements; privilege is a level.
TypeOK ==
    /\ build \in Builds
    /\ priv_mode \in 0..3
    /\ csr \in [Stored -> SUBSET Bit]
    /\ csr["mstatus"] \subseteq MSTATUS_BITS
    /\ frames \in [{M, S} -> [live : BOOLEAN, priv : 0..3, ie : BOOLEAN,
                             pc : SUBSET Bit]]

\* What a trap into M (S) saved is what mret (sret) will restore: nothing that
\* happens at the other level in between, a delegated trap, an sret, a write
\* through sstatus, sie or sip, disturbs MPP, MPIE and mepc (SPP, SPIE, sepc).
FramesIntact ==
    /\ frames[M].live =>
          /\ MppOf(csr["mstatus"]) = frames[M].priv
          /\ (MPIE \in csr["mstatus"]) = frames[M].ie
          /\ csr["mepc"] = frames[M].pc
    /\ frames[S].live =>
          /\ (SPP \in csr["mstatus"]) = (frames[S].priv % 2 = 1)
          /\ (SPIE \in csr["mstatus"]) = frames[S].ie
          /\ csr["sepc"] = frames[S].pc

\* A handler that still runs at the level it was entered at, and has neither
\* returned nor rewritten its enable bits, is not interrupted into that level
\* again: its saved pc and privilege are still needed.  Left out are machine
\* interrupts delegated to S, which stay enabled by MIE in the S handler.
HandlerNotReentered ==
    \A x \in build.execs, lines \in SUBSET build.lines :
       LET cause == interrupt_cause(lines)
           target == IF target_is_s(cause, TRUE) THEN S ELSE M
       IN interrupt_taken(x, lines) =>
             \/ ~frames[target].live
             \/ priv_mode # target
             \/ target = S /\ cause \in {MSI, MTI, MEI}

\* Below M, no instruction changes machine state: a register or enable bit
\* that belongs to M changes only by a trap into M, and a trap changes only
\* mepc, mcause, mtval and mstatus.
MachineStateProtected ==
    [][ priv_mode # M =>
          /\ \A r \in {"mideleg", "medeleg", "mtvec", "mscratch"} :
                csr'[r] = csr[r]
          /\ csr'["mie"] \ SIE_BITS = csr["mie"] \ SIE_BITS
          /\ \/ priv_mode' = M
             \/ /\ \A r \in {"mepc", "mcause", "mtval"} : csr'[r] = csr[r]
                /\ csr'["mstatus"] \ SSTATUS_BITS = csr["mstatus"] \ SSTATUS_BITS
      ]_vars
=============================================================================
