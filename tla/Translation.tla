----------------------------- MODULE Translation -----------------------------
(***************************************************************************)
(* Address translation inside design/riscvpipeline.v, one Next step per    *)
(* clock cycle: the fetch and the load/store side of the TLB, the walker   *)
(* they share, the bus it shares with the LSU or the data cache, and the   *)
(* stalls and redirects of the stages around them, with the forwarding     *)
(* hazard unit (Hazard.v): the load-use stall is its.                      *)
(*                                                                         *)
(* Instructions are what they do to translation, each with the page it     *)
(* accesses or jumps to.  "remap" is a store that changes the page tables; *)
(* synced says that an sfence.vma has followed the last one.  The data     *)
(* cache is reduced to its use of the bus: module DCache has the rest.     *)
(***************************************************************************)
EXTENDS Mmu

(***************************************************************************)
(* A build: the elaboration parameters and what its programs may do.       *)
(***************************************************************************)
Ops == {"nop", "load", "store", "remap", "fence", "sfence", "jump", "ecall"}
Build ==
  [Levels  : {2, 3},            \* 2 at XLEN = 32, 3 at XLEN = 64
   Cached  : BOOLEAN,           \* CACHE_WRITEBACK_SETASSOC?
   Privs   : SUBSET {"S", "U"}, \* where mret may go
   Ops     : SUBSET Ops,
   Code    : SUBSET (0 .. 7),        \* pages the program runs in
   Data    : SUBSET (0 .. 7),        \* pages it loads from and stores to
   Tables  : SUBSET DOMAIN PageTables,
   Overlap : BOOLEAN,           \* may a walk start behind an access?
   Orphans : BOOLEAN]           \* may anything depend on an abandoned walk?

\* A build's programs stay on pages that exist, and a program that changes
\* the page tables has others to change to.
ASSUME BuildsAssumption ==
  /\ Builds \subseteq Build
  /\ \A b \in Builds :
       /\ b.Code \cup b.Data \subseteq 0 .. (2 ^ b.Levels) - 1
       /\ "remap" \in b.Ops => \A t \in b.Tables : b.Tables # {t}
\* Memory is a whole number of the largest superpages.
ASSUME FramesAssumption == FRAMES \in Nat \ {0} /\ FRAMES % 4 = 0
ASSUME TablesAssumption ==
  \A t \in DOMAIN PageTables : PageTables[t] \in [Frame -> [{0, 1} -> Pte]]

\* reads_rd: the instruction in reg1 names the rd of the one in reg2.
VARIABLES pc, priv_mode, reg1, reg2, reg3, reads_rd, mem_stall_done_r,
          fence_pending_r,
          fence_flush_started_r, dtlb_miss_r, dtlb_vaddr_r,
          ptw_servicing_d_r, ptw_abandoned_r, bus, dcache, synced

regs == <<pc, priv_mode, reg1, reg2, reg3, reads_rd, mem_stall_done_r>>
fence_regs == <<fence_pending_r, fence_flush_started_r>>
mmu_regs == <<dtlb_miss_r, dtlb_vaddr_r, ptw_servicing_d_r, ptw_abandoned_r>>
vars == <<build, table, tlb, ptw, regs, fence_regs, mmu_regs, bus, dcache,
          synced>>

Nop == [op |-> "nop", page |-> 0]
InEx(i) == [op |-> i.op, page |-> i.page, alu |-> i.page]
Accesses == {"load", "store", "remap"}

Init ==
  /\ build \in Builds /\ table \in build.Tables /\ MmuInit
  /\ pc = 0 /\ priv_mode = "M"
  /\ reg1 = Nop /\ reg2 = InEx(Nop) /\ reg3 = "nop" /\ reads_rd = FALSE
  /\ mem_stall_done_r = FALSE /\ fence_pending_r = FALSE
  /\ fence_flush_started_r = FALSE /\ dtlb_miss_r = FALSE
  /\ dtlb_vaddr_r = 0 /\ ptw_servicing_d_r = FALSE
  /\ ptw_abandoned_r = FALSE
  /\ bus = [pending |-> FALSE, data |-> NoPte]
  /\ dcache = "idle" /\ synced = TRUE

(***************************************************************************)
(* The wires.                                                              *)
(***************************************************************************)
translate_enable == priv_mode # "M"
priv_is_u == priv_mode = "U"
ptw_done_i == ptw.done /\ ~ptw_servicing_d_r
ptw_done_d == ptw.done /\ ptw_servicing_d_r

\* The load or store in EX.
memRead_regde == reg2.op = "load"
memWrite_regde == reg2.op \in {"store", "remap"}
access_regde == IF memWrite_regde THEN "w" ELSE "r"
dtlb_needed == translate_enable /\ (memRead_regde \/ memWrite_regde)

dtlb_vaddr == IF dtlb_miss_r THEN dtlb_vaddr_r ELSE reg2.alu
\* A hit would be checked for the kind of access only.
dtlb_hit_fault_AnyPriv ==
  /\ dtlb_needed /\ TlbHit(dtlb_vaddr)
  /\ access_regde \notin TlbEntry(dtlb_vaddr).perm

dtlb_hit_fault ==
  /\ dtlb_needed /\ TlbHit(dtlb_vaddr)
  /\ ~Permits(TlbEntry(dtlb_vaddr).perm, access_regde, priv_is_u)
dtlb_page_fault ==
  dtlb_hit_fault \/ (ptw_done_d /\ ptw.fault /\ ~ptw_abandoned_r)
mem_paddr ==
  IF translate_enable /\ TlbHit(dtlb_vaddr) THEN TlbEntry(dtlb_vaddr).ppn
  ELSE dtlb_vaddr

sfence_priv_violation == reg2.op = "sfence" /\ priv_is_u
sfence_real == reg2.op = "sfence" /\ ~priv_is_u
exception_taken ==
  reg2.op \in {"ecall", "ifault"} \/ sfence_priv_violation \/ dtlb_page_fault
branch_taken == exception_taken \/ reg2.op \in {"jump", "mret"}

dtlb_miss ==
  /\ dtlb_needed /\ ~TlbHit(dtlb_vaddr)
  /\ ~(ptw_done_d /\ ptw.fault) /\ ~branch_taken

\* The fetch of the instruction at pc.
itlb_hit_fault ==
  /\ translate_enable /\ TlbHit(pc)
  /\ ~Permits(TlbEntry(pc).perm, "x", priv_is_u)
\* A fetch would miss even in the cycle in which EX redirects it.
itlb_miss_Redirected ==
  translate_enable /\ ~TlbHit(pc) /\ ~(ptw_done_i /\ ptw.fault)
\* A fetch whose walk has just faulted would miss again.
itlb_miss_Faulted == translate_enable /\ ~TlbHit(pc) /\ ~branch_taken

itlb_miss ==
  /\ translate_enable /\ ~TlbHit(pc)
  /\ ~(ptw_done_i /\ ptw.fault) /\ ~branch_taken
\* The fault of a walk would be taken from whoever asked for it.
ifetch_fault_if_AnyWalk == itlb_hit_fault \/ (ptw_done_i /\ ptw.fault)

ifetch_fault_if ==
  itlb_hit_fault \/ (ptw_done_i /\ ptw.fault /\ ~ptw_abandoned_r)
imem_phys_addr ==
  IF translate_enable /\ TlbHit(pc) THEN TlbEntry(pc).ppn ELSE pc

\* The MEM stage and the bus.
lsu_we == reg3 \in {"store", "remap"}
lsu_cyc == reg3 = "load" \/ lsu_we
dcache_m_cyc == dcache \in {"fill", "flush"}
dcache_flush_busy == dcache = "flush"
wb_m_we == ~build.Cached /\ ~ptw_busy /\ lsu_we
wb_m_read ==
  IF ptw_busy THEN ptw_m_cyc ELSE ~build.Cached /\ lsu_cyc /\ ~lsu_we
lsu_ack == dcache_m_cyc \/ wb_m_we \/ (wb_m_read /\ bus.pending)
mem_access_ready ==
  IF ~build.Cached THEN lsu_ack
  ELSE IF fence_pending_r THEN dcache = "flushed" ELSE dcache = "ready"
mem_trigger ==
  IF ~build.Cached THEN reg3 = "load" \/ (lsu_we /\ ~lsu_ack)
  ELSE reg3 = "load" \/ (lsu_we /\ dcache # "ready") \/ fence_pending_r
mem_stall == mem_trigger /\ ~mem_stall_done_r

\* The cache would be asked while a walk has the bus.
dcache_req_DuringWalk == build.Cached /\ lsu_cyc /\ ~mem_stall_done_r

dcache_req == build.Cached /\ lsu_cyc /\ ~mem_stall_done_r /\ ~ptw_busy
flush_all == fence_pending_r /\ ~ptw_busy /\ ~fence_flush_started_r

reg2_hold == mem_stall \/ dtlb_miss
\* Hazard.v: reg1 waits for the load in EX; a squashed reg1 still reads x0.
stall == memRead_regde /\ reads_rd
pc_stall == stall \/ reg2_hold \/ itlb_miss

ptw_req_d == dtlb_miss
ptw_req_i == itlb_miss /\ ~dtlb_miss
ptw_start == (ptw_req_d \/ ptw_req_i) /\ ~lsu_cyc /\ ~dcache_flush_busy
ptw_vaddr == IF ptw_req_d THEN dtlb_vaddr ELSE pc
ptw_access == IF ptw_req_d THEN access_regde ELSE "x"
ptw_fill_valid == ptw.done /\ ~ptw.fault
ptw_fill_vaddr == IF ptw_servicing_d_r THEN dtlb_vaddr ELSE pc
tlb_flush == sfence_real /\ ~reg2_hold

(***************************************************************************)
(* The program.  In M-mode it sets up the tables and leaves with mret.     *)
(***************************************************************************)
Instructions ==
  IF priv_mode = "M"
  THEN {Nop} \cup {i \in {[op |-> o, page |-> 0] :
                            o \in build.Ops \cap {"remap", "sfence"}}
                          \cup {[op |-> "mret", page |-> p] : p \in build.Code} :
                      ptw_busy => build.Orphans}
  ELSE {[op |-> o, page |-> 0] :
          o \in build.Ops \cap {"nop", "fence", "sfence", "ecall"}}
       \cup {[op |-> "jump", page |-> p] :
               p \in {q \in build.Code : "jump" \in build.Ops}}
       \cup {[op |-> o, page |-> p] :
               o \in build.Ops \cap Accesses, p \in build.Data}
Program ==
  {i \in Instructions :
     reg1.op \in {"sfence", "fence"} /\ i.op \in Accesses => build.Overlap}
Sequel ==
  {next \in {pc, pc + 1} \cap (build.Code \cup {pc}) :
     ifetch_fault_if /\ next # pc => build.Orphans}

\* A walk starts in the cycle in which an access leaves EX for the same bus
\* (no cache), or in which a fence asks for its flush (cache).
Overlaps ==
  /\ ptw_start /\ ~ptw_busy /\ ~ptw.done
  /\ \/ ~build.Cached /\ ~reg2_hold /\ reg2.op \in Accesses
     \/ flush_all

(***************************************************************************)
(* The clock edge.                                                         *)
(***************************************************************************)
\* The instruction that reg1 latches from the fetch.
Fetched(i) == IF ifetch_fault_if THEN [op |-> "ifault", page |-> pc] ELSE i
\* An operand that has left the forwarding window is some older value.
Drifted(page) == CHOOSE p \in Page : p # page

FetchEdge(i, next) ==
  /\ pc' = IF pc_stall THEN pc
           ELSE IF exception_taken THEN 0
           ELSE IF branch_taken THEN reg2.page ELSE next
  /\ reg1' = IF branch_taken THEN Nop
             ELSE IF pc_stall THEN reg1 ELSE Fetched(i)

\* A flush of reg2 makes a bubble that keeps the decode context, and with it
\* the fault of a fetch.
StageEdge ==
  /\ reg2' = IF reg2_hold
             THEN [reg2 EXCEPT !.alu = IF mem_stall \/ reg2.op \notin Accesses
                                       THEN @ ELSE Drifted(reg2.page)]
             ELSE IF branch_taken THEN InEx(Nop)
             ELSE IF (stall \/ itlb_miss) /\ reg1.op # "ifault" THEN InEx(Nop)
             ELSE InEx(reg1)
  /\ reg3' = IF mem_stall THEN reg3
             ELSE IF dtlb_miss \/ exception_taken
                     \/ reg2.op \notin Accesses \cup {"fence"}
             THEN "nop" ELSE reg2.op
  /\ mem_stall_done_r' = (mem_stall /\ mem_access_ready)
  /\ IF reg2_hold /\ ~branch_taken THEN reads_rd' = reads_rd
     ELSE reads_rd' \in {r \in BOOLEAN : r => reg2'.op = "load"}

PrivEdge(low) ==
  priv_mode' = IF reg2_hold THEN priv_mode
               ELSE IF exception_taken THEN "M"
               ELSE IF reg2.op = "mret" THEN low ELSE priv_mode

FenceEdge ==
  /\ fence_pending_r' =
       (/\ dcache # "flushed"
        /\ \/ fence_pending_r
           \/ build.Cached /\ reg2.op = "fence" /\ ~reg2_hold)
  /\ fence_flush_started_r' =
       (fence_pending_r /\ (dcache_flush_busy \/ fence_flush_started_r))

WalkEdge ==
  /\ dtlb_vaddr_r' = IF dtlb_needed /\ ~dtlb_miss_r THEN reg2.alu
                     ELSE dtlb_vaddr_r
  /\ dtlb_miss_r' = dtlb_miss
  /\ ptw_servicing_d_r' = IF ptw_start /\ ~ptw_busy THEN ptw_req_d
                          ELSE ptw_servicing_d_r
  /\ ptw_abandoned_r' = IF ptw_busy /\ branch_taken THEN TRUE
                        ELSE IF ptw.done THEN FALSE ELSE ptw_abandoned_r
  /\ PtwEdge(ptw_start, ptw_vaddr, ptw_access, priv_is_u, lsu_ack,
             IF dcache_m_cyc THEN NoPte ELSE bus.data)
  /\ TlbEdge(tlb_flush, ptw_fill_valid, ptw_fill_vaddr)

\* The bus memory answers a read one cycle later, a write at once.
BusEdge ==
  /\ bus' = [pending |-> wb_m_read,
             data |-> IF ~wb_m_read THEN bus.data
                      ELSE IF ptw_busy THEN ptw_m_pte ELSE NoPte]
  /\ table' = IF wb_m_we /\ reg3 = "remap"
              THEN CHOOSE t \in build.Tables : t # table ELSE table
  /\ synced' = (tlb_flush \/ (synced /\ ~(wb_m_we /\ reg3 = "remap")))

\* The cache's use of the bus: a hit needs none, a miss or a flush has it.
CacheEdge(hit) ==
  dcache' = CASE dcache = "idle" -> IF flush_all THEN "flush"
                                    ELSE IF ~dcache_req THEN "idle"
                                    ELSE IF hit THEN "ready" ELSE "fill"
              [] dcache = "fill" -> "ready"
              [] dcache = "flush" -> "flushed"
              [] OTHER -> "idle"

Next ==
  /\ IF pc_stall \/ branch_taken THEN FetchEdge(Nop, pc)
     ELSE \E i \in Program, next \in Sequel : FetchEdge(i, next)
  /\ \E low \in IF reg2.op = "mret" THEN build.Privs ELSE {"M"} : PrivEdge(low)
  /\ \E hit \in IF dcache_req THEN BOOLEAN ELSE {TRUE} : CacheEdge(hit)
  /\ StageEdge /\ FenceEdge /\ WalkEdge /\ BusEdge
  /\ UNCHANGED build
  /\ build.Overlap \/ ~Overlaps'

\* Every clock edge comes.
Spec == Init /\ [][Next]_vars /\ WF_vars(Next)

(***************************************************************************)
(* Properties                                                              *)
(***************************************************************************)
\* Every register holds a value of its width.
TypeOK ==
  /\ MmuTypeOK
  /\ pc \in Page /\ priv_mode \in {"M", "S", "U"}
  /\ reg1 \in [op : Ops \cup {"mret", "ifault"}, page : Page]
  /\ reg2 \in [op : Ops \cup {"mret", "ifault"}, page : Page, alu : Page]
  /\ reg3 \in Accesses \cup {"nop", "fence"}
  /\ {reads_rd, mem_stall_done_r, fence_pending_r, fence_flush_started_r, dtlb_miss_r,
      ptw_servicing_d_r, ptw_abandoned_r, synced} \subseteq BOOLEAN
  /\ dtlb_vaddr_r \in Page
  /\ bus \in [pending : BOOLEAN, data : Pte]
  /\ dcache \in {"idle", "fill", "ready", "flush", "flushed"}

\* What the TLB holds is what the page tables say, once an sfence.vma has
\* followed the last change to them: no walk that read the old tables fills
\* the TLB afterwards (riscvpipeline.v's flush_all against ptw_fill_valid).
TlbFaithful ==
  synced => \A i \in {0, 1} : tlb[i].valid =>
    /\ Mapped(tlb[i].tag)
    /\ tlb[i].ppn = MappedPpn(tlb[i].tag)
    /\ tlb[i].perm = MappedPerm(tlb[i].tag)

\* An instruction reaches reg1 from the frame the instruction-set simulator
\* (iss.py, translate) fetches it from, and marked as faulting only when the
\* simulator takes a page fault.
FetchRight ==
  synced /\ ~pc_stall /\ ~branch_taken =>
    LET iss == IssPage(pc, "x", priv_mode)
    IN  IF ifetch_fault_if THEN iss.fault
        ELSE ~iss.fault /\ imem_phys_addr = iss.ppn

\* A load or store leaves EX with the frame the simulator accesses for the
\* page it asked for, or with a page fault when the simulator takes one; its
\* operand has long left the forwarding window when the walk ends.
AccessRight ==
  synced /\ dtlb_needed /\ ~reg2_hold =>
    LET iss == IssPage(reg2.page, access_regde, priv_mode)
    IN  IF dtlb_page_fault THEN iss.fault
        ELSE ~iss.fault /\ mem_paddr = iss.ppn

\* The walker and the LSU or the data cache never want the bus at once: the
\* bus multiplexer has no arbiter and would give one of them the answer to
\* the other (riscvpipeline.v's gen_bus_mux_none and gen_bus_mux_cached).
BusExclusive ==
  IF build.Cached THEN ~(ptw_m_cyc /\ dcache_m_cyc) ELSE ~(ptw_busy /\ lsu_cyc)

\* A walk that is not marked abandoned (riscvpipeline.v's ptw_abandoned_r) is
\* awaited: its requester is still where it was, at the same page, in the
\* same privilege mode.  The answer goes to whoever is there when it comes,
\* a fault to the fetch or the access, and a translation into the TLB under
\* the page that is in pc or in EX then, not the one that was looked up.
WalkAwaited ==
  (ptw_busy \/ ptw.done) /\ ~ptw_abandoned_r =>
    /\ translate_enable /\ ptw.is_u = priv_is_u
    /\ IF ptw_servicing_d_r
       THEN dtlb_needed /\ ptw.page = dtlb_vaddr /\ ptw.access = access_regde
       ELSE ptw.page = pc /\ ptw.access = "x"

\* The front end never stalls for ever: every walk ends, every fill lets its
\* requester go on, and two pages that share a TLB entry do not keep
\* evicting each other.
Progress == []<>(~pc_stall)

=============================================================================
