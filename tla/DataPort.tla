------------------------------ MODULE DataPort -------------------------------
(***************************************************************************)
(* The MEM stage of design/riscvpipeline.v and its memory, one Next step   *)
(* per clock cycle: the load, store or fence in reg3, mem_stall, and       *)
(* either the bus directly (CACHE_NONE) or the data cache.  There is no    *)
(* page walk here; module Mmu has those.                                   *)
(*                                                                         *)
(* When MEM moves on, EX may hold any access of the build's program.       *)
(* flat is the memory the program should see: every store that has left    *)
(* MEM, in order.                                                          *)
(***************************************************************************)
EXTENDS DCache

CONSTANT STORES   \* bound: the number of stores a program makes

ASSUME StoresAssumption == STORES \in Nat

(***************************************************************************)
(* A build: the elaboration parameters and the program's accesses.         *)
(***************************************************************************)
Build ==
  [Cached  : BOOLEAN,              \* CACHE_WRITEBACK_SETASSOC?
   Latency : Nat,                   \* MEM_LATENCY_D
   Ops     : SUBSET {"load", "store", "fence"},
   LoadAddrs  : SUBSET Address,
   StoreAddrs : SUBSET Address,
   Widths  : SUBSET (LoadWidths \cup StoreWidths),
   Rewiden : BOOLEAN]   \* may a load repeat an address with another width?

ASSUME BuildsAssumption == Builds \subseteq Build

VARIABLES reg3, mem_stall_done_r, dcache_rdata_captured_r, fence_pending_r,
          fence_flush_started_r, flat, stores

vars == <<build, ram, dcache, reg3, mem_stall_done_r,
          dcache_rdata_captured_r, fence_pending_r, fence_flush_started_r,
          flat, stores>>

StoreData == {w \in Word : w[0] = 1}   \* two values, neither of them Zero
Aligned(addr, f3) == f3 \in {"lw", "sw"} => LaneOf(addr) = 0
Bubble == [op |-> "nop", addr |-> 0, f3 |-> "lw", data |-> Zero]

\* What the program may put behind the instruction in MEM.
Loads ==
  {[op |-> "load", addr |-> a, f3 |-> f, data |-> Zero] :
     a \in build.LoadAddrs, f \in build.Widths \cap LoadWidths}
Stores ==
  {[op |-> "store", addr |-> a, f3 |-> f, data |-> w] :
     a \in build.StoreAddrs, f \in build.Widths \cap StoreWidths,
     w \in StoreData}
Instructions ==
  {Bubble} \cup {[Bubble EXCEPT !.op = "fence"]} \cup Loads \cup Stores
Program ==
  {i \in Instructions :
     /\ i.op \in build.Ops \cup {"nop"}
     /\ i.op \in {"load", "store"} => Aligned(i.addr, i.f3)
     /\ i.op = "store" => stores < STORES
     /\ i.op = "load" /\ reg3.op = "load" /\ i.addr = reg3.addr
          => build.Rewiden \/ i.f3 = reg3.f3}

Init ==
  /\ build \in Builds
  /\ flat = [w \in 0 .. WORDS - 1 |-> Zero]
  /\ RamInit(flat) /\ DCacheInit
  /\ reg3 = Bubble /\ stores = 0
  /\ mem_stall_done_r = FALSE /\ dcache_rdata_captured_r = Zero
  /\ fence_pending_r = FALSE /\ fence_flush_started_r = FALSE

(***************************************************************************)
(* The wires.                                                              *)
(***************************************************************************)
memRead_regem == reg3.op = "load"
memWrite_regem == reg3.op = "store"

lsu_bus ==
  IF memRead_regem \/ memWrite_regem
  THEN [cyc |-> TRUE, we |-> memWrite_regem, addr |-> reg3.addr,
        data |-> reg3.data, f3 |-> reg3.f3]
  ELSE NoRequest
wb_m == IF build.Cached THEN dcache_bus ELSE lsu_bus
lsu_ack == wb_ack(wb_m)

dcache_req ==
  IF build.Cached /\ (memRead_regem \/ memWrite_regem)
  THEN [read |-> memRead_regem, write |-> memWrite_regem,
        addr |-> reg3.addr, data |-> reg3.data, f3 |-> reg3.f3]
  ELSE Idle
dcache_resp_ready == build.Cached /\ resp_ready(dcache_req, lsu_ack)

mem_access_ready ==
  IF ~build.Cached THEN lsu_ack
  ELSE IF fence_pending_r THEN dcache.done ELSE dcache_resp_ready
mem_trigger ==
  IF ~build.Cached THEN memRead_regem \/ (memWrite_regem /\ ~lsu_ack)
  ELSE \/ memRead_regem
       \/ memWrite_regem /\ ~dcache_resp_ready
       \/ fence_pending_r
mem_stall == mem_trigger /\ ~mem_stall_done_r

\* The flush would be requested for as long as the fence waits.
flush_all_Held == fence_pending_r

flush_all == fence_pending_r /\ ~fence_flush_started_r

\* What reg4 latches for a load that leaves MEM.
load_data == IF build.Cached THEN dcache_rdata_captured_r ELSE wb_data

(***************************************************************************)
(* The clock edge, with instruction i in EX.                               *)
(***************************************************************************)
\* A fence that has been answered would keep waiting.
FenceEdge_NeverCleared(i) ==
  /\ fence_pending_r' =
       (fence_pending_r \/ (build.Cached /\ i.op = "fence" /\ ~mem_stall))
  /\ fence_flush_started_r' =
       (fence_pending_r /\ (dcache.active \/ fence_flush_started_r))

FenceEdge(i) ==
  /\ fence_pending_r' =
       (/\ ~dcache.done
        /\ \/ fence_pending_r
           \/ build.Cached /\ i.op = "fence" /\ ~mem_stall)
  /\ fence_flush_started_r' =
       (fence_pending_r /\ (dcache.active \/ fence_flush_started_r))

MemEdge(i) ==
  /\ reg3' = IF mem_stall THEN reg3 ELSE i
  /\ mem_stall_done_r' = (mem_stall /\ mem_access_ready)
  /\ dcache_rdata_captured_r' =
       IF dcache_resp_ready THEN resp_rdata(dcache_req, lsu_ack, wb_data)
       ELSE dcache_rdata_captured_r
  /\ stores' = IF ~mem_stall /\ i.op = "store" THEN stores + 1 ELSE stores
  /\ flat' = IF memWrite_regem /\ ~mem_stall
             THEN StoreTo(flat, reg3.addr, reg3.f3, reg3.data) ELSE flat

Next ==
  /\ \E i \in IF mem_stall THEN {Bubble} ELSE Program :
       MemEdge(i) /\ FenceEdge(i)
  /\ DCacheEdge(dcache_req, flush_all, lsu_ack, wb_data)
  /\ RamEdge(wb_m)
  /\ UNCHANGED build

Spec == Init /\ [][Next]_vars /\ WF_vars(Next)

(***************************************************************************)
(* Properties.                                                             *)
(***************************************************************************)
TypeOK ==
  /\ build \in Builds
  /\ RamTypeOK /\ DCacheTypeOK
  /\ reg3 \in Instructions
  /\ mem_stall_done_r \in BOOLEAN /\ dcache_rdata_captured_r \in Word
  /\ fence_pending_r \in BOOLEAN /\ fence_flush_started_r \in BOOLEAN
  /\ flat \in [0 .. WORDS - 1 -> Word] /\ stores \in 0 .. STORES

\* A load leaves MEM with the bytes that the stores before it, in program
\* order, put at its address, extended as its own width asks, through any
\* sequence of hits, misses, evictions and fences.
LoadsRight ==
  memRead_regem /\ ~mem_stall
    => load_data = LoadFrom(flat, reg3.addr, reg3.f3)

\* No store is lost or applied twice with older data, and no line is torn:
\* apart from a store still in MEM and the line being filled, the copy a
\* load would find (cache line, else memory) is what the program stored.
Coherent ==
  ~memWrite_regem =>
    \A w \in 0 .. WORDS - 1 :
      \/ dcache.state = "FILL" /\ dcache.line \in way_hit(2 * w)
      \/ Copy(w) = flat[w]

\* DCache.v takes the OR of all ways that hit, because "at most one way can
\* ever validly hit": no address is ever cached in two ways.
OneWay == \A w \in 0 .. WORDS - 1 : Cardinality(way_hit(2 * w)) <= 1

\* A fence leaves MEM only when every store before it is in memory itself
\* and no line is dirty, and a flush only ever runs for a waiting fence.
FenceFlushes ==
  /\ reg3.op = "fence" /\ ~mem_stall
       => ram.mem = flat /\ \A l \in Lines : ~dcache.dirty[l]
  /\ dcache.active => fence_pending_r

\* MEM is never stuck: an access, a miss with an eviction, or a fence that
\* waits for its flush is over after finitely many cycles.
Progress == []<>~mem_stall

=============================================================================
