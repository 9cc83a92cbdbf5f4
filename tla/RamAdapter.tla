----------------------------- MODULE RamAdapter ------------------------------
(***************************************************************************)
(* The data memory at the far end of the bus: design/DataMemoryBRAM.v      *)
(* behind design/RamWishboneAdapter.v, and the MEM_LATENCY_D wrapper that  *)
(* design/riscvpipeline.v puts around them (MemoryLatencyModel.v).         *)
(*                                                                         *)
(* A word has two bytes of one bit each; addresses count bytes.  A bus     *)
(* request is a record: cyc (cyc and stb, always driven together), we,     *)
(* addr, data and the side-band width f3.                                  *)
(*                                                                         *)
(* ram.read is raw_word_r already extended by funct3_r: both are latched   *)
(* at the same edge, and seen only when mem_read_r is set, which always    *)
(* equals the adapter's mem_read_pending_r.                                *)
(***************************************************************************)
EXTENDS Integers

CONSTANTS Builds,   \* the builds, and the programs run on them, to consider
          WORDS     \* the size of the memory in words

ASSUME WordsAssumption == WORDS \in Nat \ {0}

VARIABLES build,    \* Latency is MEM_LATENCY_D
          ram

Lanes == 0 .. 1
Word == [Lanes -> 0 .. 1]
Zero == [i \in Lanes |-> 0]
Address == 0 .. 2 * WORDS - 1
WordOf(addr) == addr \div 2
LaneOf(addr) == addr % 2

LoadWidths == {"lw", "lb", "lbu"}
StoreWidths == {"sw", "sb"}

\* A loaded word, cut to the width of the load and sign- or zero-extended.
Extend(word, f3, lane) ==
  CASE f3 = "lb"  -> [i \in Lanes |-> word[lane]]
    [] f3 = "lbu" -> [i \in Lanes |-> IF i = 0 THEN word[lane] ELSE 0]
    [] OTHER      -> word

\* A word after a store of some width into it.
Merge(word, f3, lane, data) ==
  IF f3 = "sb" THEN [word EXCEPT ![lane] = data[0]] ELSE data

LoadFrom(mem, addr, f3) == Extend(mem[WordOf(addr)], f3, LaneOf(addr))
StoreTo(mem, addr, f3, data) ==
  [mem EXCEPT ![WordOf(addr)] = Merge(@, f3, LaneOf(addr), data)]

RamInit(mem) ==
  ram = [mem |-> mem, pending |-> FALSE, read |-> Zero, active |-> FALSE,
         addr |-> 0, we |-> FALSE, busy |-> FALSE, count |-> 0,
         done |-> FALSE, captured |-> FALSE, data |-> Zero]

NoRequest == [cyc |-> FALSE, we |-> FALSE, addr |-> 0, data |-> Zero,
              f3 |-> "lw"]

ram_ack_raw(bus) == (bus.cyc /\ bus.we) \/ ram.pending
ram_data_raw == IF ram.pending THEN ram.read ELSE Zero

\* What the master of the bus sees in this cycle.
wb_ack(bus) == IF build.Latency = 0 THEN ram_ack_raw(bus) ELSE ram.done
wb_data == IF build.Latency = 0 THEN ram_data_raw ELSE ram.data

\* Both masters hold cyc across requests: a new one has another address.
is_new_request(bus) ==
  bus.cyc /\ (~ram.active \/ bus.addr # ram.addr \/ bus.we # ram.we)

\* MemoryLatencyModel: done pulses Latency cycles after busy rises.
LatencyEdge(r, start) ==
  LET starts == start /\ ~ram.busy
      ends == ram.busy /\ ram.count = 0
  IN  [r EXCEPT !.busy = starts \/ (ram.busy /\ ~ends),
                !.count = IF starts THEN build.Latency - 1
                          ELSE IF ram.busy /\ ~ends THEN @ - 1 ELSE @,
                !.done = ends]

\* The request being served and the first answer to it.
CaptureEdge(r, bus) ==
  LET new == is_new_request(bus)
      capture == ~new /\ ram_ack_raw(bus) /\ ~ram.captured
  IN  [r EXCEPT !.active = new \/ (@ /\ ~ram.done),
                !.addr = IF new THEN bus.addr ELSE @,
                !.we = IF new THEN bus.we ELSE @,
                !.captured = ~new /\ (@ \/ capture),
                !.data = IF capture THEN ram_data_raw ELSE @]

\* The memory array and its read port.
BramEdge(bus) ==
  LET reads == bus.cyc /\ ~bus.we
      writes == bus.cyc /\ bus.we
  IN  [ram EXCEPT
         !.mem = IF writes THEN StoreTo(@, bus.addr, bus.f3, bus.data) ELSE @,
         !.pending = reads,
         !.read = IF reads THEN LoadFrom(ram.mem, bus.addr, bus.f3) ELSE @]

RamEdge(bus) ==
  ram' = IF build.Latency = 0 THEN BramEdge(bus)
         ELSE LatencyEdge(CaptureEdge(BramEdge(bus), bus),
                          is_new_request(bus))

RamTypeOK ==
  ram \in [mem : [0 .. WORDS - 1 -> Word], pending : BOOLEAN, read : Word,
           active : BOOLEAN, addr : Address, we : BOOLEAN, busy : BOOLEAN,
           count : Nat, done : BOOLEAN, captured : BOOLEAN, data : Word]

=============================================================================
