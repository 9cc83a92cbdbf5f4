------------------------------- MODULE DCache --------------------------------
(***************************************************************************)
(* design/DCache.v: a set-associative, write-back, write-allocate cache    *)
(* with round-robin replacement, between the core and the bus.  The core   *)
(* holds a request req (read, write, addr, data, f3) until it is ready;    *)
(* the bus side moves one word per acknowledgement.                        *)
(*                                                                         *)
(* dcache.cur   the request latched at the start of a hit-read or a miss   *)
(*              (hit_*_r, served_addr_r, miss_*_r)                         *)
(* dcache.line  hit_line_r, or the line miss_set_r and miss_way_r name     *)
(* dcache.wb    wb_line_r; wb_base_r follows from its tag, which does not  *)
(*              change while the line is written back                      *)
(* dcache.word  fill_word_r                                                *)
(* A writeback serves a flush exactly when a flush is active, so           *)
(* wb_return_to_flush_r is dcache.active.                                  *)
(***************************************************************************)
EXTENDS RamAdapter, FiniteSets

CONSTANTS WAYS, NUM_SETS, LINE_WORDS

ASSUME CacheAssumption ==
  /\ WAYS \in Nat \ {0} /\ NUM_SETS \in Nat \ {0} /\ LINE_WORDS \in Nat \ {0}
  /\ WORDS % (LINE_WORDS * NUM_SETS) = 0

VARIABLE dcache

Lines == 0 .. NUM_SETS * WAYS - 1
Tags == 0 .. WORDS \div (LINE_WORDS * NUM_SETS) - 1

word_off(addr) == WordOf(addr) % LINE_WORDS
set_idx(addr) == (WordOf(addr) \div LINE_WORDS) % NUM_SETS
tag_of(addr) == WordOf(addr) \div (LINE_WORDS * NUM_SETS)
SetLines(set) == {set * WAYS + way : way \in 0 .. WAYS - 1}
LineBase(line) ==   \* the first byte of the line cached there
  2 * LINE_WORDS * (dcache.tag[line] * NUM_SETS + line \div WAYS)

Idle == [read |-> FALSE, write |-> FALSE, addr |-> 0, data |-> Zero,
         f3 |-> "lw"]

DCacheInit ==
  dcache = [state |-> "IDLE",
            valid |-> [l \in Lines |-> FALSE],
            dirty |-> [l \in Lines |-> FALSE],
            tag |-> [l \in Lines |-> 0],
            data |-> [l \in Lines |-> [w \in 0 .. LINE_WORDS - 1 |-> Zero]],
            victim |-> [s \in 0 .. NUM_SETS - 1 |-> 0],
            cur |-> Idle, line |-> 0, wb |-> 0, word |-> 0,
            scan |-> 0, active |-> FALSE, done |-> FALSE]

way_hit(addr) ==
  {l \in SetLines(set_idx(addr)) : dcache.valid[l]
                                   /\ dcache.tag[l] = tag_of(addr)}

\* Only the first way would be compared.
hit_FirstWay(addr) == \E l \in way_hit(addr) : l % WAYS = 0

hit(addr) == way_hit(addr) # {}
hit_line_idx(addr) == CHOOSE l \in way_hit(addr) : TRUE

fill_is_last_word == dcache.word = LINE_WORDS - 1

fill_value(rdata) ==
  IF dcache.cur.write /\ dcache.word = word_off(dcache.cur.addr)
  THEN Merge(rdata, dcache.cur.f3, LaneOf(dcache.cur.addr), dcache.cur.data)
  ELSE rdata

\* A completing read would answer whatever request is live.
hit_rd_ready_AnyAddr(req) == dcache.state = "HIT_RD" /\ req.read

\* The pulses that answer the live request only if it is the latched one.
hit_rd_ready(req) ==
  dcache.state = "HIT_RD" /\ req.read /\ req.addr = dcache.cur.addr
fill_ready(req, ack) ==
  /\ dcache.state = "FILL" /\ ack /\ fill_is_last_word
  /\ req.read \/ req.write
  /\ req.addr = dcache.cur.addr
resp_ready(req, ack) ==
  \/ dcache.state = "IDLE" /\ hit(req.addr) /\ req.write
  \/ hit_rd_ready(req)
  \/ fill_ready(req, ack)

\* Extended by the width latched with the request.
resp_rdata(req, ack, rdata) ==
  LET cur == dcache.cur
      word == IF hit_rd_ready(req)
              THEN dcache.data[dcache.line][word_off(cur.addr)]
              ELSE fill_value(rdata)
  IN  IF hit_rd_ready(req) \/ fill_ready(req, ack)
      THEN Extend(word, cur.f3, LaneOf(cur.addr)) ELSE Zero

dcache_bus ==
  LET base == IF dcache.state = "WB" THEN LineBase(dcache.wb)
              ELSE dcache.cur.addr - (dcache.cur.addr % (2 * LINE_WORDS))
  IN  [cyc |-> dcache.state \in {"WB", "FILL"},
       we |-> dcache.state = "WB",
       addr |-> IF dcache.state \in {"WB", "FILL"}
                THEN base + 2 * dcache.word ELSE 0,
       data |-> IF dcache.state = "WB"
                THEN dcache.data[dcache.wb][dcache.word] ELSE Zero,
       f3 |-> IF dcache.state = "WB" THEN "sw" ELSE "lw"]

(***************************************************************************)
(* The state machine.  Each operator is the next value of dcache; done has *)
(* already been reset to its default.                                      *)
(***************************************************************************)
FlushStart(d) ==
  [d EXCEPT !.active = TRUE, !.scan = 0, !.state = "SCAN"]

WriteHit(d, req) ==
  LET l == hit_line_idx(req.addr)
  IN  [d EXCEPT !.data[l][word_off(req.addr)] =
                  Merge(@, req.f3, LaneOf(req.addr), req.data),
                !.dirty[l] = TRUE]

ReadHit(d, req) ==
  [d EXCEPT !.line = hit_line_idx(req.addr), !.cur = req, !.state = "HIT_RD"]

\* A dirty victim would be dropped.
Miss_NoWriteback(d, req) ==
  LET victim == set_idx(req.addr) * WAYS + d.victim[set_idx(req.addr)]
  IN  [d EXCEPT !.line = victim, !.cur = req, !.word = 0, !.wb = victim,
                !.state = "FILL"]

Miss(d, req) ==
  LET victim == set_idx(req.addr) * WAYS + d.victim[set_idx(req.addr)]
      evicts == d.valid[victim] /\ d.dirty[victim]
  IN  [d EXCEPT !.line = victim, !.cur = req, !.word = 0,
                !.wb = IF evicts THEN victim ELSE @,
                !.state = IF evicts THEN "WB" ELSE "FILL"]

\* After a line of the scan is clean: the next line, or the end.
ScanOn(d) ==
  IF d.scan = NUM_SETS * WAYS - 1
  THEN [d EXCEPT !.active = FALSE, !.done = TRUE, !.state = "IDLE"]
  ELSE [d EXCEPT !.scan = @ + 1, !.state = "SCAN"]

WriteBackWord(d) ==
  IF ~fill_is_last_word THEN [d EXCEPT !.word = @ + 1]
  ELSE LET clean == [d EXCEPT !.dirty[d.wb] = FALSE]
       IN  IF d.active THEN ScanOn(clean)
           ELSE [clean EXCEPT !.word = 0, !.state = "FILL"]

FillWord(d, rdata) ==
  LET filled == [d EXCEPT !.data[d.line][d.word] = fill_value(rdata)]
  IN  IF ~fill_is_last_word THEN [filled EXCEPT !.word = @ + 1]
      ELSE [filled EXCEPT
              !.valid[d.line] = TRUE,
              !.tag[d.line] = tag_of(d.cur.addr),
              !.dirty[d.line] = d.cur.write,
              !.victim[set_idx(d.cur.addr)] = (d.line + 1) % WAYS,
              !.state = "IDLE"]

ScanLine(d) ==
  IF d.valid[d.scan] /\ d.dirty[d.scan]
  THEN [d EXCEPT !.wb = d.scan, !.word = 0, !.state = "WB"]
  ELSE ScanOn(d)

\* What an idle cache does with the live request.
Accept(d, req) ==
  IF ~hit(req.addr) THEN Miss(d, req)
  ELSE IF req.write THEN WriteHit(d, req) ELSE ReadHit(d, req)

DCacheEdge(req, flush_all, ack, rdata) ==
  LET d == [dcache EXCEPT !.done = FALSE]
  IN  dcache' =
        CASE d.state = "IDLE" ->
               IF flush_all /\ ~d.active THEN FlushStart(d)
               ELSE IF req.read \/ req.write THEN Accept(d, req) ELSE d
          [] d.state = "HIT_RD" -> [d EXCEPT !.state = "IDLE"]
          [] d.state = "WB" -> IF ack THEN WriteBackWord(d) ELSE d
          [] d.state = "FILL" -> IF ack THEN FillWord(d, rdata) ELSE d
          [] d.state = "SCAN" -> ScanLine(d)

DCacheTypeOK ==
  dcache \in
    [state : {"IDLE", "HIT_RD", "WB", "FILL", "SCAN"},
     valid : [Lines -> BOOLEAN], dirty : [Lines -> BOOLEAN],
     tag : [Lines -> Tags],
     data : [Lines -> [0 .. LINE_WORDS - 1 -> Word]],
     victim : [0 .. NUM_SETS - 1 -> 0 .. WAYS - 1],
     cur : [read : BOOLEAN, write : BOOLEAN, addr : Address, data : Word,
            f3 : LoadWidths \cup StoreWidths],
     line : Lines, wb : Lines, word : 0 .. LINE_WORDS - 1,
     scan : Lines, active : BOOLEAN, done : BOOLEAN]

\* What a load would find: the cached copy of a word, or the memory's.
Copy(w) ==
  IF way_hit(2 * w) # {} THEN dcache.data[hit_line_idx(2 * w)][word_off(2 * w)]
  ELSE ram.mem[w]

=============================================================================
