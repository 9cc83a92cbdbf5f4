----------------------------- MODULE DataPortProofs ---------------------------
(***************************************************************************)
(* Proofs about module DataPort.  First that no address is cached twice,   *)
(* for every geometry (WAYS, NUM_SETS, LINE_WORDS), every latency of the   *)
(* memory behind the cache and every program, also in the builds whose     *)
(* refills go wrong.  Then that loads return what program order stored,    *)
(* with and without the cache (Coherent, LoadsRight, FenceFlushes), for    *)
(* every geometry, latency, number of stores and program of the builds     *)
(* that are supported.                                                     *)
(***************************************************************************)
EXTENDS DataPort, ArithmeticLemmas

Sets == 0 .. NUM_SETS - 1

\* A refill is under way, or the writeback that makes room for it.
Refilling ==
  dcache.state = "FILL" \/ (dcache.state = "WB" /\ ~dcache.active)

Fields == {"state", "valid", "dirty", "tag", "data", "victim", "cur",
           "line", "wb", "word", "scan", "active", "done"}

\* The part of the cache's state that decides which lines hit.
Shape ==
  /\ DOMAIN dcache = Fields
  /\ dcache.state \in {"IDLE", "HIT_RD", "WB", "FILL", "SCAN"}
  /\ dcache.valid \in [Lines -> BOOLEAN]
  /\ dcache.tag \in [Lines -> Int]
  /\ dcache.victim \in [Sets -> 0 .. WAYS - 1]
  /\ dcache.cur.addr \in Nat

\* The request MEM makes has an address.
Requests == build \in Builds /\ reg3.addr \in Nat

TagsUnique ==
  \A s \in Sets : \A k, l \in SetLines(s) :
    dcache.valid[k] /\ dcache.valid[l] /\ dcache.tag[k] = dcache.tag[l] => k = l

\* A refill goes to a line of the missing address's set, and until its last
\* word the address is in no way: the victim keeps its old tag.
MissOpen ==
  Refilling => /\ dcache.line \in SetLines(set_idx(dcache.cur.addr))
               /\ way_hit(dcache.cur.addr) = {}

\* A flush is never under way where a refill or a request is taken up, and
\* only a flush scans.
FlushApart == /\ dcache.active => dcache.state \in {"SCAN", "WB"}
              /\ dcache.state = "SCAN" => dcache.active

IInv == Requests /\ Shape /\ TagsUnique /\ MissOpen /\ FlushApart

----------------------------------------------------------------------------
(* The geometry: which lines belong to which set.                          *)

\* Every address has a set.
LEMMA AddressSet ==
    ASSUME NEW a \in Nat
    PROVE  set_idx(a) \in Sets
<1>1. WordOf(a) \in Nat
  BY DEF WordOf
<1>2. LINE_WORDS \in Nat \ {0} /\ NUM_SETS \in Nat \ {0}
  BY CacheAssumption, Zenon
<1>3. WordOf(a) \div LINE_WORDS \in Int
  BY <1>1, <1>2
<1>4. (WordOf(a) \div LINE_WORDS) % NUM_SETS \in 0 .. NUM_SETS - 1
  BY <1>2, <1>3
<1>5. QED
  BY <1>4, Zenon DEF set_idx, Sets

\* The lines of a set are lines of the cache.
LEMMA SetInCache ==
    ASSUME NEW s \in Sets
    PROVE  SetLines(s) \subseteq Lines
<1> SUFFICES ASSUME NEW way \in 0 .. WAYS - 1
             PROVE  s * WAYS + way \in Lines
  BY Zenon DEF SetLines
<1>1. WAYS \in Nat \ {0} /\ NUM_SETS \in Nat \ {0} /\ s \in 0 .. NUM_SETS - 1
  BY CacheAssumption, Zenon DEF Sets
<1>2. s * WAYS \in Nat /\ (NUM_SETS - 1 - s) * WAYS \in Nat
  BY <1>1
<1>3. (NUM_SETS - 1 - s) * WAYS = NUM_SETS * WAYS - WAYS - s * WAYS
  BY <1>1
<1>4. NUM_SETS * WAYS \in Nat
  BY <1>1
<1>5. QED
  BY <1>1, <1>2, <1>3, <1>4 DEF Lines

\* No line belongs to two sets.
LEMMA SetsApart ==
    ASSUME NEW s \in Sets, NEW t \in Sets, NEW l \in SetLines(s) \cap SetLines(t)
    PROVE  s = t
<1>1. WAYS \in Nat \ {0} /\ s \in Nat /\ t \in Nat
  BY CacheAssumption DEF Sets
<1>2. PICK v \in 0 .. WAYS - 1 : l = s * WAYS + v
  BY Zenon DEF SetLines
<1>3. PICK w \in 0 .. WAYS - 1 : l = t * WAYS + w
  BY Zenon DEF SetLines
<1>4. ASSUME NEW p \in Nat, NEW q \in Nat, p < q
      PROVE  q * WAYS >= p * WAYS + WAYS
  <2>1. (q - p - 1) * WAYS \in Nat
    BY <1>1, <1>4
  <2>2. (q - p - 1) * WAYS = q * WAYS - p * WAYS - WAYS
    BY <1>1, <1>4
  <2>3. q * WAYS \in Int /\ p * WAYS \in Int
    BY <1>1, <1>4
  <2>4. QED
    BY <2>1, <2>2, <2>3, <1>1
<1>5. s * WAYS \in Int /\ t * WAYS \in Int
  BY <1>1
<1>6. ~(s < t)
  BY <1>1, <1>2, <1>3, <1>4, <1>5
<1>7. ~(t < s)
  BY <1>1, <1>2, <1>3, <1>4, <1>5
<1>8. QED
  BY <1>1, <1>6, <1>7

----------------------------------------------------------------------------
(* What the operations of the cache do to the tags and the valid bits.     *)

\* e differs from d neither in the tags nor in which lines are valid.
Quiet(e, d) ==
  /\ DOMAIN e = DOMAIN d
  /\ e.valid = d.valid /\ e.tag = d.tag /\ e.victim = d.victim

\* The start of a flush and its way through the lines leave tags and valid
\* bits alone.
LEMMA FlushSteps ==
    ASSUME NEW d, DOMAIN d = Fields
    PROVE  /\ Quiet(FlushStart(d), d)
           /\ FlushStart(d).state = "SCAN" /\ FlushStart(d).active
           /\ FlushStart(d).cur = d.cur
           /\ Quiet(ScanOn(d), d)
           /\ ScanOn(d).cur = d.cur
           /\ \/ ScanOn(d).state = "IDLE" /\ ~ScanOn(d).active
              \/ ScanOn(d).state = "SCAN" /\ ScanOn(d).active = d.active
BY Zenon DEF Fields, Quiet, FlushStart, ScanOn

\* So do hits.
LEMMA HitSteps ==
    ASSUME NEW d, DOMAIN d = Fields, NEW req
    PROVE  /\ Quiet(WriteHit(d, req), d)
           /\ WriteHit(d, req).state = d.state
           /\ WriteHit(d, req).active = d.active
           /\ WriteHit(d, req).cur = d.cur
           /\ Quiet(ReadHit(d, req), d)
           /\ ReadHit(d, req).state = "HIT_RD"
           /\ ReadHit(d, req).active = d.active
           /\ ReadHit(d, req).cur = req
BY Zenon DEF Fields, Quiet, WriteHit, ReadHit

\* And the look at the next line of a flush.
LEMMA ScanStep ==
    ASSUME NEW d, DOMAIN d = Fields, d.active
    PROVE  /\ Quiet(ScanLine(d), d)
           /\ ScanLine(d).cur = d.cur
           /\ \/ ScanLine(d).state = "IDLE" /\ ~ScanLine(d).active
              \/ ScanLine(d).state \in {"SCAN", "WB"} /\ ScanLine(d).active
<1>1. CASE d.valid[d.scan] /\ d.dirty[d.scan]
  BY <1>1, Zenon DEF Fields, Quiet, ScanLine
<1>2. CASE ~(d.valid[d.scan] /\ d.dirty[d.scan])
  BY <1>2, FlushSteps, Zenon DEF ScanLine
<1>3. QED
  BY <1>1, <1>2, Zenon

\* A miss opens a refill of the set's victim.
LEMMA MissStep ==
    ASSUME NEW d, DOMAIN d = Fields, NEW req
    PROVE  /\ Quiet(Miss(d, req), d)
           /\ Miss(d, req).cur = req /\ Miss(d, req).active = d.active
           /\ Miss(d, req).state \in {"WB", "FILL"}
           /\ Miss(d, req).line
                = set_idx(req.addr) * WAYS + d.victim[set_idx(req.addr)]
BY Zenon DEF Fields, Quiet, Miss

\* A written word changes no tag; the last one goes on with the flush, or
\* with the refill the writeback made room for.
LEMMA WriteBackStep ==
    ASSUME NEW d, DOMAIN d = Fields, d.state = "WB"
    PROVE  /\ Quiet(WriteBackWord(d), d)
           /\ WriteBackWord(d).cur = d.cur
           /\ \/ /\ WriteBackWord(d).state = "WB"
                 /\ WriteBackWord(d).active = d.active
                 /\ WriteBackWord(d).line = d.line
              \/ /\ d.active
                 /\ \/ WriteBackWord(d).state = "IDLE" /\ ~WriteBackWord(d).active
                    \/ WriteBackWord(d).state = "SCAN" /\ WriteBackWord(d).active
              \/ /\ WriteBackWord(d).state = "FILL"
                 /\ ~d.active /\ ~WriteBackWord(d).active
                 /\ WriteBackWord(d).line = d.line
<1> DEFINE clean == [d EXCEPT !.dirty[d.wb] = FALSE]
<1>1. CASE ~fill_is_last_word
  BY <1>1, Zenon DEF Fields, Quiet, WriteBackWord
<1>2. DOMAIN clean = Fields /\ Quiet(clean, d) /\ clean.cur = d.cur
      /\ clean.active = d.active /\ clean.line = d.line
  BY Zenon DEF Fields, Quiet
<1>3. CASE fill_is_last_word /\ d.active
  <2>1. WriteBackWord(d) = ScanOn(clean)
    BY <1>3, Zenon DEF WriteBackWord
  <2> HIDE DEF clean
  <2>2. /\ Quiet(ScanOn(clean), clean) /\ ScanOn(clean).cur = clean.cur
        /\ \/ ScanOn(clean).state = "IDLE" /\ ~ScanOn(clean).active
           \/ ScanOn(clean).state = "SCAN" /\ ScanOn(clean).active = clean.active
    BY <1>2, FlushSteps, Zenon
  <2>3. QED
    BY <2>1, <2>2, <1>2, <1>3, Zenon DEF Quiet
<1>4. CASE fill_is_last_word /\ ~d.active
  <2>1. WriteBackWord(d) = [clean EXCEPT !.word = 0, !.state = "FILL"]
    BY <1>4, Zenon DEF WriteBackWord
  <2> HIDE DEF clean
  <2>2. QED
    BY <2>1, <1>2, <1>4, Zenon DEF Quiet, Fields
<1>5. QED
  BY <1>1, <1>3, <1>4, Zenon

\* A filled word changes no tag but the last one, which makes the line valid
\* under the tag of the address that missed.
LEMMA FillStep ==
    ASSUME NEW d, DOMAIN d = Fields, NEW rdata
    PROVE  LET e == FillWord(d, rdata)
           IN  /\ e.cur = d.cur /\ e.active = d.active /\ e.line = d.line
               /\ DOMAIN e = Fields
               /\ \/ Quiet(e, d) /\ e.state = d.state
                  \/ /\ e.state = "IDLE"
                     /\ e.valid = [d.valid EXCEPT ![d.line] = TRUE]
                     /\ e.tag = [d.tag EXCEPT ![d.line] = tag_of(d.cur.addr)]
                     /\ e.victim = [d.victim EXCEPT ![set_idx(d.cur.addr)] =
                                      (d.line + 1) % WAYS]
<1> DEFINE filled == [d EXCEPT !.data[d.line][d.word] = fill_value(rdata)]
<1>1. /\ DOMAIN filled = Fields /\ Quiet(filled, d) /\ filled.cur = d.cur
      /\ filled.active = d.active /\ filled.line = d.line
      /\ filled.state = d.state
  BY Zenon DEF Fields, Quiet
<1>2. CASE ~fill_is_last_word
  <2>1. FillWord(d, rdata) = [filled EXCEPT !.word = @ + 1]
    BY <1>2, Zenon DEF FillWord
  <2> HIDE DEF filled
  <2>2. QED
    BY <1>1, <2>1, Zenon DEF Quiet, Fields
<1>3. CASE fill_is_last_word
  <2>1. FillWord(d, rdata) =
          [filled EXCEPT
              !.valid[d.line] = TRUE,
              !.tag[d.line] = tag_of(d.cur.addr),
              !.dirty[d.line] = d.cur.write,
              !.victim[set_idx(d.cur.addr)] = (d.line + 1) % WAYS,
              !.state = "IDLE"]
    BY <1>3, Zenon DEF FillWord
  <2> HIDE DEF filled
  <2>2. QED
    BY <1>1, <2>1 DEF Quiet, Fields
<1>4. QED
  BY <1>2, <1>3, Zenon

----------------------------------------------------------------------------
(* The invariant.                                                          *)

\* The address of the request the cache sees is one.
LEMMA RequestAddress ==
    ASSUME Requests
    PROVE  dcache_req.addr \in Nat
BY Zenon DEF Requests, dcache_req, Idle

\* While tags and valid bits stay, so do the uniqueness of the tags and the
\* set of lines an address hits.
LEMMA QuietEdge ==
    ASSUME Shape, TagsUnique, Quiet(dcache', dcache),
           dcache'.state \in {"IDLE", "HIT_RD", "WB", "FILL", "SCAN"},
           dcache'.cur.addr \in Nat
    PROVE  Shape' /\ TagsUnique' /\ \A a : way_hit(a)' = way_hit(a)
<1>1. Shape'
  BY Zenon DEF Shape, Quiet
<1>2. TagsUnique'
  BY Zenon DEF TagsUnique, Quiet
<1>3. \A a : way_hit(a)' = way_hit(a)
  BY Zenon DEF way_hit, Quiet
<1>4. QED
  BY <1>1, <1>2, <1>3, Zenon

\* Every address has a tag.
LEMMA AddressTag ==
    ASSUME NEW a \in Nat
    PROVE  tag_of(a) \in Int
<1>1. LINE_WORDS \in Nat \ {0} /\ NUM_SETS \in Nat \ {0}
  BY CacheAssumption, Zenon
<1>2. LINE_WORDS * NUM_SETS \in Nat \ {0}
  BY <1>1
<1>3. a \div 2 \in Nat
  OBVIOUS
<1>4. QED
  BY <1>2, <1>3 DEF tag_of, WordOf

\* The last word of a refill keeps the tags of each set distinct, because
\* the address was in no way of its set.
LEMMA FillEdge ==
    ASSUME Shape, TagsUnique,
           dcache.line \in SetLines(set_idx(dcache.cur.addr)),
           way_hit(dcache.cur.addr) = {},
           DOMAIN dcache' = Fields, dcache'.state = "IDLE",
           dcache'.cur = dcache.cur,
           dcache'.valid = [dcache.valid EXCEPT ![dcache.line] = TRUE],
           dcache'.tag =
             [dcache.tag EXCEPT ![dcache.line] = tag_of(dcache.cur.addr)],
           dcache'.victim =
             [dcache.victim EXCEPT ![set_idx(dcache.cur.addr)] =
                                     (dcache.line + 1) % WAYS]
    PROVE  Shape' /\ TagsUnique'
<1> DEFINE set == set_idx(dcache.cur.addr)
           tag == tag_of(dcache.cur.addr)
           line == dcache.line
<1>1. set \in Sets /\ tag \in Int
  BY AddressSet, AddressTag, Zenon DEF Shape
<1>2. line \in Lines
  BY <1>1, SetInCache, Zenon
<1>3. (line + 1) % WAYS \in 0 .. WAYS - 1
  BY <1>2, CacheAssumption DEF Lines
<1>4. Shape'
  BY <1>1, <1>2, <1>3 DEF Shape
<1>5. \A l \in SetLines(set) : ~(dcache.valid[l] /\ dcache.tag[l] = tag)
  BY Zenon DEF way_hit
<1>6. \A s \in Sets : SetLines(s) \subseteq Lines
  BY SetInCache, Zenon
<1>7. \A s \in Sets : line \in SetLines(s) => s = set
  BY <1>1, SetsApart, Zenon
<1>8. ASSUME NEW s \in Sets, NEW k \in SetLines(s), NEW l \in SetLines(s),
             dcache'.valid[k], dcache'.valid[l], dcache'.tag[k] = dcache'.tag[l]
      PROVE  k = l
  <2>1. k \in Lines /\ l \in Lines
    BY <1>6, Zenon
  <2> HIDE DEF set, tag
  <2>2. CASE k = line /\ l # line
    <3>1. s = set
      BY <1>7, <2>2, Zenon
    <3>2. dcache.valid[l] /\ dcache.tag[l] = tag
      BY <1>8, <2>1, <2>2, <1>2, Zenon DEF Shape, tag
    <3>3. QED
      BY <3>1, <3>2, <1>5, Zenon
  <2>3. CASE k # line /\ l = line
    <3>1. s = set
      BY <1>7, <2>3, Zenon
    <3>2. dcache.valid[k] /\ dcache.tag[k] = tag
      BY <1>8, <2>1, <2>3, <1>2, Zenon DEF Shape, tag
    <3>3. QED
      BY <3>1, <3>2, <1>5, Zenon
  <2>4. CASE k # line /\ l # line
    BY <1>8, <2>1, <2>4, Zenon DEF Shape, TagsUnique
  <2>5. QED
    BY <2>2, <2>3, <2>4, Zenon
<1>9. TagsUnique'
  BY <1>8, Zenon DEF TagsUnique
<1>10. QED
  BY <1>4, <1>9, Zenon

\* A cycle that changes no tag keeps the cache's part of the invariant, if
\* the refill it leaves open, if any, is of an address in no way.
LEMMA QuietCycle ==
    ASSUME IInv, Quiet(dcache', dcache),
           dcache'.state \in {"IDLE", "HIT_RD", "WB", "FILL", "SCAN"},
           dcache'.cur.addr \in Nat,
           dcache'.active => dcache'.state \in {"SCAN", "WB"},
           dcache'.state = "SCAN" => dcache'.active,
           Refilling' =>
             /\ dcache'.line \in SetLines(set_idx(dcache'.cur.addr))
             /\ way_hit(dcache'.cur.addr) = {}
    PROVE  (Shape /\ TagsUnique /\ MissOpen /\ FlushApart)'
<1>1. Shape' /\ TagsUnique' /\ \A a : way_hit(a)' = way_hit(a)
  BY QuietEdge, Zenon DEF IInv
<1>2. way_hit(dcache.cur.addr)' = way_hit(dcache'.cur.addr)
  BY Zenon DEF way_hit, Quiet, SetLines, set_idx, tag_of
<1>3. QED
  BY <1>1, <1>2, Zenon DEF MissOpen, FlushApart, SetLines, set_idx

\* A clock edge keeps the tags of each set distinct.
LEMMA CacheStep ==
    ASSUME IInv, Next
    PROVE  (Shape /\ TagsUnique /\ MissOpen /\ FlushApart)'
<1> DEFINE d == [dcache EXCEPT !.done = FALSE]
           req == dcache_req
<1>1. /\ DOMAIN d = Fields /\ Quiet(d, dcache) /\ d.state = dcache.state
      /\ d.cur = dcache.cur /\ d.active = dcache.active /\ d.line = dcache.line
  BY Zenon DEF IInv, Shape, Fields, Quiet
<1>2. req.addr \in Nat
  BY RequestAddress, Zenon DEF IInv
<1>3. dcache.cur.addr \in Nat
  BY Zenon DEF IInv, Shape
<1>4. dcache' =
        CASE d.state = "IDLE" ->
               IF flush_all /\ ~d.active THEN FlushStart(d)
               ELSE IF req.read \/ req.write THEN Accept(d, req) ELSE d
          [] d.state = "HIT_RD" -> [d EXCEPT !.state = "IDLE"]
          [] d.state = "WB" -> IF lsu_ack THEN WriteBackWord(d) ELSE d
          [] d.state = "FILL" -> IF lsu_ack THEN FillWord(d, wb_data) ELSE d
          [] d.state = "SCAN" -> ScanLine(d)
  BY Zenon DEF Next, DCacheEdge
<1>5. dcache.state \in {"IDLE", "HIT_RD", "WB", "FILL", "SCAN"}
  BY Zenon DEF IInv, Shape
<1>6. /\ dcache.active => dcache.state \in {"SCAN", "WB"}
      /\ dcache.state = "SCAN" => dcache.active
  BY Zenon DEF IInv, FlushApart
<1>7. dcache.state = "FILL" \/ (dcache.state = "WB" /\ ~dcache.active)
        => /\ dcache.line \in SetLines(set_idx(dcache.cur.addr))
           /\ way_hit(dcache.cur.addr) = {}
  BY Zenon DEF IInv, MissOpen, Refilling
<1> HIDE DEF d, req
<1>8. CASE dcache' = d
  BY <1>1, <1>3, <1>5, <1>6, <1>7, <1>8, QuietCycle, Zenon DEF Refilling
<1>9. CASE dcache.state = "IDLE" /\ dcache' # d
  <2>1. CASE flush_all /\ ~d.active
    <3>1. dcache' = FlushStart(d)
      BY <1>1, <1>4, <1>9, <2>1, Zenon
    <3>2. /\ Quiet(FlushStart(d), d) /\ FlushStart(d).active
          /\ FlushStart(d).state = "SCAN" /\ FlushStart(d).cur = d.cur
      BY <1>1, FlushSteps, Zenon
    <3>3. Quiet(dcache', dcache) /\ dcache'.state = "SCAN"
          /\ dcache'.active /\ dcache'.cur = dcache.cur
      BY <1>1, <3>1, <3>2, Zenon DEF Quiet
    <3>4. QED
      BY <1>3, <3>3, QuietCycle, Zenon DEF Refilling
  <2>2. CASE ~(flush_all /\ ~d.active) /\ hit(req.addr)
    <3>1. dcache' = WriteHit(d, req) \/ dcache' = ReadHit(d, req)
      BY <1>1, <1>4, <1>9, <2>2, Zenon DEF Accept
    <3>2. /\ Quiet(WriteHit(d, req), d)
          /\ WriteHit(d, req).state = d.state
          /\ WriteHit(d, req).active = d.active
          /\ WriteHit(d, req).cur = d.cur
          /\ Quiet(ReadHit(d, req), d)
          /\ ReadHit(d, req).state = "HIT_RD"
          /\ ReadHit(d, req).active = d.active
          /\ ReadHit(d, req).cur = req
      BY <1>1, HitSteps
    <3>3. /\ Quiet(dcache', dcache) /\ dcache'.state \in {"IDLE", "HIT_RD"}
          /\ dcache'.active = dcache.active /\ dcache'.cur.addr \in Nat
      BY <1>1, <1>2, <1>3, <1>9, <3>1, <3>2, Zenon DEF Quiet
    <3>4. QED
      BY <1>6, <1>9, <3>3, QuietCycle, Zenon DEF Refilling
  <2>3. CASE ~(flush_all /\ ~d.active) /\ ~hit(req.addr)
    <3>1. dcache' = Miss(d, req)
      BY <1>1, <1>4, <1>9, <2>3, Zenon DEF Accept
    <3>2. /\ Quiet(Miss(d, req), d)
          /\ Miss(d, req).cur = req /\ Miss(d, req).active = d.active
          /\ Miss(d, req).state \in {"WB", "FILL"}
          /\ Miss(d, req).line
               = set_idx(req.addr) * WAYS + d.victim[set_idx(req.addr)]
      BY <1>1, MissStep
    <3>3. dcache.victim[set_idx(req.addr)] \in 0 .. WAYS - 1
      BY <1>2, AddressSet, Zenon DEF IInv, Shape
    <3>4. /\ Quiet(dcache', dcache) /\ dcache'.state \in {"WB", "FILL"}
          /\ dcache'.active = dcache.active /\ dcache'.cur = req
          /\ dcache'.line
               = set_idx(req.addr) * WAYS + dcache.victim[set_idx(req.addr)]
      BY <1>1, <3>1, <3>2, Zenon DEF Quiet
    <3>5. dcache'.line \in SetLines(set_idx(req.addr))
      BY <3>3, <3>4, Zenon DEF SetLines
    <3>6. way_hit(req.addr) = {}
      BY <2>3, Zenon DEF hit
    <3>7. QED
      BY <1>2, <1>6, <1>9, <3>4, <3>5, <3>6, QuietCycle, Zenon
  <2>4. QED
    BY <2>1, <2>2, <2>3, Zenon
<1>10. CASE dcache.state = "HIT_RD" /\ dcache' # d
  <2>1. dcache' = [d EXCEPT !.state = "IDLE"]
    BY <1>1, <1>4, <1>10, Zenon
  <2>2. /\ Quiet(dcache', dcache) /\ dcache'.state = "IDLE"
        /\ dcache'.active = dcache.active /\ dcache'.cur = dcache.cur
    BY <1>1, <2>1, Zenon DEF Quiet, Fields
  <2>3. QED
    BY <1>3, <1>6, <1>10, <2>2, QuietCycle, Zenon DEF Refilling
<1>11. CASE dcache.state = "WB" /\ dcache' # d
  <2>1. dcache' = WriteBackWord(d)
    BY <1>1, <1>4, <1>11, Zenon
  <2>2. Quiet(WriteBackWord(d), d) /\ WriteBackWord(d).cur = d.cur
    BY <1>1, <1>11, WriteBackStep, Zenon
  <2>3. \/ /\ WriteBackWord(d).state = "WB"
           /\ WriteBackWord(d).active = d.active
           /\ WriteBackWord(d).line = d.line
        \/ /\ d.active
           /\ \/ WriteBackWord(d).state = "IDLE" /\ ~WriteBackWord(d).active
              \/ WriteBackWord(d).state = "SCAN" /\ WriteBackWord(d).active
        \/ /\ WriteBackWord(d).state = "FILL"
           /\ ~d.active /\ ~WriteBackWord(d).active
           /\ WriteBackWord(d).line = d.line
    BY <1>1, <1>11, WriteBackStep, Zenon
  <2>4. Quiet(dcache', dcache) /\ dcache'.cur = dcache.cur
    BY <1>1, <2>1, <2>2, Zenon DEF Quiet
  <2>5. /\ dcache'.state \in {"IDLE", "WB", "FILL", "SCAN"}
        /\ dcache'.active => dcache'.state \in {"SCAN", "WB"}
        /\ dcache'.state = "SCAN" => dcache'.active
        /\ dcache'.state = "FILL" \/ (dcache'.state = "WB" /\ ~dcache'.active)
             => ~dcache.active /\ dcache'.line = dcache.line
    BY <1>1, <2>1, <2>3, Zenon
  <2>6. QED
    BY <1>3, <1>7, <1>11, <2>4, <2>5, QuietCycle, Zenon DEF Refilling
<1>12. CASE dcache.state = "FILL" /\ dcache' # d
  <2>1. dcache' = FillWord(d, wb_data)
    BY <1>1, <1>4, <1>12, Zenon
  <2>2. /\ dcache'.cur = dcache.cur /\ dcache'.active = dcache.active
        /\ dcache'.line = dcache.line /\ DOMAIN dcache' = Fields
    <3>1. LET e == FillWord(d, wb_data)
          IN  /\ e.cur = d.cur /\ e.active = d.active /\ e.line = d.line
              /\ DOMAIN e = Fields
      BY <1>1, FillStep, Zenon
    <3>2. QED
      BY <1>1, <2>1, <3>1, Zenon
  <2>3. \/ Quiet(dcache', dcache) /\ dcache'.state = "FILL"
        \/ /\ dcache'.state = "IDLE"
           /\ dcache'.valid = [dcache.valid EXCEPT ![dcache.line] = TRUE]
           /\ dcache'.tag =
                [dcache.tag EXCEPT ![dcache.line] = tag_of(dcache.cur.addr)]
           /\ dcache'.victim =
                [dcache.victim EXCEPT ![set_idx(dcache.cur.addr)] =
                                        (dcache.line + 1) % WAYS]
    BY <1>1, <1>12, <2>1, FillStep DEF Quiet
  <2>4. CASE Quiet(dcache', dcache) /\ dcache'.state = "FILL"
    BY <1>3, <1>6, <1>7, <1>12, <2>2, <2>4, QuietCycle, Zenon
  <2>5. CASE ~(Quiet(dcache', dcache) /\ dcache'.state = "FILL")
    <3>1. Shape' /\ TagsUnique'
      BY <1>7, <1>12, <2>2, <2>3, <2>5, FillEdge, Zenon DEF IInv
    <3>2. dcache'.state = "IDLE" /\ ~dcache'.active
      BY <1>6, <1>12, <2>2, <2>3, <2>5, Zenon
    <3>3. QED
      BY <3>1, <3>2, Zenon DEF MissOpen, FlushApart, Refilling
  <2>6. QED
    BY <2>4, <2>5, Zenon
<1>13. CASE dcache.state = "SCAN" /\ dcache' # d
  <2>1. dcache' = ScanLine(d)
    BY <1>1, <1>4, <1>13, Zenon
  <2>2. /\ Quiet(ScanLine(d), d) /\ ScanLine(d).cur = d.cur
        /\ \/ ScanLine(d).state = "IDLE" /\ ~ScanLine(d).active
           \/ ScanLine(d).state \in {"SCAN", "WB"} /\ ScanLine(d).active
    BY <1>1, <1>6, <1>13, ScanStep, Zenon
  <2>3. QED
    BY <1>1, <1>3, <2>1, <2>2, QuietCycle, Zenon DEF Refilling, Quiet
<1>14. QED
  BY <1>5, <1>8, <1>9, <1>10, <1>11, <1>12, <1>13, Zenon

\* The instruction that enters MEM has an address.
LEMMA RequestStep ==
    ASSUME IInv, Next
    PROVE  Requests'
<1>1. build' = build /\ build \in Builds
  BY Zenon DEF Next, IInv, Requests
<1>2. build.LoadAddrs \subseteq Nat /\ build.StoreAddrs \subseteq Nat
  <2>1. Address \subseteq Nat
    BY WordsAssumption DEF Address
  <2>2. build \in Build
    BY <1>1, BuildsAssumption, Zenon
  <2>3. QED
    BY <2>1, <2>2, Zenon DEF Build
<1>3. Bubble.addr \in Nat
  BY Zenon DEF Bubble
<1>4. \A i \in Program : i.addr \in Nat
  BY <1>2 DEF Program, Instructions, Loads, Stores, Bubble
<1>5. reg3' = reg3 \/ reg3' = Bubble \/ reg3' \in Program
  BY Zenon DEF Next, MemEdge
<1>6. reg3'.addr \in Nat
  BY <1>3, <1>4, <1>5, Zenon DEF IInv, Requests
<1>7. QED
  BY <1>1, <1>6, Zenon DEF Requests

\* The cache starts empty.
LEMMA Start ==
    ASSUME Init
    PROVE  IInv
<1>1. Requests
  BY Zenon DEF Init, Requests, Bubble
<1>2. /\ DOMAIN dcache = Fields /\ dcache.state = "IDLE"
      /\ dcache.valid = [l \in Lines |-> FALSE]
      /\ dcache.tag = [l \in Lines |-> 0]
      /\ dcache.victim = [s \in Sets |-> 0]
      /\ dcache.active = FALSE /\ dcache.cur = Idle
  BY Zenon DEF Init, DCacheInit, Fields, Sets
<1>3. Shape
  BY <1>2, CacheAssumption DEF Shape, Idle
<1>4. TagsUnique
  BY <1>2, SetInCache, Zenon DEF TagsUnique
<1>5. QED
  BY <1>1, <1>2, <1>3, <1>4, Zenon DEF IInv, MissOpen, Refilling, FlushApart

\* IInv holds in every state: the tags of a set are distinct, and while a
\* line is refilled (DCache.v, S_WB and S_FILL) its address is in no way.
THEOREM Invariant == Spec => []IInv
<1>1. Init => IInv
  BY Start, Zenon
<1>2. IInv /\ [Next]_vars => IInv'
  <2> SUFFICES ASSUME IInv, [Next]_vars PROVE IInv'
    BY Zenon
  <2>1. CASE Next
    BY <2>1, CacheStep, RequestStep, Zenon DEF IInv
  <2>2. CASE UNCHANGED vars
    BY <2>2, Zenon
       DEF vars, IInv, Requests, Shape, TagsUnique, MissOpen, FlushApart,
                Refilling, way_hit
  <2>3. QED
    BY <2>1, <2>2, Zenon
<1>3. QED
  BY <1>1, <1>2, PTL DEF Spec

----------------------------------------------------------------------------
(* Loads return what program order stored.                                 *)


(***************************************************************************)
(* The builds whose accesses do what they are meant to.  The others are    *)
(* known to go wrong: a refill at latency 0 stores words twice, a read     *)
(* miss returns the last word of its line, a repeated address keeps the    *)
(* first width, and without the cache a delay outlives its read.           *)
(***************************************************************************)
Supported ==
  IF build.Cached
  THEN /\ build.Latency # 0 /\ ~build.Rewiden
       /\ \A a \in build.LoadAddrs : word_off(a) = LINE_WORDS - 1
  ELSE build.Latency = 0

Words == 0 .. WORDS - 1
Offsets == 0 .. LINE_WORDS - 1

\* The number of the memory line cached in l, and the words of line n.
Home(l) == dcache.tag[l] * NUM_SETS + (l \div WAYS)
LineOf(addr) == WordOf(addr) \div LINE_WORDS
WordAt(n, k) == n * LINE_WORDS + k

Clean == \A l \in Lines : ~dcache.dirty[l]

(***************************************************************************)
(* Without the cache, memory is always up to date.                         *)
(***************************************************************************)
Direct ==
  /\ dcache.state = "IDLE" /\ ~dcache.active
  /\ \A l \in Lines : ~dcache.valid[l] /\ ~dcache.dirty[l]
  /\ ram.mem = flat
  /\ ~fence_pending_r
  /\ memRead_regem /\ mem_stall_done_r
       => ram.pending /\ ram.read = LoadFrom(flat, reg3.addr, reg3.f3)

(***************************************************************************)
(* With it: who the cache works for.                                       *)
(***************************************************************************)
\* A fence waits until every line is clean.
Fenced ==
  /\ fence_pending_r => reg3.op = "fence" /\ ~mem_stall_done_r
  /\ reg3.op = "fence" /\ ~fence_pending_r =>
       mem_stall_done_r /\ Clean
  /\ dcache.active => fence_pending_r
  /\ dcache.done => /\ fence_pending_r /\ fence_flush_started_r /\ Clean
                    /\ dcache.state = "IDLE"
  /\ dcache.active =>
       /\ \A l \in Lines : l < dcache.scan => ~dcache.dirty[l]
       /\ dcache.state = "WB" => dcache.wb = dcache.scan

\* A refill is for the access in MEM.  A read is, or was, for the load that
\* was there when it was accepted.
Served ==
  /\ Refilling => /\ memRead_regem \/ memWrite_regem
                  /\ dcache.cur = dcache_req /\ ~mem_stall_done_r
  /\ dcache.state = "HIT_RD" =>
       /\ dcache.line \in way_hit(dcache.cur.addr)
       /\ memRead_regem /\ reg3.addr = dcache.cur.addr => reg3.f3 = dcache.cur.f3
  /\ mem_stall_done_r =>
       /\ dcache.state = "IDLE"
       /\ ~memWrite_regem
       /\ memRead_regem =>
            /\ hit(reg3.addr)
            /\ dcache_rdata_captured_r = LoadFrom(flat, reg3.addr, reg3.f3)

\* The memory answers the request that is on the bus.
Answered ==
  /\ ram.active <=> ram.busy \/ ram.done
  /\ ~(ram.busy /\ ram.done)
  /\ ram.active => /\ dcache.state \in {"WB", "FILL"}
                   /\ ram.addr = dcache_bus.addr /\ ram.we = (dcache.state = "WB")
  /\ ram.active /\ dcache.state = "FILL" =>
       /\ ram.pending /\ ram.read = ram.mem[WordOf(ram.addr)]
       /\ ram.captured => ram.data = ram.read
       /\ ram.done => ram.captured

(***************************************************************************)
(* Where the program's stores are.                                         *)
(***************************************************************************)
\* Only valid lines are dirty, and the line being refilled is not.
DirtyLines ==
  /\ \A l \in Lines : dcache.dirty[l] => dcache.valid[l]
  /\ dcache.state = "FILL" => ~dcache.dirty[dcache.line]
  /\ dcache.state = "WB" => dcache.dirty[dcache.wb]
  /\ dcache.state = "WB" /\ ~dcache.active => dcache.wb = dcache.line

\* A word that no dirty line holds is in memory.
InMemory ==
  \A w \in Words :
    (\A l \in Lines : dcache.dirty[l] => Home(l) # w \div LINE_WORDS)
      => ram.mem[w] = flat[w]

\* A valid line holds the program's words, unless it is being refilled.
InLine ==
  \A l \in Lines, k \in Offsets :
    dcache.valid[l] /\ ~(dcache.state = "FILL" /\ dcache.line = l)
      => dcache.data[l][k] = flat[WordAt(Home(l), k)]

\* The words already written back are in memory.
WrittenBack ==
  dcache.state = "WB" =>
    \A k \in Offsets : k < dcache.word =>
      ram.mem[WordAt(Home(dcache.wb), k)] = flat[WordAt(Home(dcache.wb), k)]

\* The words already refilled are the program's, with the store that missed.
Refilled ==
  dcache.state = "FILL" =>
    \A k \in Offsets : k < dcache.word =>
      dcache.data[dcache.line][k] =
        LET w == WordAt(LineOf(dcache.cur.addr), k)
        IN  IF dcache.cur.write
            THEN StoreTo(flat, dcache.cur.addr, dcache.cur.f3, dcache.cur.data)[w]
            ELSE flat[w]

Through ==
  /\ Fenced /\ Served /\ Answered
  /\ DirtyLines /\ InMemory /\ InLine /\ WrittenBack /\ Refilled

CInv == TypeOK /\ IInv /\ (Supported => IF build.Cached THEN Through ELSE Direct)

----------------------------------------------------------------------------
(* The geometry of the cache.                                              *)

\* The constants of the geometry.
LEMMA Geometry ==
    /\ WAYS \in Nat \ {0} /\ NUM_SETS \in Nat \ {0} /\ LINE_WORDS \in Nat \ {0}
    /\ WORDS \in Nat \ {0}
BY CacheAssumption, WordsAssumption, Zenon

\* An address is a word of a line, and a line one of a set.
LEMMA AddressParts ==
    ASSUME NEW a \in Nat
    PROVE  /\ WordOf(a) \in Nat /\ LineOf(a) \in Nat /\ word_off(a) \in Offsets
           /\ WordOf(a) = WordAt(LineOf(a), word_off(a))
           /\ tag_of(a) \in Nat /\ set_idx(a) \in Sets
           /\ LineOf(a) = tag_of(a) * NUM_SETS + set_idx(a)
<1>1. WordOf(a) \in Nat
  BY DEF WordOf
<1>2. /\ LineOf(a) \in Nat /\ word_off(a) \in Offsets
      /\ WordOf(a) = WordAt(LineOf(a), word_off(a))
  BY <1>1, Geometry, DivisionLaw, Zenon DEF LineOf, word_off, WordAt, Offsets
<1>3. tag_of(a) = LineOf(a) \div NUM_SETS
  BY <1>1, Geometry, DivideTwice, Zenon DEF tag_of, LineOf
<1>4. set_idx(a) = LineOf(a) % NUM_SETS
  BY Zenon DEF set_idx, LineOf
<1> HIDE DEF LineOf
<1>5. QED
  BY <1>1, <1>2, <1>3, <1>4, Geometry, DivisionLaw, Zenon DEF Sets

\* The address of a word.
LEMMA WordAddress ==
    ASSUME NEW w \in Nat
    PROVE  /\ 2 * w \in Nat /\ WordOf(2 * w) = w
           /\ LineOf(2 * w) = w \div LINE_WORDS
           /\ word_off(2 * w) = w % LINE_WORDS
<1>1. 2 * w \in Nat /\ (2 * w) \div 2 = w
  OBVIOUS
<1>2. QED
  BY <1>1, Zenon DEF WordOf, LineOf, word_off

\* A word is found again in its line.
LEMMA WordInLine ==
    ASSUME NEW n \in Nat, NEW k \in Offsets
    PROVE  /\ WordAt(n, k) \in Nat
           /\ WordAt(n, k) \div LINE_WORDS = n /\ WordAt(n, k) % LINE_WORDS = k
BY Geometry, QuotientOf, Zenon DEF Offsets, WordAt

\* Each line of the cache is in one set.
LEMMA LineSet ==
    ASSUME NEW l \in Lines
    PROVE  /\ l \div WAYS \in Sets
           /\ \A s \in Sets : l \in SetLines(s) <=> s = l \div WAYS
<1>1. l \in Nat
  BY DEF Lines
<1>2. /\ l \div WAYS \in Nat /\ l % WAYS \in 0 .. WAYS - 1
      /\ l = (l \div WAYS) * WAYS + (l % WAYS)
  BY <1>1, Geometry, DivisionLaw, Zenon
<1> DEFINE q == l \div WAYS
           r == l % WAYS
<1> HIDE DEF q, r
<1>3. q \in Sets
  <2>1. ASSUME q >= NUM_SETS PROVE FALSE
    <3>1. (q - NUM_SETS) * WAYS \in Nat
      BY <1>2, <2>1, Geometry DEF q
    <3>2. (q - NUM_SETS) * WAYS = q * WAYS - NUM_SETS * WAYS
      BY <1>2, Geometry DEF q
    <3>3. q * WAYS \in Int /\ NUM_SETS * WAYS \in Int
      BY <1>2, Geometry DEF q
    <3>4. l = q * WAYS + r /\ r >= 0 /\ r \in Int
      BY <1>2, Geometry DEF q, r
    <3>5. QED
      BY <3>1, <3>2, <3>3, <3>4 DEF Lines
  <2>2. QED
    BY <1>2, <2>1, Geometry DEF Sets, q
<1>4. l \in SetLines(q)
  BY <1>2, Zenon DEF SetLines, q, r
<1>5. QED
  BY <1>3, <1>4, SetsApart, Zenon DEF q

\* What memory line a line of the cache holds.
LEMMA HomeParts ==
    ASSUME NEW l \in Lines, dcache.tag[l] \in Nat,
           NEW a \in Nat
    PROVE  /\ Home(l) \in Nat
           /\ Home(l) = LineOf(a) <=>
                l \in SetLines(set_idx(a)) /\ dcache.tag[l] = tag_of(a)
<1>1. l \div WAYS \in Sets /\ \A s \in Sets : l \in SetLines(s) <=> s = l \div WAYS
  BY LineSet, Zenon
<1>2. /\ tag_of(a) \in Nat /\ set_idx(a) \in Sets
      /\ LineOf(a) = tag_of(a) * NUM_SETS + set_idx(a)
  BY AddressParts, Zenon
<1> DEFINE q == l \div WAYS
<1> HIDE DEF q
<1>3. Home(l) = dcache.tag[l] * NUM_SETS + q
  BY Zenon DEF Home, q
<1>4. Home(l) \in Nat
  BY <1>1, <1>3, Geometry DEF Sets, q
<1>5. Home(l) = LineOf(a) <=> dcache.tag[l] = tag_of(a) /\ q = set_idx(a)
  <2>1. q \in 0 .. NUM_SETS - 1 /\ set_idx(a) \in 0 .. NUM_SETS - 1
    BY <1>1, <1>2, Zenon DEF Sets, q
  <2>2. ASSUME Home(l) = LineOf(a)
        PROVE  dcache.tag[l] = tag_of(a) /\ q = set_idx(a)
    <3> DEFINE t == dcache.tag[l]
               u == tag_of(a)
               v == set_idx(a)
    <3>1. t \in Int /\ u \in Int /\ v \in 0 .. NUM_SETS - 1 /\ NUM_SETS \in Nat \ {0}
      BY <1>2, <2>1, Geometry
    <3>2. t * NUM_SETS + q = u * NUM_SETS + v
      BY <1>2, <1>3, <2>2, Zenon
    <3> HIDE DEF t, u, v
    <3>3. t = u /\ q = v
      BY <2>1, <3>1, <3>2, DivisionUnique
    <3>4. QED
      BY <3>3, Zenon DEF t, u, v
  <2>3. QED
    BY <1>2, <1>3, <2>2, Zenon
<1>6. QED
  BY <1>1, <1>2, <1>4, <1>5, Zenon DEF q

\* An address hits the lines that hold its memory line.
LEMMA Hits ==
    ASSUME dcache.tag \in [Lines -> Nat], NEW a \in Nat
    PROVE  way_hit(a) = {l \in Lines : dcache.valid[l] /\ Home(l) = LineOf(a)}
<1>1. set_idx(a) \in Sets
  BY AddressParts, Zenon
<1>2. SetLines(set_idx(a)) \subseteq Lines
  BY <1>1, SetInCache, Zenon
<1>3. \A l \in Lines : Home(l) = LineOf(a) <=>
                         l \in SetLines(set_idx(a)) /\ dcache.tag[l] = tag_of(a)
  BY HomeParts, Zenon
<1>4. QED
  BY <1>2, <1>3, Zenon DEF way_hit

\* The number of lines the memory has.
MemoryLines == (WORDS \div (LINE_WORDS * NUM_SETS)) * NUM_SETS

\* The memory is made of whole lines.
LEMMA WholeLines ==
    /\ WORDS \div (LINE_WORDS * NUM_SETS) \in Nat \ {0}
    /\ MemoryLines \in Nat /\ WORDS = MemoryLines * LINE_WORDS
<1> DEFINE p == LINE_WORDS * NUM_SETS
           t == WORDS \div p
<1>1. p \in Nat \ {0}
  BY Geometry
<1>2. WORDS % p = 0
  BY CacheAssumption, Zenon
<1> HIDE DEF p
<1>3. t \in Nat /\ WORDS = t * p + (WORDS % p)
  BY <1>1, Geometry, DivisionLaw, Zenon
<1> HIDE DEF t
<1>4. t * p \in Int /\ WORDS = t * p
  BY <1>1, <1>2, <1>3
<1>5. t # 0
  BY <1>1, <1>4, Geometry
<1>6. t * p = (t * NUM_SETS) * LINE_WORDS
  BY <1>3, Geometry DEF p
<1>7. t * NUM_SETS \in Nat
  BY <1>3, Geometry
<1>8. MemoryLines = t * NUM_SETS
  BY Zenon DEF MemoryLines, t, p
<1>9. QED
  BY <1>3, <1>4, <1>5, <1>6, <1>7, <1>8, Zenon DEF t, p

\* The words of a line of the memory are in it, and no others.
LEMMA LineRange ==
    ASSUME NEW n \in Nat, NEW k \in Offsets
    PROVE  WordAt(n, k) \in Words <=> n < MemoryLines
<1> DEFINE m == MemoryLines
<1>1. m \in Nat /\ WORDS = m * LINE_WORDS /\ LINE_WORDS \in Nat \ {0}
      /\ k \in 0 .. LINE_WORDS - 1
  BY WholeLines, Geometry, Zenon DEF Offsets
<1> HIDE DEF m
<1>2. n * LINE_WORDS \in Nat /\ m * LINE_WORDS \in Nat
  BY <1>1
<1>3. CASE n < m
  <2>1. n * LINE_WORDS + LINE_WORDS <= m * LINE_WORDS
    BY <1>1, <1>3, ProductGap
  <2>2. QED
    BY <1>1, <1>2, <1>3, <2>1 DEF WordAt, Words, m
<1>4. CASE m <= n
  <2>1. m * LINE_WORDS <= n * LINE_WORDS
    <3>1. CASE m = n
      BY <1>2, <3>1
    <3>2. CASE m < n
      <4>1. m * LINE_WORDS + LINE_WORDS <= n * LINE_WORDS
        BY <1>1, <3>2, ProductGap
      <4>2. QED
        BY <1>1, <1>2, <4>1
    <3>3. QED
      BY <1>1, <1>4, <3>1, <3>2
  <2>2. QED
    BY <1>1, <1>2, <1>4, <2>1 DEF WordAt, Words, m
<1>5. QED
  BY <1>1, <1>3, <1>4

\* Every word of the memory is in one of its lines.
LEMMA WordRange ==
    ASSUME NEW w \in Words
    PROVE  /\ w \div LINE_WORDS \in Nat /\ w % LINE_WORDS \in Offsets
           /\ w = WordAt(w \div LINE_WORDS, w % LINE_WORDS)
           /\ w \div LINE_WORDS < MemoryLines
<1>1. w \in Nat
  BY DEF Words
<1>2. /\ w \div LINE_WORDS \in Nat /\ w % LINE_WORDS \in Offsets
      /\ w = WordAt(w \div LINE_WORDS, w % LINE_WORDS)
  BY <1>1, Geometry, DivisionLaw, Zenon DEF Offsets, WordAt
<1>3. QED
  BY <1>2, LineRange, Zenon

\* Every address of the memory has a tag, a line and a word of it.
LEMMA AddressRange ==
    ASSUME NEW a \in Address
    PROVE  /\ a \in Nat /\ WordOf(a) \in Words /\ LineOf(a) < MemoryLines
           /\ tag_of(a) \in Tags
<1>1. a \in Nat /\ WordOf(a) \in Words
  BY Geometry DEF Address, WordOf, Words
<1>2. LineOf(a) < MemoryLines
  BY <1>1, WordRange, Zenon DEF LineOf
<1>3. /\ tag_of(a) \in Nat /\ set_idx(a) \in Sets
      /\ LineOf(a) = tag_of(a) * NUM_SETS + set_idx(a)
  BY <1>1, AddressParts, Zenon
<1> DEFINE t == WORDS \div (LINE_WORDS * NUM_SETS)
           u == tag_of(a)
           v == set_idx(a)
<1>4. t \in Nat /\ MemoryLines = t * NUM_SETS
  BY WholeLines, Zenon DEF MemoryLines
<1>5. u \in Nat /\ v \in 0 .. NUM_SETS - 1 /\ u * NUM_SETS + v < t * NUM_SETS
  BY <1>2, <1>3, <1>4, Zenon DEF Sets
<1> HIDE DEF t, u, v
<1>6. ~(t < u)
  <2>1. t < u => t * NUM_SETS + NUM_SETS <= u * NUM_SETS
    BY <1>4, <1>5, Geometry, ProductGap
  <2>2. t * NUM_SETS \in Int /\ u * NUM_SETS \in Int
    BY <1>4, <1>5, Geometry
  <2>3. QED
    BY <1>5, <2>1, <2>2, Geometry
<1>7. t # u
  <2>1. t * NUM_SETS \in Int
    BY <1>4, Geometry
  <2>2. QED
    BY <1>5, <2>1, Geometry
<1>8. u < t
  BY <1>4, <1>5, <1>6, <1>7
<1>9. tag_of(a) \in Tags
  BY <1>4, <1>5, <1>8 DEF Tags, t, u
<1>10. QED
  BY <1>1, <1>2, <1>9, Zenon

\* A line of the cache holds a line of the memory.
LEMMA HomeRange ==
    ASSUME NEW l \in Lines, dcache.tag[l] \in Tags
    PROVE  Home(l) \in Nat /\ Home(l) < MemoryLines
<1> DEFINE t == WORDS \div (LINE_WORDS * NUM_SETS)
           u == dcache.tag[l]
           v == l \div WAYS
<1>1. t \in Nat /\ MemoryLines = t * NUM_SETS
  BY WholeLines, Zenon DEF MemoryLines
<1>2. u \in Nat /\ u < t
  BY <1>1 DEF Tags
<1>3. v \in 0 .. NUM_SETS - 1
  BY LineSet, Zenon DEF Sets
<1>4. Home(l) = u * NUM_SETS + v
  BY Zenon DEF Home
<1> HIDE DEF t, u, v
<1>5. u * NUM_SETS + NUM_SETS <= t * NUM_SETS
  BY <1>1, <1>2, Geometry, ProductGap
<1>6. u * NUM_SETS \in Nat /\ t * NUM_SETS \in Nat
  BY <1>1, <1>2, Geometry
<1>7. QED
  BY <1>1, <1>3, <1>4, <1>5, <1>6, Geometry

\* The cache asks for the words of the line that missed,
LEMMA RefillAddress ==
    ASSUME NEW a \in Nat, NEW k \in Offsets
    PROVE  (a - (a % (2 * LINE_WORDS))) + 2 * k = 2 * WordAt(LineOf(a), k)
<1> DEFINE q == LineOf(a)
           o == word_off(a)
           b == a % 2
           L == LINE_WORDS
<1>1. q \in Nat /\ o \in 0 .. L - 1 /\ WordOf(a) = q * L + o
  BY AddressParts, Zenon DEF Offsets, WordAt
<1>2. L \in Nat \ {0}
  BY Geometry, Zenon
<1>3. b \in 0 .. 1 /\ a = WordOf(a) * 2 + b
  BY DivisionLaw DEF WordOf
<1>4. k \in 0 .. L - 1 /\ WordAt(LineOf(a), k) = q * L + k
  BY Zenon DEF Offsets, WordAt
<1> HIDE DEF q, o, b, L
<1>5. q * L \in Nat /\ q * (2 * L) = 2 * (q * L)
  BY <1>1, <1>2
<1>6. a = q * (2 * L) + (2 * o + b)
  BY <1>1, <1>2, <1>3, <1>5
<1>7. 2 * o + b \in 0 .. (2 * L) - 1 /\ 2 * L \in Nat \ {0}
  BY <1>1, <1>2, <1>3
<1> DEFINE r == 2 * o + b
           M == 2 * L
<1> HIDE DEF r, M
<1>8. a % M = r
  <2>1. (q * M + r) % M = r
    BY <1>1, <1>7, QuotientOf, Zenon DEF r, M
  <2>2. QED
    BY <1>6, <2>1, Zenon DEF r, M
<1>9. a - (a % (2 * LINE_WORDS)) = 2 * (q * L)
  BY <1>1, <1>2, <1>3, <1>5, <1>6, <1>8 DEF r, M, L
<1>10. QED
  BY <1>2, <1>4, <1>5, <1>9

\* and writes back those of the line it has.
LEMMA WriteBackAddress ==
    ASSUME NEW l \in Lines, dcache.tag[l] \in Tags, NEW k \in Offsets
    PROVE  LineBase(l) + 2 * k = 2 * WordAt(Home(l), k)
<1> DEFINE n == Home(l)
           L == LINE_WORDS
<1>1. n \in Nat /\ L \in Nat \ {0} /\ k \in Nat
  BY HomeRange, Geometry DEF Offsets
<1>2. LineBase(l) = 2 * L * n
  BY Zenon DEF LineBase, Home
<1>3. WordAt(Home(l), k) = n * L + k
  BY Zenon DEF WordAt
<1> HIDE DEF n, L
<1>4. 2 * L * n = 2 * (n * L) /\ n * L \in Nat
  BY <1>1
<1>5. QED
  BY <1>1, <1>2, <1>3, <1>4

----------------------------------------------------------------------------
(* Types.                                                                  *)

CacheRequest ==
  [read : BOOLEAN, write : BOOLEAN, addr : Address, data : Word,
   f3 : LoadWidths \cup StoreWidths]
CacheRecord ==
  [state : {"IDLE", "HIT_RD", "WB", "FILL", "SCAN"},
   valid : [Lines -> BOOLEAN], dirty : [Lines -> BOOLEAN],
   tag : [Lines -> Tags],
   data : [Lines -> [Offsets -> Word]],
   victim : [Sets -> 0 .. WAYS - 1],
   cur : CacheRequest, line : Lines, wb : Lines, word : Offsets,
   scan : Lines, active : BOOLEAN, done : BOOLEAN]

\* Extending and merging words give words.
LEMMA WordOps ==
    ASSUME NEW x \in Word, NEW y \in Word, NEW f3, NEW lane \in Lanes
    PROVE  Extend(x, f3, lane) \in Word /\ Merge(x, f3, lane, y) \in Word
<1>1. x[lane] \in 0 .. 1 /\ y[0] \in 0 .. 1
  BY DEF Word, Lanes
<1>2. Extend(x, f3, lane) \in Word
  <2>1. CASE f3 = "lb"
    BY <1>1, <2>1, Zenon DEF Extend, Word
  <2>2. CASE f3 = "lbu"
    BY <1>1, <2>2 DEF Extend, Word
  <2>3. CASE f3 \notin {"lb", "lbu"}
    BY <2>3, Zenon DEF Extend
  <2>4. QED
    BY <2>1, <2>2, <2>3, Zenon
<1>3. Merge(x, f3, lane, y) \in Word
  BY <1>1, Zenon DEF Merge, Word
<1>4. QED
  BY <1>2, <1>3, Zenon

\* The lane of an address.
LEMMA AddressLane ==
    ASSUME NEW a \in Nat
    PROVE  LaneOf(a) \in Lanes
BY DEF LaneOf, Lanes

\* Loads and stores of the memory array.
LEMMA ArrayOps ==
    ASSUME NEW mem \in [Words -> Word], NEW a \in Address, NEW f3, NEW x \in Word
    PROVE  LoadFrom(mem, a, f3) \in Word /\ StoreTo(mem, a, f3, x) \in [Words -> Word]
<1>1. WordOf(a) \in Words /\ LaneOf(a) \in Lanes
  BY AddressRange, AddressLane, Zenon
<1>2. mem[WordOf(a)] \in Word
  BY <1>1, Zenon
<1>3. Merge(mem[WordOf(a)], f3, LaneOf(a), x) \in Word
  BY <1>1, <1>2, WordOps, Zenon
<1>4. QED
  BY <1>1, <1>2, <1>3, WordOps, Zenon DEF LoadFrom, StoreTo

\* The flush.
LEMMA FlushTypes ==
    ASSUME NEW d \in CacheRecord
    PROVE  /\ FlushStart(d) \in CacheRecord
           /\ d.scan # NUM_SETS * WAYS - 1 => d.scan + 1 \in Lines
           /\ ScanOn(d) \in CacheRecord
           /\ ScanLine(d) \in CacheRecord
<1>1. NUM_SETS * WAYS \in Nat \ {0}
  BY Geometry
<1>2. 0 \in Lines /\ (d.scan # NUM_SETS * WAYS - 1 => d.scan + 1 \in Lines)
  <2> DEFINE N == NUM_SETS * WAYS
  <2>1. N \in Nat \ {0} /\ Lines = 0 .. N - 1 /\ d.scan \in Lines
    BY <1>1, Zenon DEF Lines, CacheRecord
  <2> HIDE DEF N
  <2>2. 0 \in Lines /\ (d.scan # N - 1 => d.scan + 1 \in Lines)
    BY <2>1
  <2>3. QED
    BY <2>2, Zenon DEF N
<1>3. FlushStart(d) \in CacheRecord
  BY <1>2, Zenon DEF FlushStart, CacheRecord
<1>4. ScanOn(d) \in CacheRecord
  BY <1>2, Zenon DEF ScanOn, CacheRecord
<1>5. 0 \in Offsets
  BY Geometry DEF Offsets
<1>6. ScanLine(d) \in CacheRecord
  BY <1>4, <1>5, Zenon DEF ScanLine, CacheRecord
<1>7. QED
  BY <1>2, <1>3, <1>4, <1>6, Zenon

\* Hits and misses.
LEMMA AcceptTypes ==
    ASSUME NEW d \in CacheRecord, NEW req \in CacheRequest
    PROVE  /\ Miss(d, req) \in CacheRecord
           /\ hit(req.addr) =>
                /\ hit_line_idx(req.addr) \in way_hit(req.addr)
                /\ hit_line_idx(req.addr) \in Lines
                /\ WriteHit(d, req) \in CacheRecord /\ ReadHit(d, req) \in CacheRecord
<1> DEFINE a == req.addr
           o == word_off(a)
           s == set_idx(a)
<1>1. a \in Address /\ a \in Nat
  BY AddressRange, Zenon DEF CacheRequest
<1>2. o \in Offsets /\ s \in Sets /\ LaneOf(a) \in Lanes /\ 0 \in Offsets
  BY <1>1, AddressParts, AddressLane, Geometry DEF Offsets
<1>3. SetLines(s) \subseteq Lines
  BY <1>2, SetInCache, Zenon
<1>4. Miss(d, req) \in CacheRecord
  <2> DEFINE v == s * WAYS + d.victim[s]
  <2>1. v \in Lines
    BY <1>2, <1>3, Zenon DEF SetLines, CacheRecord
  <2>2. Miss(d, req) =
          [d EXCEPT !.line = v, !.cur = req, !.word = 0,
                    !.wb = IF d.valid[v] /\ d.dirty[v] THEN v ELSE d.wb,
                    !.state = IF d.valid[v] /\ d.dirty[v] THEN "WB" ELSE "FILL"]
    BY Zenon DEF Miss, CacheRecord
  <2> HIDE DEF v
  <2>3. QED
    BY <1>2, <2>1, <2>2, Zenon DEF CacheRecord
<1>5. ASSUME hit(a)
      PROVE  /\ hit_line_idx(a) \in way_hit(a) /\ hit_line_idx(a) \in Lines
             /\ WriteHit(d, req) \in CacheRecord /\ ReadHit(d, req) \in CacheRecord
  <2> DEFINE l == hit_line_idx(a)
             m == Merge(d.data[l][o], req.f3, LaneOf(a), req.data)
  <2>1. l \in way_hit(a)
    BY <1>5, Zenon DEF hit, hit_line_idx
  <2>2. l \in Lines
    BY <1>3, <2>1, Zenon DEF way_hit
  <2>3. m \in Word
    <3>1. d.data[l][o] \in Word /\ req.data \in Word
      BY <1>2, <2>2 DEF CacheRecord, CacheRequest
    <3>2. QED
      BY <1>2, <3>1, WordOps, Zenon
  <2>4. WriteHit(d, req) = [d EXCEPT !.data[l][o] = m, !.dirty[l] = TRUE]
    BY <1>2, <2>2, Zenon DEF WriteHit, CacheRecord
  <2> HIDE DEF m, l, o
  <2>5. WriteHit(d, req) \in CacheRecord
    <3> DEFINE f == [d.data EXCEPT ![l][o] = m]
               g == [d.dirty EXCEPT ![l] = TRUE]
    <3>1. d.data \in [Lines -> [Offsets -> Word]] /\ d.dirty \in [Lines -> BOOLEAN]
      BY Zenon DEF CacheRecord
    <3>2. f \in [Lines -> [Offsets -> Word]] /\ g \in [Lines -> BOOLEAN]
      BY <1>2, <2>2, <2>3, <3>1, Zenon DEF o
    <3>3. WriteHit(d, req) = [d EXCEPT !.data = f, !.dirty = g]
      BY <2>4, Zenon DEF CacheRecord
    <3> HIDE DEF f, g
    <3>4. QED
      BY <3>2, <3>3, Zenon DEF CacheRecord
  <2>6. ReadHit(d, req) \in CacheRecord
    BY <2>2, Zenon DEF ReadHit, CacheRecord, l
  <2>7. QED
    BY <2>1, <2>2, <2>5, <2>6, Zenon DEF l
<1>6. QED
  BY <1>4, <1>5, Zenon

\* The words that go to memory and come from it.
LEMMA TransferTypes ==
    ASSUME dcache \in CacheRecord, NEW d \in CacheRecord,
           d.word = dcache.word, NEW x \in Word
    PROVE  /\ WriteBackWord(d) \in CacheRecord
           /\ fill_value(x) \in Word
           /\ FillWord(d, x) \in CacheRecord
<1>1. /\ dcache.cur \in CacheRequest /\ d.word \in Offsets /\ d.cur \in CacheRequest
      /\ d.line \in Lines /\ d.wb \in Lines
      /\ d.data \in [Lines -> [Offsets -> Word]] /\ d.dirty \in [Lines -> BOOLEAN]
      /\ d.valid \in [Lines -> BOOLEAN] /\ d.tag \in [Lines -> Tags]
      /\ d.victim \in [Sets -> 0 .. WAYS - 1]
  BY Zenon DEF CacheRecord
<1>2. ~fill_is_last_word => d.word + 1 \in Offsets
  <2>1. d.word \in 0 .. LINE_WORDS - 1
    BY <1>1, Zenon DEF Offsets
  <2>2. QED
    BY <2>1, Geometry DEF fill_is_last_word, Offsets
<1>3. 0 \in Offsets
  BY Geometry DEF Offsets
<1>4. fill_value(x) \in Word
  <2>1. dcache.cur.addr \in Nat /\ dcache.cur.data \in Word
    BY <1>1, AddressRange, Zenon DEF CacheRequest
  <2>2. QED
    BY <2>1, AddressLane, WordOps, Zenon DEF fill_value
<1>5. WriteBackWord(d) \in CacheRecord
  <2> DEFINE g == [d.dirty EXCEPT ![d.wb] = FALSE]
             clean == [d EXCEPT !.dirty = g]
  <2>1. g \in [Lines -> BOOLEAN]
    BY <1>1, Zenon
  <2>2. [d EXCEPT !.dirty[d.wb] = FALSE] = clean
    BY Zenon DEF CacheRecord
  <2> HIDE DEF g
  <2>3. clean \in CacheRecord
    BY <2>1, Zenon DEF CacheRecord
  <2>4. WriteBackWord(d) =
          IF ~fill_is_last_word THEN [d EXCEPT !.word = d.word + 1]
          ELSE IF d.active THEN ScanOn(clean)
               ELSE [clean EXCEPT !.word = 0, !.state = "FILL"]
    BY <2>2, Zenon DEF WriteBackWord, CacheRecord
  <2> HIDE DEF clean
  <2>5. CASE ~fill_is_last_word
    <3>1. WriteBackWord(d) = [d EXCEPT !.word = d.word + 1]
      BY <2>4, <2>5, Zenon
    <3>2. QED
      BY <1>2, <2>5, <3>1, Zenon DEF CacheRecord
  <2>6. CASE fill_is_last_word /\ d.active
    BY <2>3, <2>4, <2>6, FlushTypes, Zenon
  <2>7. CASE fill_is_last_word /\ ~d.active
    <3>1. WriteBackWord(d) = [clean EXCEPT !.word = 0, !.state = "FILL"]
      BY <2>4, <2>7, Zenon
    <3>2. QED
      BY <1>3, <2>3, <3>1, Zenon DEF CacheRecord
  <2>8. QED
    BY <2>5, <2>6, <2>7, Zenon
<1>6. FillWord(d, x) \in CacheRecord
  <2> DEFINE y == fill_value(x)
             f == [d.data EXCEPT ![d.line][d.word] = y]
             v == [d.valid EXCEPT ![d.line] = TRUE]
             t == [d.tag EXCEPT ![d.line] = tag_of(d.cur.addr)]
             g == [d.dirty EXCEPT ![d.line] = d.cur.write]
             n == [d.victim EXCEPT ![set_idx(d.cur.addr)] = (d.line + 1) % WAYS]
  <2>1. d.cur.addr \in Address /\ d.cur.addr \in Nat /\ d.cur.write \in BOOLEAN
    BY <1>1, AddressRange, Zenon DEF CacheRequest
  <2>2. tag_of(d.cur.addr) \in Tags /\ set_idx(d.cur.addr) \in Sets
    BY <2>1, AddressRange, AddressSet, Zenon
  <2>3. (d.line + 1) % WAYS \in 0 .. WAYS - 1
    BY <1>1, Geometry DEF Lines
  <2>4. f \in [Lines -> [Offsets -> Word]]
    <3> HIDE DEF y
    <3>1. QED
      BY <1>1, <1>4, Zenon DEF y
  <2>5. v \in [Lines -> BOOLEAN] /\ g \in [Lines -> BOOLEAN]
    BY <1>1, <2>1, Zenon
  <2>6. t \in [Lines -> Tags]
    BY <1>1, <2>2, Zenon
  <2>7. n \in [Sets -> 0 .. WAYS - 1]
    BY <1>1, <2>2, <2>3, Zenon
  <2>8. CASE ~fill_is_last_word
    <3>1. FillWord(d, x) = [d EXCEPT !.data = f, !.word = d.word + 1]
      BY <2>8, Zenon DEF FillWord, CacheRecord
    <3> HIDE DEF f
    <3>2. QED
      BY <1>2, <2>4, <2>8, <3>1, Zenon DEF CacheRecord
  <2>9. CASE fill_is_last_word
    <3>1. FillWord(d, x) = [d EXCEPT !.data = f, !.valid = v, !.tag = t, !.dirty = g,
                                     !.victim = n, !.state = "IDLE"]
      BY <2>9, Zenon DEF FillWord, CacheRecord
    <3> HIDE DEF f, v, t, g, n
    <3>2. QED
      BY <2>4, <2>5, <2>6, <2>7, <3>1, ZenonT(30) DEF CacheRecord
  <2>10. QED
    BY <2>8, <2>9, Zenon
<1>7. QED
  BY <1>4, <1>5, <1>6, Zenon

Instruction ==
  [op : {"nop", "load", "store", "fence"}, addr : Address,
   f3 : LoadWidths \cup StoreWidths, data : Word]
RamRecord ==
  [mem : [Words -> Word], pending : BOOLEAN, read : Word,
   active : BOOLEAN, addr : Address, we : BOOLEAN, busy : BOOLEAN,
   count : Nat, done : BOOLEAN, captured : BOOLEAN, data : Word]
BusRequest ==
  [cyc : BOOLEAN, we : BOOLEAN, addr : Address, data : Word,
   f3 : LoadWidths \cup StoreWidths]

\* TypeOK in terms of the sets above.
LEMMA TypesNamed ==
    /\ RamTypeOK <=> ram \in RamRecord
    /\ DCacheTypeOK <=> dcache \in CacheRecord
<1>1. RamTypeOK <=> ram \in RamRecord
  BY Zenon DEF RamTypeOK, RamRecord, Words
<1>2. DCacheTypeOK <=> dcache \in CacheRecord
  BY Zenon DEF DCacheTypeOK, CacheRecord, CacheRequest, Offsets, Sets
<1>3. QED
  BY <1>1, <1>2, Zenon

\* Instructions have operands, and loads and stores addresses of the build.
LEMMA InstructionTypes ==
    ASSUME build \in Builds, NEW i \in Instructions
    PROVE  /\ i \in Instruction
           /\ i.op = "load" => i.addr \in build.LoadAddrs
<1>1. /\ build.LoadAddrs \subseteq Address /\ build.StoreAddrs \subseteq Address
      /\ build.Widths \subseteq LoadWidths \cup StoreWidths
  BY BuildsAssumption, Zenon DEF Build
<1>2. Zero \in Word /\ StoreData \subseteq Word
  BY DEF Zero, Word, Lanes, StoreData
<1>3. 0 \in Address
  BY WordsAssumption DEF Address
<1>4. Bubble \in Instruction
  BY <1>2, <1>3, Zenon DEF Bubble, Instruction, LoadWidths
<1>5. Loads \subseteq Instruction /\ \A j \in Loads : j.addr \in build.LoadAddrs
  BY <1>1, <1>2 DEF Loads, Instruction
<1>6. Stores \subseteq Instruction /\ \A j \in Stores : j.op = "store"
  BY <1>1, <1>2 DEF Stores, Instruction
<1>7. [Bubble EXCEPT !.op = "fence"] \in Instruction
      /\ [Bubble EXCEPT !.op = "fence"].op = "fence" /\ Bubble.op = "nop"
  BY <1>4, Zenon DEF Instruction, Bubble
<1>8. QED
  BY <1>4, <1>5, <1>6, <1>7, Zenon DEF Instructions

\* What MEM and the cache put on the bus.
LEMMA RequestTypes ==
    ASSUME TypeOK
    PROVE  /\ dcache_req \in CacheRequest
           /\ dcache.state = "WB" =>
                dcache_bus.addr = 2 * WordAt(Home(dcache.wb), dcache.word)
           /\ dcache.state = "FILL" =>
                dcache_bus.addr = 2 * WordAt(LineOf(dcache.cur.addr), dcache.word)
           /\ dcache_bus \in BusRequest /\ lsu_bus \in BusRequest
           /\ wb_m \in BusRequest
<1>1. ram \in RamRecord /\ dcache \in CacheRecord /\ build \in Builds
      /\ reg3 \in Instructions
  BY TypesNamed, Zenon DEF TypeOK
<1>2. reg3 \in Instruction
  BY <1>1, InstructionTypes, Zenon
<1>3. Zero \in Word /\ 0 \in Address
  BY WordsAssumption DEF Zero, Word, Lanes, Address
<1>4. dcache_req \in CacheRequest
  BY <1>2, <1>3, Zenon
     DEF dcache_req, CacheRequest, Instruction, Idle, memRead_regem,
     memWrite_regem, LoadWidths
<1>5. lsu_bus \in BusRequest
  BY <1>2, <1>3, Zenon
     DEF lsu_bus, BusRequest, Instruction, NoRequest, memRead_regem,
     memWrite_regem, LoadWidths
<1>6. /\ dcache.wb \in Lines /\ dcache.tag[dcache.wb] \in Tags
      /\ dcache.word \in Offsets /\ dcache.cur.addr \in Address
      /\ dcache.data[dcache.wb][dcache.word] \in Word
  BY <1>1 DEF CacheRecord, CacheRequest
<1>7. dcache.state = "WB" =>
        dcache_bus.addr = 2 * WordAt(Home(dcache.wb), dcache.word)
  <2>1. LineBase(dcache.wb) + 2 * dcache.word = 2 * WordAt(Home(dcache.wb), dcache.word)
    BY <1>6, WriteBackAddress, Zenon
  <2>2. QED
    BY <2>1, Zenon DEF dcache_bus
<1>8. dcache.state = "FILL" =>
        dcache_bus.addr = 2 * WordAt(LineOf(dcache.cur.addr), dcache.word)
  <2>1. dcache.cur.addr \in Nat
    BY <1>6, AddressRange, Zenon
  <2>2. (dcache.cur.addr - (dcache.cur.addr % (2 * LINE_WORDS))) + 2 * dcache.word
          = 2 * WordAt(LineOf(dcache.cur.addr), dcache.word)
    BY <1>6, <2>1, RefillAddress, Zenon
  <2>3. QED
    BY <2>2, Zenon DEF dcache_bus
<1>9. ASSUME NEW w \in Words
      PROVE  2 * w \in Address
  BY WordsAssumption DEF Words, Address
<1>10. dcache_bus.addr \in Address
  <2>1. Home(dcache.wb) \in Nat /\ Home(dcache.wb) < MemoryLines
    BY <1>6, HomeRange, Zenon
  <2>2. WordAt(Home(dcache.wb), dcache.word) \in Words
    BY <1>6, <2>1, LineRange, Zenon
  <2>3. dcache.cur.addr \in Nat /\ LineOf(dcache.cur.addr) < MemoryLines
    BY <1>6, AddressRange, Zenon
  <2>4. LineOf(dcache.cur.addr) \in Nat
    BY <2>3, AddressParts, Zenon
  <2>5. WordAt(LineOf(dcache.cur.addr), dcache.word) \in Words
    BY <1>6, <2>3, <2>4, LineRange, Zenon
  <2>6. dcache.state \notin {"WB", "FILL"} => dcache_bus.addr = 0
    BY Zenon DEF dcache_bus
  <2>7. QED
    BY <1>3, <1>7, <1>8, <1>9, <2>2, <2>5, <2>6, Zenon
<1>11. dcache_bus \in BusRequest
  <2> DEFINE a == dcache_bus.addr
             x == IF dcache.state = "WB" THEN dcache.data[dcache.wb][dcache.word]
                  ELSE Zero
             w == IF dcache.state = "WB" THEN "sw" ELSE "lw"
             c == dcache.state \in {"WB", "FILL"}
             e == dcache.state = "WB"
  <2>1. dcache_bus = [cyc |-> c, we |-> e, addr |-> a, data |-> x, f3 |-> w]
    BY Zenon DEF dcache_bus
  <2>2. a \in Address /\ x \in Word /\ w \in LoadWidths \cup StoreWidths
    BY <1>3, <1>6, <1>10, Zenon DEF LoadWidths, StoreWidths
  <2>3. c \in BOOLEAN /\ e \in BOOLEAN
    OBVIOUS
  <2> HIDE DEF a, x, w, c, e
  <2>4. QED
    BY <2>1, <2>2, <2>3, Zenon DEF BusRequest
<1>12. QED
  BY <1>4, <1>5, <1>7, <1>8, <1>11, Zenon DEF wb_m

\* The memory's edge, field by field.
LEMMA RamMoves ==
    ASSUME TypeOK, NEW bus \in BusRequest, RamEdge(bus)
    PROVE  /\ ram' \in RamRecord
           /\ ram'.mem = IF bus.cyc /\ bus.we
                         THEN StoreTo(ram.mem, bus.addr, bus.f3, bus.data) ELSE ram.mem
           /\ ram'.pending = (bus.cyc /\ ~bus.we)
           /\ bus.cyc /\ ~bus.we => ram'.read = LoadFrom(ram.mem, bus.addr, bus.f3)
           /\ build.Latency # 0 =>
                LET new == is_new_request(bus)
                    capture == ~new /\ ram_ack_raw(bus) /\ ~ram.captured
                    ends == ram.busy /\ ram.count = 0
                IN  /\ ram'.active = (new \/ (ram.active /\ ~ram.done))
                    /\ ram'.addr = IF new THEN bus.addr ELSE ram.addr
                    /\ ram'.we = IF new THEN bus.we ELSE ram.we
                    /\ ram'.captured = (~new /\ (ram.captured \/ capture))
                    /\ ram'.data = IF capture THEN ram_data_raw ELSE ram.data
                    /\ ram'.busy = ((new /\ ~ram.busy) \/ (ram.busy /\ ~ends))
                    /\ ram'.done = ends
<1> DEFINE new == is_new_request(bus)
           capture == ~new /\ ram_ack_raw(bus) /\ ~ram.captured
           ends == ram.busy /\ ram.count = 0
           starts == new /\ ~ram.busy
           reads == bus.cyc /\ ~bus.we
           mem == IF bus.cyc /\ bus.we
                  THEN StoreTo(ram.mem, bus.addr, bus.f3, bus.data) ELSE ram.mem
           read == IF reads THEN LoadFrom(ram.mem, bus.addr, bus.f3) ELSE ram.read
           data == IF capture THEN ram_data_raw ELSE ram.data
           count == IF starts THEN build.Latency - 1
                    ELSE IF ram.busy /\ ~ends THEN ram.count - 1 ELSE ram.count
<1>1. ram \in RamRecord /\ build.Latency \in Nat
  BY TypesNamed, BuildsAssumption, Zenon DEF TypeOK, Build
<1>2. mem \in [Words -> Word] /\ read \in Word
  BY <1>1, ArrayOps, Zenon DEF RamRecord, BusRequest
<1>3. data \in Word
  BY <1>1 DEF ram_data_raw, RamRecord, Zero, Word
<1>4. new \in BOOLEAN /\ capture \in BOOLEAN /\ ends \in BOOLEAN /\ starts \in BOOLEAN
      /\ reads \in BOOLEAN
  BY <1>1, Zenon DEF RamRecord, BusRequest, is_new_request, ram_ack_raw
<1>5. build.Latency # 0 => count \in Nat
  BY <1>1 DEF RamRecord
<1>6. BramEdge(bus) = [ram EXCEPT !.mem = mem, !.pending = reads, !.read = read]
  BY <1>1, Zenon DEF BramEdge, RamRecord
<1>7. CASE build.Latency = 0
  <2>1. ram' = [ram EXCEPT !.mem = mem, !.pending = reads, !.read = read]
    BY <1>6, <1>7, Zenon DEF RamEdge
  <2>2. reads => read = LoadFrom(ram.mem, bus.addr, bus.f3)
    BY Zenon
  <2> HIDE DEF mem, read, reads
  <2>3. ram' \in RamRecord /\ ram'.mem = mem /\ ram'.pending = reads
        /\ (reads => ram'.read = LoadFrom(ram.mem, bus.addr, bus.f3))
    BY <1>1, <1>2, <1>4, <2>1, <2>2, Zenon DEF RamRecord
  <2>4. QED
    BY <1>7, <2>3, Zenon DEF mem, reads
<1>8. CASE build.Latency # 0
  <2> DEFINE b == BramEdge(bus)
             active == new \/ (ram.active /\ ~ram.done)
             addr == IF new THEN bus.addr ELSE ram.addr
             we == IF new THEN bus.we ELSE ram.we
             captured == ~new /\ (ram.captured \/ capture)
             busy == starts \/ (ram.busy /\ ~ends)
  <2>1. ram' = LatencyEdge(CaptureEdge(b, bus), new)
    BY <1>8, Zenon DEF RamEdge
  <2>2. b \in RamRecord /\ b.active = ram.active /\ b.addr = ram.addr
        /\ b.we = ram.we /\ b.captured = ram.captured /\ b.data = ram.data
        /\ b.count = ram.count /\ b.mem = mem /\ b.pending = reads /\ b.read = read
    <3> HIDE DEF mem, read, reads
    <3>1. QED
      BY <1>1, <1>2, <1>4, <1>6, Zenon DEF RamRecord
  <2>3. CaptureEdge(b, bus) =
          [b EXCEPT !.active = active, !.addr = addr, !.we = we,
                    !.captured = captured, !.data = data]
    <3> HIDE DEF b
    <3>1. QED
      BY <2>2, Zenon DEF CaptureEdge, RamRecord
  <2>4. /\ active \in BOOLEAN /\ addr \in Address /\ we \in BOOLEAN
        /\ captured \in BOOLEAN /\ busy \in BOOLEAN
    BY <1>1, <1>4, Zenon DEF RamRecord, BusRequest
  <2> DEFINE c == CaptureEdge(b, bus)
  <2> HIDE DEF b, active, addr, we, captured, data, mem, read, reads
  <2>5. c \in RamRecord /\ c.count = ram.count /\ c.mem = mem /\ c.pending = reads
        /\ c.read = read /\ c.active = active /\ c.addr = addr /\ c.we = we
        /\ c.captured = captured /\ c.data = data
    <3> HIDE DEF new, capture, ends, starts, busy, count
    <3>1. c \in RamRecord
      BY <1>3, <2>2, <2>3, <2>4, Zenon DEF RamRecord
    <3>2. QED
      BY <2>2, <2>3, <3>1, Zenon DEF RamRecord
  <2> HIDE DEF c
  <2>6. ram' = [c EXCEPT !.busy = busy, !.count = count, !.done = ends]
    BY <2>1, <2>5, Zenon DEF LatencyEdge, RamRecord, c
  <2> HIDE DEF busy, count, ends
  <2>7. /\ ram' \in RamRecord /\ ram'.mem = mem /\ ram'.pending = reads
        /\ ram'.read = read /\ ram'.active = active /\ ram'.addr = addr
        /\ ram'.we = we /\ ram'.captured = captured /\ ram'.data = data
        /\ ram'.busy = busy /\ ram'.done = ends
    BY <1>4, <1>5, <1>8, <2>4, <2>5, <2>6, Zenon DEF RamRecord
  <2>8. QED
    BY <2>7, Zenon
       DEF mem, reads, read, active, addr, we, captured, data, busy, ends
<1>9. QED
  BY <1>7, <1>8, Zenon

\* What the memory and the cache answer.
LEMMA AnswerTypes ==
    ASSUME TypeOK
    PROVE  /\ wb_data \in Word
           /\ resp_rdata(dcache_req, lsu_ack, wb_data) \in Word
<1>1. ram \in RamRecord /\ dcache \in CacheRecord
  BY TypesNamed, Zenon DEF TypeOK
<1>2. Zero \in Word
  BY DEF Zero, Word, Lanes
<1>3. wb_data \in Word
  BY <1>1, <1>2, Zenon DEF wb_data, ram_data_raw, RamRecord
<1>4. fill_value(wb_data) \in Word
  BY <1>1, <1>3, TransferTypes, Zenon
<1>5. dcache.cur.addr \in Nat
  BY <1>1, AddressRange, Zenon DEF CacheRecord, CacheRequest
<1>6. dcache.data[dcache.line][word_off(dcache.cur.addr)] \in Word
  <2>1. word_off(dcache.cur.addr) \in Offsets
    BY <1>5, AddressParts, Zenon
  <2>2. QED
    BY <1>1, <2>1 DEF CacheRecord
<1>7. LaneOf(dcache.cur.addr) \in Lanes
  BY <1>5, AddressLane, Zenon
<1>8. QED
  BY <1>2, <1>3, <1>4, <1>6, <1>7, WordOps, Zenon DEF resp_rdata

\* The cache's edge takes one of the transitions of DCache.v.
LEMMA CacheTypes ==
    ASSUME TypeOK, Next
    PROVE  dcache' \in CacheRecord
<1> DEFINE d == [dcache EXCEPT !.done = FALSE]
           req == dcache_req
<1>1. dcache \in CacheRecord
  BY TypesNamed, Zenon DEF TypeOK
<1>2. d \in CacheRecord /\ d.word = dcache.word /\ d.state = dcache.state
  BY <1>1, Zenon DEF CacheRecord
<1>3. req \in CacheRequest /\ wb_data \in Word
  BY RequestTypes, AnswerTypes, Zenon
<1>4. dcache' =
        CASE d.state = "IDLE" ->
               IF flush_all /\ ~d.active THEN FlushStart(d)
               ELSE IF req.read \/ req.write THEN Accept(d, req) ELSE d
          [] d.state = "HIT_RD" -> [d EXCEPT !.state = "IDLE"]
          [] d.state = "WB" -> IF lsu_ack THEN WriteBackWord(d) ELSE d
          [] d.state = "FILL" -> IF lsu_ack THEN FillWord(d, wb_data) ELSE d
          [] d.state = "SCAN" -> ScanLine(d)
  BY Zenon DEF Next, DCacheEdge
<1>5. FlushStart(d) \in CacheRecord /\ ScanLine(d) \in CacheRecord
  BY <1>2, FlushTypes, Zenon
<1>6. WriteBackWord(d) \in CacheRecord /\ FillWord(d, wb_data) \in CacheRecord
  BY <1>1, <1>2, <1>3, TransferTypes, Zenon
<1>7. Accept(d, req) \in CacheRecord
  BY <1>2, <1>3, AcceptTypes, Zenon DEF Accept
<1>8. [d EXCEPT !.state = "IDLE"] \in CacheRecord
  BY <1>2, Zenon DEF CacheRecord
<1>9. d.state \in {"IDLE", "HIT_RD", "WB", "FILL", "SCAN"}
  BY <1>2, Zenon DEF CacheRecord
<1> HIDE DEF d, req
<1>10. QED
  BY <1>2, <1>4, <1>5, <1>6, <1>7, <1>8, <1>9, Zenon

\* A clock edge keeps the types.
LEMMA TypeStep ==
    ASSUME TypeOK, Next
    PROVE  TypeOK'
<1>1. build' = build /\ build \in Builds
  BY Zenon DEF Next, TypeOK
<1>2. dcache' \in CacheRecord
  BY CacheTypes, Zenon
<1>3. ram' \in RamRecord
  <2>1. wb_m \in BusRequest /\ RamEdge(wb_m)
    BY RequestTypes, Zenon DEF Next
  <2>2. QED
    BY <2>1, RamMoves, Zenon
<1>4. RamTypeOK' /\ DCacheTypeOK'
  BY <1>2, <1>3, Zenon
     DEF RamTypeOK, RamRecord, DCacheTypeOK, CacheRecord, CacheRequest,
     Words, Offsets, Sets
<1>5. PICK i \in Instructions :
         /\ mem_stall \/ i \in Program
         /\ MemEdge(i) /\ FenceEdge(i)
  BY Zenon DEF Next, Program, Instructions
<1>6. Instructions' = Instructions
  BY <1>1 DEF Instructions, Loads, Stores
<1>7. reg3' \in Instructions'
  BY <1>5, <1>6, Zenon DEF MemEdge, TypeOK
<1>8. /\ mem_stall_done_r' \in BOOLEAN /\ fence_pending_r' \in BOOLEAN
      /\ fence_flush_started_r' \in BOOLEAN
  <2>1. ram \in RamRecord /\ dcache \in CacheRecord
    BY TypesNamed, Zenon DEF TypeOK
  <2>2. (mem_stall /\ mem_access_ready) \in BOOLEAN
    BY Zenon DEF mem_stall
  <2>3. QED
    BY <1>5, <2>1, <2>2, Zenon DEF MemEdge, FenceEdge, CacheRecord, TypeOK
<1>9. dcache_rdata_captured_r' \in Word
  BY <1>5, AnswerTypes, Zenon DEF MemEdge, TypeOK
<1>10. flat' \in [Words -> Word]
  <2>1. reg3 \in Instruction
    BY InstructionTypes, Zenon DEF TypeOK
  <2>2. flat \in [Words -> Word]
    BY Zenon DEF TypeOK, Words
  <2>3. StoreTo(flat, reg3.addr, reg3.f3, reg3.data) \in [Words -> Word]
    BY <2>1, <2>2, ArrayOps, Zenon DEF Instruction
  <2>4. QED
    BY <1>5, <2>2, <2>3, Zenon DEF MemEdge
<1>11. stores' \in 0 .. STORES
  BY <1>5, StoresAssumption DEF MemEdge, TypeOK, Program
<1>12. QED
  BY <1>1, <1>4, <1>7, <1>8, <1>9, <1>10, <1>11, Zenon DEF TypeOK, Words

\* And so does the start.
LEMMA TypeStart ==
    ASSUME Init
    PROVE  TypeOK
<1>1. Zero \in Word /\ 0 \in Address /\ 0 \in Offsets /\ 0 \in Lines /\ 0 \in Tags
      /\ 0 \in 0 .. WAYS - 1
  <2>1. NUM_SETS * WAYS \in Nat \ {0}
    BY Geometry
  <2>2. 0 \in Lines
    BY <2>1 DEF Lines
  <2>3. 0 \in Tags
    BY WholeLines DEF Tags
  <2>4. QED
    BY <2>2, <2>3, Geometry DEF Zero, Word, Lanes, Address, Offsets
<1>2. flat \in [Words -> Word]
  BY <1>1, Zenon DEF Init, Words
<1>3. ram \in RamRecord
  BY <1>1, <1>2, Zenon DEF Init, RamInit, RamRecord
<1>4. dcache \in CacheRecord
  BY <1>1, Zenon
     DEF Init, DCacheInit, CacheRecord, CacheRequest, Idle, Offsets, Sets,
     LoadWidths
<1>5. reg3 \in Instructions
  BY Zenon DEF Init, Instructions
<1>6. RamTypeOK /\ DCacheTypeOK
  BY <1>3, <1>4, TypesNamed, Zenon
<1>7. stores \in 0 .. STORES
  BY StoresAssumption DEF Init
<1>8. QED
  BY <1>1, <1>2, <1>5, <1>6, <1>7, Zenon DEF Init, TypeOK, Words

\* Registers keep their widths in every build, and the cache never names an
\* address, a line or a word that does not exist.
THEOREM TypeCorrect == Spec => []TypeOK
<1>1. TypeOK /\ [Next]_vars => TypeOK'
  <2>1. ASSUME TypeOK, UNCHANGED vars PROVE TypeOK'
    BY <2>1
       DEF TypeOK, vars, RamTypeOK, DCacheTypeOK, Instructions, Loads, Stores
  <2>2. QED
    BY <2>1, TypeStep, Zenon
<1>2. QED
  BY <1>1, TypeStart, PTL DEF Spec

----------------------------------------------------------------------------
(* Without the cache.                                                      *)

\* What the bus does when MEM drives it itself.
LEMMA DirectWires ==
    ASSUME TypeOK, Supported, ~build.Cached, Direct
    PROVE  /\ memWrite_regem => ~mem_stall
           /\ mem_stall => memRead_regem
           /\ dcache_req = Idle /\ ~flush_all
           /\ wb_m = lsu_bus /\ build.Latency = 0
           /\ memRead_regem \/ memWrite_regem =>
                lsu_bus = [cyc |-> TRUE, we |-> memWrite_regem, addr |-> reg3.addr,
                           data |-> reg3.data, f3 |-> reg3.f3]
           /\ ~(memRead_regem \/ memWrite_regem) => ~lsu_bus.cyc
<1>1. build.Latency = 0
  BY Zenon DEF Supported
<1>2. wb_m = lsu_bus
  BY Zenon DEF wb_m
<1>3. memWrite_regem => lsu_ack
  BY <1>1, <1>2, Zenon DEF lsu_ack, wb_ack, ram_ack_raw, lsu_bus
<1>4. memRead_regem /\ memWrite_regem => FALSE
  BY Zenon DEF memRead_regem, memWrite_regem
<1>5. (memWrite_regem => ~mem_stall) /\ (mem_stall => memRead_regem)
  BY <1>3, <1>4, Zenon DEF mem_stall, mem_trigger
<1>6. QED
  BY <1>1, <1>2, <1>5, Zenon
     DEF dcache_req, flush_all, Direct, lsu_bus, NoRequest

\* A cycle leaves memory up to date, and the read port on the load in MEM.
LEMMA DirectStep ==
    ASSUME TypeOK, Supported, ~build.Cached, Direct, Next
    PROVE  Direct'
<1>1. /\ memWrite_regem => ~mem_stall
      /\ mem_stall => memRead_regem
      /\ dcache_req = Idle /\ ~flush_all
      /\ wb_m = lsu_bus
  BY DirectWires, Zenon
<1>2. memRead_regem \/ memWrite_regem =>
        lsu_bus = [cyc |-> TRUE, we |-> memWrite_regem, addr |-> reg3.addr,
                   data |-> reg3.data, f3 |-> reg3.f3]
  BY DirectWires, Zenon
<1>3. ~(memRead_regem \/ memWrite_regem) => ~lsu_bus.cyc
  BY DirectWires, Zenon
<1>4. dcache' = [dcache EXCEPT !.done = FALSE]
  <2> DEFINE d == [dcache EXCEPT !.done = FALSE]
  <2>1. dcache \in CacheRecord
    BY TypesNamed, Zenon DEF TypeOK
  <2>2. d.state = "IDLE" /\ ~d.active
    BY <2>1, Zenon DEF Direct, CacheRecord
  <2>3. ~dcache_req.read /\ ~dcache_req.write
    BY <1>1, Zenon DEF Idle
  <2> HIDE DEF d
  <2>4. dcache' = d
    BY <1>1, <2>2, <2>3, Zenon DEF Next, DCacheEdge, d
  <2>5. QED
    BY <2>4, Zenon DEF d
<1>5. /\ dcache'.state = "IDLE" /\ ~dcache'.active
      /\ dcache'.valid = dcache.valid /\ dcache'.dirty = dcache.dirty
  <2>1. dcache \in CacheRecord
    BY TypesNamed, Zenon DEF TypeOK
  <2>2. QED
    BY <1>4, <2>1, Zenon DEF Direct, CacheRecord
<1>6. lsu_bus \in BusRequest /\ RamEdge(lsu_bus)
  BY <1>1, RequestTypes, Zenon DEF Next
<1>7. /\ ram'.mem = IF lsu_bus.cyc /\ lsu_bus.we
                    THEN StoreTo(ram.mem, lsu_bus.addr, lsu_bus.f3, lsu_bus.data)
                    ELSE ram.mem
      /\ ram'.pending = (lsu_bus.cyc /\ ~lsu_bus.we)
      /\ lsu_bus.cyc /\ ~lsu_bus.we =>
           ram'.read = LoadFrom(ram.mem, lsu_bus.addr, lsu_bus.f3)
  BY <1>6, RamMoves, Zenon
<1>8. PICK i : MemEdge(i) /\ FenceEdge(i)
  BY Zenon DEF Next
<1>9. ~(memRead_regem /\ memWrite_regem)
  BY Zenon DEF memRead_regem, memWrite_regem
<1>10. ram'.mem = flat'
  <2>1. CASE memWrite_regem
    <3>1. flat' = StoreTo(flat, reg3.addr, reg3.f3, reg3.data)
      BY <1>1, <1>8, <2>1, Zenon DEF MemEdge
    <3>2. /\ lsu_bus.cyc /\ lsu_bus.we /\ lsu_bus.addr = reg3.addr
          /\ lsu_bus.data = reg3.data /\ lsu_bus.f3 = reg3.f3
      BY <1>2, <2>1
    <3>3. ram'.mem = StoreTo(ram.mem, reg3.addr, reg3.f3, reg3.data)
      BY <1>7, <3>2, Zenon
    <3>4. QED
      BY <3>1, <3>3, Zenon DEF Direct
  <2>2. CASE ~memWrite_regem
    BY <1>2, <1>3, <1>7, <1>8, <2>2 DEF MemEdge, Direct
  <2>3. QED
    BY <2>1, <2>2, Zenon
<1>11. ~fence_pending_r'
  BY <1>8, Zenon DEF FenceEdge, Direct
<1>12. ASSUME memRead_regem', mem_stall_done_r'
       PROVE  ram'.pending /\ ram'.read = LoadFrom(flat', reg3'.addr, reg3'.f3)
  <2>1. mem_stall /\ reg3' = reg3
    BY <1>8, <1>12, Zenon DEF MemEdge
  <2>2. memRead_regem /\ ~memWrite_regem /\ flat' = flat
    BY <1>1, <1>8, <1>9, <2>1, Zenon DEF MemEdge
  <2>3. /\ lsu_bus.cyc /\ ~lsu_bus.we /\ lsu_bus.addr = reg3.addr
        /\ lsu_bus.f3 = reg3.f3
    BY <1>2, <2>2
  <2>4. ram'.pending /\ ram'.read = LoadFrom(ram.mem, reg3.addr, reg3.f3)
    BY <1>7, <2>3, Zenon
  <2>5. QED
    BY <2>1, <2>2, <2>4, Zenon DEF Direct
<1>13. QED
  BY <1>5, <1>10, <1>11, <1>12, Zenon DEF Direct

\* Without the cache, what it promises is there at once.
LEMMA DirectGives ==
    ASSUME TypeOK, Supported, ~build.Cached, Direct
    PROVE  LoadsRight /\ Coherent /\ FenceFlushes
<1>1. LoadsRight
  <2> SUFFICES ASSUME memRead_regem, ~mem_stall
               PROVE  load_data = LoadFrom(flat, reg3.addr, reg3.f3)
    BY Zenon DEF LoadsRight
  <2>1. mem_stall_done_r
    BY Zenon DEF mem_stall, mem_trigger
  <2>2. QED
    BY <2>1, Zenon DEF Direct, load_data, wb_data, ram_data_raw, Supported
<1>2. Coherent
  <2> SUFFICES ASSUME NEW w \in 0 .. WORDS - 1 PROVE Copy(w) = flat[w]
    BY Zenon DEF Coherent
  <2>1. 2 * w \in Nat
    BY Geometry
  <2>2. SetLines(set_idx(2 * w)) \subseteq Lines
    BY <2>1, AddressSet, SetInCache, Zenon
  <2>3. way_hit(2 * w) = {}
    BY <2>2, Zenon DEF way_hit, Direct
  <2>4. QED
    BY <2>3, Zenon DEF Copy, Direct
<1>3. FenceFlushes
  BY Zenon DEF FenceFlushes, Direct
<1>4. QED
  BY <1>1, <1>2, <1>3, Zenon

----------------------------------------------------------------------------
(* With the cache: what happens in a cycle.                                *)

\* A supported build with a cache, in a state of the invariant.
Sound == TypeOK /\ IInv /\ Supported /\ build.Cached /\ Through

Kept == /\ dcache'.valid = dcache.valid /\ dcache'.tag = dcache.tag
        /\ dcache'.dirty = dcache.dirty /\ dcache'.data = dcache.data
Held == /\ dcache'.cur = dcache.cur /\ dcache'.line = dcache.line
        /\ dcache'.wb = dcache.wb
LastWord == dcache.word = LINE_WORDS - 1

\* The twelve things that the cache may do in a cycle.
Waits ==
  /\ dcache.state \in {"IDLE", "WB", "FILL"}
  /\ dcache.state \in {"WB", "FILL"} => ~ram.done
  /\ dcache.state = "IDLE" => ~flush_all /\ ~memRead_regem /\ ~memWrite_regem
  /\ Kept /\ Held
  /\ dcache'.state = dcache.state /\ dcache'.word = dcache.word
  /\ dcache'.scan = dcache.scan
  /\ dcache'.active = dcache.active /\ ~dcache'.done
FlushBegins ==
  /\ dcache.state = "IDLE" /\ flush_all
  /\ Kept /\ dcache'.state = "SCAN" /\ dcache'.scan = 0
  /\ dcache'.active /\ ~dcache'.done
WriteHits ==
  /\ dcache.state = "IDLE" /\ memWrite_regem /\ hit(reg3.addr)
  /\ dcache'.valid = dcache.valid /\ dcache'.tag = dcache.tag
  /\ LET l == hit_line_idx(reg3.addr)
         o == word_off(reg3.addr)
     IN  /\ dcache'.dirty = [dcache.dirty EXCEPT ![l] = TRUE]
         /\ dcache'.data =
              [dcache.data EXCEPT ![l][o] =
                 Merge(dcache.data[l][o], reg3.f3, LaneOf(reg3.addr), reg3.data)]
  /\ dcache'.state = "IDLE" /\ ~dcache'.active /\ ~dcache'.done
ReadHits ==
  /\ dcache.state = "IDLE" /\ memRead_regem /\ hit(reg3.addr)
  /\ Kept /\ dcache'.state = "HIT_RD"
  /\ dcache'.line = hit_line_idx(reg3.addr) /\ dcache'.cur = dcache_req
  /\ ~dcache'.active /\ ~dcache'.done
Misses ==
  /\ dcache.state = "IDLE" /\ (memRead_regem \/ memWrite_regem)
  /\ ~hit(reg3.addr)
  /\ Kept /\ dcache'.cur = dcache_req /\ dcache'.word = 0
  /\ IF dcache.dirty[dcache'.line]
     THEN dcache'.state = "WB" /\ dcache'.wb = dcache'.line
     ELSE dcache'.state = "FILL"
  /\ ~dcache'.active /\ ~dcache'.done
Answers ==
  /\ dcache.state = "HIT_RD"
  /\ Kept /\ dcache'.state = "IDLE" /\ ~dcache'.active /\ ~dcache'.done
WritesBack ==
  /\ dcache.state = "WB" /\ ram.done /\ ~LastWord
  /\ Kept /\ Held /\ dcache'.state = "WB" /\ dcache'.word = dcache.word + 1
  /\ dcache'.scan = dcache.scan
  /\ dcache'.active = dcache.active /\ ~dcache'.done
ScansOn ==
  IF dcache.scan = NUM_SETS * WAYS - 1
  THEN dcache'.state = "IDLE" /\ ~dcache'.active /\ dcache'.done
  ELSE /\ dcache'.state = "SCAN" /\ dcache'.scan = dcache.scan + 1
       /\ dcache'.active = dcache.active /\ ~dcache'.done
Cleans ==
  /\ dcache.state = "WB" /\ ram.done /\ LastWord
  /\ dcache'.valid = dcache.valid /\ dcache'.tag = dcache.tag
  /\ dcache'.data = dcache.data
  /\ dcache'.dirty = [dcache.dirty EXCEPT ![dcache.wb] = FALSE]
  /\ IF dcache.active THEN ScansOn
     ELSE /\ dcache'.state = "FILL" /\ dcache'.word = 0
          /\ dcache'.cur = dcache.cur /\ dcache'.line = dcache.line
          /\ ~dcache'.active /\ ~dcache'.done
Fills ==
  /\ dcache.state = "FILL" /\ ram.done /\ ~LastWord
  /\ dcache'.valid = dcache.valid /\ dcache'.tag = dcache.tag
  /\ dcache'.dirty = dcache.dirty
  /\ dcache'.data =
       [dcache.data EXCEPT ![dcache.line][dcache.word] = fill_value(ram.data)]
  /\ Held /\ dcache'.state = "FILL" /\ dcache'.word = dcache.word + 1
  /\ ~dcache'.active /\ ~dcache'.done
Completes ==
  /\ dcache.state = "FILL" /\ ram.done /\ LastWord
  /\ dcache'.valid = [dcache.valid EXCEPT ![dcache.line] = TRUE]
  /\ dcache'.tag = [dcache.tag EXCEPT ![dcache.line] = tag_of(dcache.cur.addr)]
  /\ dcache'.dirty = [dcache.dirty EXCEPT ![dcache.line] = dcache.cur.write]
  /\ dcache'.data =
       [dcache.data EXCEPT ![dcache.line][dcache.word] = fill_value(ram.data)]
  /\ dcache'.state = "IDLE" /\ ~dcache'.active /\ ~dcache'.done
FindsDirty ==
  /\ dcache.state = "SCAN" /\ dcache.dirty[dcache.scan]
  /\ Kept /\ dcache'.state = "WB" /\ dcache'.wb = dcache.scan /\ dcache'.word = 0
  /\ dcache'.scan = dcache.scan /\ dcache'.active /\ ~dcache'.done
FindsClean ==
  /\ dcache.state = "SCAN" /\ ~dcache.dirty[dcache.scan]
  /\ Kept /\ ScansOn

\* What MEM asks of the cache, and what the memory answers.
LEMMA CacheWires ==
    ASSUME Sound
    PROVE  /\ lsu_ack = ram.done /\ wb_data = ram.data /\ wb_m = dcache_bus
           /\ build.Latency # 0
           /\ dcache_req.read = memRead_regem /\ dcache_req.write = memWrite_regem
           /\ memRead_regem \/ memWrite_regem =>
                /\ dcache_req.addr = reg3.addr /\ dcache_req.data = reg3.data
                /\ dcache_req.f3 = reg3.f3
           /\ dcache_resp_ready = resp_ready(dcache_req, ram.done)
           /\ ~(memRead_regem /\ memWrite_regem)
<1>1. build.Latency # 0 /\ build.Cached
  BY Zenon DEF Sound, Supported
<1>2. lsu_ack = ram.done /\ wb_data = ram.data /\ wb_m = dcache_bus
  BY <1>1, Zenon DEF lsu_ack, wb_ack, wb_data, wb_m
<1>3. ~(memRead_regem /\ memWrite_regem)
  BY Zenon DEF memRead_regem, memWrite_regem
<1>4. ram \in RamRecord
  BY TypesNamed, Zenon DEF Sound, TypeOK
<1>5. dcache_resp_ready = resp_ready(dcache_req, ram.done)
  BY <1>1, <1>2, Zenon DEF dcache_resp_ready, resp_ready
<1>6. QED
  BY <1>1, <1>2, <1>3, <1>5, Zenon
     DEF dcache_req, Idle, memRead_regem, memWrite_regem

Moves ==
  \/ Waits \/ FlushBegins \/ WriteHits \/ ReadHits \/ Misses \/ Answers
  \/ WritesBack \/ Cleans \/ Fills \/ Completes \/ FindsDirty \/ FindsClean

\* The cache does one of them.
LEMMA CacheMoves ==
    ASSUME Sound, Next
    PROVE  Moves
<1> DEFINE d == [dcache EXCEPT !.done = FALSE]
           req == dcache_req
<1>1. dcache \in CacheRecord
  BY TypesNamed, Zenon DEF Sound, TypeOK
<1>2. /\ d \in CacheRecord /\ ~d.done /\ d.state = dcache.state
      /\ d.valid = dcache.valid /\ d.dirty = dcache.dirty /\ d.tag = dcache.tag
      /\ d.data = dcache.data /\ d.victim = dcache.victim /\ d.cur = dcache.cur
      /\ d.line = dcache.line /\ d.wb = dcache.wb /\ d.word = dcache.word
      /\ d.scan = dcache.scan /\ d.active = dcache.active
  BY <1>1, Zenon DEF CacheRecord
<1>3. /\ lsu_ack = ram.done /\ wb_data = ram.data
      /\ req.read = memRead_regem /\ req.write = memWrite_regem
      /\ memRead_regem \/ memWrite_regem =>
           req.addr = reg3.addr /\ req.data = reg3.data /\ req.f3 = reg3.f3
      /\ ~(memRead_regem /\ memWrite_regem)
  BY CacheWires, Zenon
<1>4. dcache' =
        CASE d.state = "IDLE" ->
               IF flush_all /\ ~d.active THEN FlushStart(d)
               ELSE IF req.read \/ req.write THEN Accept(d, req) ELSE d
          [] d.state = "HIT_RD" -> [d EXCEPT !.state = "IDLE"]
          [] d.state = "WB" -> IF lsu_ack THEN WriteBackWord(d) ELSE d
          [] d.state = "FILL" -> IF lsu_ack THEN FillWord(d, wb_data) ELSE d
          [] d.state = "SCAN" -> ScanLine(d)
  BY Zenon DEF Next, DCacheEdge
<1>5. d.state \in {"IDLE", "HIT_RD", "WB", "FILL", "SCAN"}
  BY <1>2, Zenon DEF CacheRecord
<1>6. /\ dcache.active => dcache.state \in {"SCAN", "WB"}
      /\ dcache.state = "SCAN" => dcache.active
      /\ \A l \in Lines : dcache.dirty[l] => dcache.valid[l]
  BY Zenon DEF Sound, IInv, FlushApart, Through, DirtyLines
<1>7. fill_is_last_word = LastWord
  BY Zenon DEF fill_is_last_word, LastWord
<1>8. req \in CacheRequest
  BY RequestTypes, Zenon DEF Sound
<1> HIDE DEF d, req
<1>10. CASE dcache.state = "IDLE"
  <2>1. CASE flush_all
    <3>1. dcache' = FlushStart(d)
      BY <1>2, <1>4, <1>6, <1>10, <2>1, Zenon
    <3>2. FlushBegins
      BY <1>2, <1>10, <2>1, <3>1, Zenon
         DEF FlushBegins, FlushStart, Kept, CacheRecord
    <3>3. QED
      BY <3>2, Zenon DEF Moves
  <2>2. CASE ~flush_all /\ ~memRead_regem /\ ~memWrite_regem
    <3>1. dcache' = d
      BY <1>2, <1>3, <1>4, <1>10, <2>2, Zenon
    <3>2. QED
      BY <1>2, <1>10, <2>2, <3>1, Zenon DEF Moves, Waits, Kept, Held
  <2>3. CASE ~flush_all /\ (memRead_regem \/ memWrite_regem)
    <3>1. dcache' = Accept(d, req) /\ req.addr = reg3.addr
      BY <1>2, <1>3, <1>4, <1>10, <2>3, Zenon
    <3>2. ~d.active
      BY <1>2, <1>6, <1>10, Zenon
    <3>3. CASE ~hit(reg3.addr)
      <4> DEFINE s == set_idx(req.addr)
                 v == s * WAYS + d.victim[s]
      <4>1. dcache' = Miss(d, req)
        BY <3>1, <3>3, Zenon DEF Accept
      <4>2. v \in Lines
        <5>1. req.addr \in Nat
          BY <1>8, AddressRange, Zenon DEF CacheRequest
        <5>2. s \in Sets
          BY <5>1, AddressSet, Zenon
        <5>3. d.victim[s] \in 0 .. WAYS - 1
          BY <1>2, <5>2, Zenon DEF CacheRecord
        <5>4. v \in SetLines(s)
          BY <5>3, Zenon DEF SetLines
        <5>5. QED
          BY <5>2, <5>4, SetInCache, Zenon
      <4>3. Miss(d, req) =
              [d EXCEPT !.line = v, !.cur = req, !.word = 0,
                        !.wb = IF d.valid[v] /\ d.dirty[v] THEN v ELSE d.wb,
                        !.state = IF d.valid[v] /\ d.dirty[v] THEN "WB" ELSE "FILL"]
        BY <1>2, Zenon DEF Miss, CacheRecord
      <4> HIDE DEF v
      <4>4. d.dirty[v] => d.valid[v]
        BY <1>2, <1>6, <4>2, Zenon
      <4>5. d.valid[v] /\ d.dirty[v] <=> dcache.dirty[v]
        BY <1>2, <4>4, Zenon
      <4>6. /\ Kept /\ dcache'.cur = dcache_req /\ dcache'.word = 0
            /\ dcache'.line = v /\ ~dcache'.active /\ ~dcache'.done
        BY <1>2, <3>2, <4>1, <4>3 DEF Kept, CacheRecord, req
      <4>7. IF dcache.dirty[v] THEN dcache'.state = "WB" /\ dcache'.wb = v
            ELSE dcache'.state = "FILL"
        BY <1>2, <4>1, <4>3, <4>5, Zenon DEF CacheRecord
      <4>8. Misses
        BY <1>10, <2>3, <3>3, <4>6, <4>7, Zenon DEF Misses
      <4>9. QED
        BY <4>8, Zenon DEF Moves
    <3>4. CASE hit(reg3.addr) /\ memWrite_regem
      <4> DEFINE l == hit_line_idx(reg3.addr)
                 o == word_off(reg3.addr)
                 m == Merge(dcache.data[l][o], reg3.f3, LaneOf(reg3.addr), reg3.data)
                 f == [dcache.data EXCEPT ![l][o] = m]
                 g == [dcache.dirty EXCEPT ![l] = TRUE]
      <4>1. dcache' = WriteHit(d, req)
        BY <1>3, <3>1, <3>4, Zenon DEF Accept
      <4>2. l \in Lines /\ o \in Offsets
        <5>1. req.addr \in Nat
          BY <1>8, AddressRange, Zenon DEF CacheRequest
        <5>2. QED
          BY <1>2, <1>8, <3>1, <3>4, <5>1, AcceptTypes, AddressParts, Zenon
      <4>3. WriteHit(d, req) = [d EXCEPT !.data[l][o] = m, !.dirty[l] = TRUE]
        BY <1>2, <1>3, <3>4, <4>2, Zenon DEF WriteHit, CacheRecord
      <4>4. WriteHit(d, req) = [d EXCEPT !.data = f, !.dirty = g]
        <5> HIDE DEF m, l, o
        <5>1. QED
          BY <1>2, <4>3, Zenon DEF CacheRecord
      <4> HIDE DEF f, g
      <4>5. /\ dcache'.valid = dcache.valid /\ dcache'.tag = dcache.tag
            /\ dcache'.dirty = g /\ dcache'.data = f
            /\ dcache'.state = "IDLE" /\ ~dcache'.active /\ ~dcache'.done
        BY <1>2, <1>10, <3>2, <4>1, <4>4, Zenon DEF CacheRecord
      <4>6. WriteHits
        BY <1>10, <3>4, <4>5, Zenon DEF WriteHits, f, g
      <4>7. QED
        BY <4>6, Zenon DEF Moves
    <3>5. CASE hit(reg3.addr) /\ ~memWrite_regem
      <4>1. dcache' = ReadHit(d, req)
        BY <1>3, <3>1, <3>5, Zenon DEF Accept
      <4>2. ReadHits
        BY <1>2, <1>10, <2>3, <3>1, <3>2, <3>5, <4>1, Zenon
           DEF ReadHits, ReadHit, Kept,
           CacheRecord, req
      <4>3. QED
        BY <4>2, Zenon DEF Moves
    <3>6. QED
      BY <3>3, <3>4, <3>5, Zenon
  <2>4. QED
    BY <2>1, <2>2, <2>3, Zenon
<1>11. CASE dcache.state = "HIT_RD"
  <2>1. dcache' = [d EXCEPT !.state = "IDLE"]
    BY <1>2, <1>4, <1>11, Zenon
  <2>2. ~d.active
    BY <1>2, <1>6, <1>11, Zenon
  <2>3. Answers
    BY <1>2, <1>11, <2>1, <2>2, Zenon DEF Answers, Kept, CacheRecord
  <2>4. QED
    BY <2>3, Zenon DEF Moves
<1>12. CASE dcache.state \in {"WB", "FILL"} /\ ~ram.done
  <2>1. dcache' = d
    BY <1>2, <1>3, <1>4, <1>12, Zenon
  <2>2. QED
    BY <1>2, <1>12, <2>1, Zenon DEF Moves, Waits, Kept, Held
<1>13. CASE dcache.state = "WB" /\ ram.done
  <2> DEFINE g == [dcache.dirty EXCEPT ![dcache.wb] = FALSE]
             clean == [d EXCEPT !.dirty = g]
  <2>1. dcache' = WriteBackWord(d)
    BY <1>2, <1>3, <1>4, <1>13, Zenon
  <2>2. [d EXCEPT !.dirty[d.wb] = FALSE] = clean
    BY <1>2, Zenon DEF CacheRecord
  <2>3. dcache' =
          IF ~LastWord THEN [d EXCEPT !.word = d.word + 1]
          ELSE IF d.active THEN ScanOn(clean)
               ELSE [clean EXCEPT !.word = 0, !.state = "FILL"]
    BY <1>2, <1>7, <2>1, <2>2, Zenon DEF WriteBackWord, CacheRecord
  <2> HIDE DEF g
  <2>4. CASE ~LastWord
    <3>1. dcache' = [d EXCEPT !.word = d.word + 1]
      BY <2>3, <2>4, Zenon
    <3>2. WritesBack
      BY <1>2, <1>13, <2>4, <3>1, Zenon DEF WritesBack, Kept, Held, CacheRecord
    <3>3. QED
      BY <3>2, Zenon DEF Moves
  <2>5. CASE LastWord /\ d.active
    <3>1. dcache' = ScanOn(clean)
      BY <2>3, <2>5, Zenon
    <3>2. /\ dcache'.valid = dcache.valid /\ dcache'.tag = dcache.tag
          /\ dcache'.data = dcache.data /\ dcache'.dirty = g
      BY <1>2, <3>1, Zenon DEF ScanOn, CacheRecord
    <3>3. ScansOn
      BY <1>2, <2>5, <3>1, Zenon DEF ScanOn, ScansOn, CacheRecord
    <3>4. Cleans
      BY <1>2, <1>13, <2>5, <3>2, <3>3, Zenon DEF Cleans, g
    <3>5. QED
      BY <3>4, Zenon DEF Moves
  <2>6. CASE LastWord /\ ~d.active
    <3>1. dcache' = [clean EXCEPT !.word = 0, !.state = "FILL"]
      BY <2>3, <2>6, Zenon
    <3>2. /\ dcache'.valid = dcache.valid /\ dcache'.tag = dcache.tag
          /\ dcache'.data = dcache.data /\ dcache'.dirty = g
          /\ dcache'.state = "FILL" /\ dcache'.word = 0
          /\ dcache'.cur = dcache.cur /\ dcache'.line = dcache.line
          /\ ~dcache'.active /\ ~dcache'.done
      BY <1>2, <2>6, <3>1, Zenon DEF CacheRecord
    <3>3. Cleans
      BY <1>2, <1>13, <2>6, <3>2, Zenon DEF Cleans, g
    <3>4. QED
      BY <3>3, Zenon DEF Moves
  <2>7. QED
    BY <2>4, <2>5, <2>6, Zenon
<1>14. CASE dcache.state = "FILL" /\ ram.done
  <2> DEFINE y == fill_value(ram.data)
             f == [dcache.data EXCEPT ![dcache.line][dcache.word] = y]
             v == [dcache.valid EXCEPT ![dcache.line] = TRUE]
             t == [dcache.tag EXCEPT ![dcache.line] = tag_of(dcache.cur.addr)]
             g == [dcache.dirty EXCEPT ![dcache.line] = dcache.cur.write]
             n == [d.victim EXCEPT ![set_idx(d.cur.addr)] = (d.line + 1) % WAYS]
  <2>1. dcache' = FillWord(d, ram.data)
    BY <1>2, <1>3, <1>4, <1>14, Zenon
  <2>2. ~d.active
    BY <1>2, <1>6, <1>14, Zenon
  <2>3. CASE ~LastWord
    <3>1. FillWord(d, ram.data) = [d EXCEPT !.data = f, !.word = dcache.word + 1]
      BY <1>2, <1>7, <2>3, Zenon DEF FillWord, CacheRecord
    <3> HIDE DEF f
    <3>2. /\ dcache'.valid = dcache.valid /\ dcache'.tag = dcache.tag
          /\ dcache'.dirty = dcache.dirty /\ dcache'.data = f /\ Held
          /\ dcache'.state = "FILL" /\ dcache'.word = dcache.word + 1
          /\ ~dcache'.active /\ ~dcache'.done
      BY <1>2, <1>14, <2>1, <2>2, <3>1, Zenon DEF CacheRecord, Held
    <3>3. Fills
      BY <1>14, <2>3, <3>2, Zenon DEF Fills, f
    <3>4. QED
      BY <3>3, Zenon DEF Moves
  <2>4. CASE LastWord
    <3>1. FillWord(d, ram.data) =
            [d EXCEPT !.data = f, !.valid = v, !.tag = t, !.dirty = g,
                      !.victim = n, !.state = "IDLE"]
      BY <1>2, <1>7, <2>4, Zenon DEF FillWord, CacheRecord
    <3> HIDE DEF f, v, t, g, n
    <3>2. /\ dcache'.valid = v /\ dcache'.tag = t /\ dcache'.dirty = g
          /\ dcache'.data = f /\ dcache'.state = "IDLE"
          /\ ~dcache'.active /\ ~dcache'.done
      BY <1>2, <2>1, <2>2, <3>1, Zenon DEF CacheRecord
    <3>3. Completes
      BY <1>14, <2>4, <3>2, Zenon DEF Completes, f, v, t, g
    <3>4. QED
      BY <3>3, Zenon DEF Moves
  <2>5. QED
    BY <2>3, <2>4, Zenon
<1>15. CASE dcache.state = "SCAN"
  <2>1. dcache' = ScanLine(d) /\ d.active
    BY <1>2, <1>4, <1>6, <1>15, Zenon
  <2>2. d.scan \in Lines
    BY <1>2, Zenon DEF CacheRecord
  <2>3. CASE dcache.dirty[dcache.scan]
    <3>1. dcache' = [d EXCEPT !.wb = d.scan, !.word = 0, !.state = "WB"]
      BY <1>2, <1>6, <2>1, <2>2, <2>3, Zenon DEF ScanLine
    <3>2. FindsDirty
      BY <1>2, <1>15, <2>1, <2>3, <3>1 DEF FindsDirty, Kept, CacheRecord
    <3>3. QED
      BY <3>2, Zenon DEF Moves
  <2>4. CASE ~dcache.dirty[dcache.scan]
    <3>1. dcache' = ScanOn(d)
      BY <1>2, <2>1, <2>4, Zenon DEF ScanLine
    <3>2. CASE d.scan = NUM_SETS * WAYS - 1
      <4>1. dcache' = [d EXCEPT !.active = FALSE, !.done = TRUE,
                                !.state = "IDLE"]
        BY <3>1, <3>2, Zenon DEF ScanOn
      <4>2. Kept /\ ScansOn
        BY <1>2, <3>2, <4>1, Zenon DEF Kept, ScansOn, CacheRecord
      <4>3. QED
        BY <1>15, <2>4, <4>2, Zenon DEF FindsClean, Moves
    <3>3. CASE d.scan # NUM_SETS * WAYS - 1
      <4>1. dcache' = [d EXCEPT !.scan = d.scan + 1, !.state = "SCAN"]
        BY <1>2, <3>1, <3>3, Zenon DEF ScanOn, CacheRecord
      <4> HIDE DEF d
      <4>2. /\ dcache'.state = "SCAN" /\ dcache'.scan = d.scan + 1
            /\ dcache'.active = d.active /\ dcache'.done = d.done
            /\ dcache'.valid = d.valid /\ dcache'.tag = d.tag
            /\ dcache'.dirty = d.dirty /\ dcache'.data = d.data
        BY <1>2, <4>1, Zenon DEF CacheRecord
      <4>3. Kept /\ ScansOn
        BY <1>2, <3>3, <4>2, Zenon DEF Kept, ScansOn
      <4>4. QED
        BY <1>15, <2>4, <4>3, Zenon DEF FindsClean, Moves
    <3>4. QED
      BY <3>2, <3>3, Zenon
  <2>5. QED
    BY <2>3, <2>4, Zenon
<1>16. QED
  BY <1>2, <1>5, <1>10, <1>11, <1>12, <1>13, <1>14, <1>15, Zenon

\* When the cache answers MEM, and when MEM waits.
LEMMA Ready ==
    ASSUME Sound
    PROVE  /\ dcache_resp_ready <=>
                \/ dcache.state = "IDLE" /\ memWrite_regem /\ hit(reg3.addr)
                \/ /\ dcache.state = "HIT_RD" /\ memRead_regem
                   /\ reg3.addr = dcache.cur.addr
                \/ dcache.state = "FILL" /\ ram.done /\ LastWord
           /\ memWrite_regem => /\ ~fence_pending_r /\ ~mem_stall_done_r
                                /\ mem_stall <=> ~dcache_resp_ready
           /\ memRead_regem => /\ ~fence_pending_r
                               /\ mem_stall <=> ~mem_stall_done_r
           /\ fence_pending_r => mem_stall
           /\ mem_stall => memRead_regem \/ memWrite_regem \/ fence_pending_r
           /\ mem_access_ready = IF fence_pending_r THEN dcache.done
                                 ELSE dcache_resp_ready
<1>1. /\ dcache_req.read = memRead_regem /\ dcache_req.write = memWrite_regem
      /\ memRead_regem \/ memWrite_regem => dcache_req.addr = reg3.addr
      /\ dcache_resp_ready = resp_ready(dcache_req, ram.done)
      /\ ~(memRead_regem /\ memWrite_regem)
  BY CacheWires, Zenon
<1>2. dcache.state = "FILL" =>
        (memRead_regem \/ memWrite_regem) /\ dcache.cur = dcache_req
  BY Zenon DEF Sound, Through, Served, Refilling
<1>3. resp_ready(dcache_req, ram.done) <=>
        \/ dcache.state = "IDLE" /\ memWrite_regem /\ hit(reg3.addr)
        \/ /\ dcache.state = "HIT_RD" /\ memRead_regem
           /\ reg3.addr = dcache.cur.addr
        \/ dcache.state = "FILL" /\ ram.done /\ LastWord
  BY <1>1, <1>2, Zenon
     DEF resp_ready, hit_rd_ready, fill_ready, fill_is_last_word, LastWord
<1>4. memRead_regem \/ memWrite_regem => ~fence_pending_r
  BY Zenon DEF Sound, Through, Fenced, memRead_regem, memWrite_regem
<1>5. memWrite_regem => ~mem_stall_done_r
  BY Zenon DEF Sound, Through, Served
<1>6. fence_pending_r => ~mem_stall_done_r
  BY Zenon DEF Sound, Through, Fenced
<1>7. build.Cached
  BY Zenon DEF Sound
<1>8. QED
  BY <1>1, <1>3, <1>4, <1>5, <1>6, <1>7, Zenon
     DEF mem_stall, mem_trigger, mem_access_ready

\* What leaves MEM and what enters it.
LEMMA MemMoves ==
    ASSUME Sound, Next
    PROVE  /\ flat' = IF memWrite_regem /\ dcache_resp_ready
                      THEN StoreTo(flat, reg3.addr, reg3.f3, reg3.data) ELSE flat
           /\ mem_stall => reg3' = reg3
           /\ mem_stall_done_r' = (mem_stall /\ mem_access_ready)
           /\ dcache_resp_ready =>
                dcache_rdata_captured_r' = resp_rdata(dcache_req, ram.done, ram.data)
           /\ memRead_regem /\ memRead_regem' /\ reg3'.addr = reg3.addr
                => reg3'.f3 = reg3.f3
           /\ fence_pending_r' =
                (~dcache.done /\ (fence_pending_r \/ (reg3'.op = "fence" /\ ~mem_stall)))
           /\ fence_flush_started_r' =
                (fence_pending_r /\ (dcache.active \/ fence_flush_started_r))
           /\ build' = build
<1>1. PICK i \in IF mem_stall THEN {Bubble} ELSE Program : MemEdge(i) /\ FenceEdge(i)
  BY Zenon DEF Next
<1>2. memWrite_regem => (mem_stall <=> ~dcache_resp_ready)
  BY Ready, Zenon
<1>3. flat' = IF memWrite_regem /\ dcache_resp_ready
              THEN StoreTo(flat, reg3.addr, reg3.f3, reg3.data) ELSE flat
  BY <1>1, <1>2, Zenon DEF MemEdge
<1>4. mem_stall => reg3' = reg3
  BY <1>1, Zenon DEF MemEdge
<1>5. dcache_resp_ready =>
        dcache_rdata_captured_r' = resp_rdata(dcache_req, ram.done, ram.data)
  <2>1. lsu_ack = ram.done /\ wb_data = ram.data
    BY CacheWires, Zenon
  <2>2. QED
    BY <1>1, <2>1, Zenon DEF MemEdge
<1>6. ASSUME memRead_regem, memRead_regem', reg3'.addr = reg3.addr
      PROVE  reg3'.f3 = reg3.f3
  <2>1. CASE mem_stall
    BY <1>4, <2>1, Zenon
  <2>2. CASE ~mem_stall
    <3>1. reg3' = i /\ i \in Program
      BY <1>1, <2>2, Zenon DEF MemEdge
    <3>2. ~build.Rewiden
      BY Zenon DEF Sound, Supported
    <3>3. i.op = "load" /\ reg3.op = "load" /\ i.addr = reg3.addr
      BY <1>6, <3>1, Zenon DEF memRead_regem
    <3>4. QED
      BY <3>1, <3>2, <3>3, Zenon DEF Program
  <2>3. QED
    BY <2>1, <2>2, Zenon
<1>7. mem_stall_done_r' = (mem_stall /\ mem_access_ready)
  BY <1>1, Zenon DEF MemEdge
<1>8. /\ fence_pending_r' =
           (~dcache.done /\ (fence_pending_r \/ (reg3'.op = "fence" /\ ~mem_stall)))
      /\ fence_flush_started_r' =
           (fence_pending_r /\ (dcache.active \/ fence_flush_started_r))
  <2>1. build.Cached
    BY Zenon DEF Sound
  <2>2. ~mem_stall => reg3' = i
    BY <1>1, Zenon DEF MemEdge
  <2>3. QED
    BY <1>1, <2>1, <2>2, Zenon DEF FenceEdge
<1>9. build' = build
  BY Zenon DEF Next
<1>10. QED
  BY <1>3, <1>4, <1>5, <1>6, <1>7, <1>8, <1>9, Zenon

\* A store merged into a word, and the words it leaves alone.
LEMMA StoredWord ==
    ASSUME NEW mem \in [Words -> Word], NEW a \in Address, NEW f3, NEW x,
           NEW w \in Words
    PROVE  StoreTo(mem, a, f3, x)[w] =
             IF w = WordOf(a) THEN Merge(mem[w], f3, LaneOf(a), x) ELSE mem[w]
BY AddressRange, Zenon DEF StoreTo

\* A writeback only ever puts the program's words into memory.
LEMMA MemoryStep ==
    ASSUME Sound, Next
    PROVE  /\ dcache.state # "WB" => ram'.mem = ram.mem
           /\ dcache.state = "WB" =>
                LET w == WordAt(Home(dcache.wb), dcache.word)
                IN  w \in Words /\ ram'.mem = [ram.mem EXCEPT ![w] = flat[w]]
<1>1. TypeOK /\ dcache \in CacheRecord /\ ram \in RamRecord
  BY TypesNamed, Zenon DEF Sound, TypeOK
<1>2. dcache_bus \in BusRequest /\ RamEdge(dcache_bus)
  BY <1>1, CacheWires, RequestTypes, Zenon DEF Next
<1>3. ram'.mem = IF dcache_bus.cyc /\ dcache_bus.we
                 THEN StoreTo(ram.mem, dcache_bus.addr, dcache_bus.f3, dcache_bus.data)
                 ELSE ram.mem
  BY <1>1, <1>2, RamMoves, Zenon
<1>4. CASE dcache.state # "WB"
  BY <1>3, <1>4, Zenon DEF dcache_bus
<1>5. CASE dcache.state = "WB"
  <2> DEFINE n == Home(dcache.wb)
             w == WordAt(n, dcache.word)
  <2>1. /\ dcache.wb \in Lines /\ dcache.tag[dcache.wb] \in Tags
        /\ dcache.word \in Offsets
    BY <1>1, Zenon DEF CacheRecord
  <2>2. n \in Nat /\ n < MemoryLines
    BY <2>1, HomeRange, Zenon
  <2>3. w \in Words /\ w \in Nat
    BY <2>1, <2>2, LineRange, WordInLine, Zenon
  <2>4. dcache_bus.addr = 2 * w
    BY <1>1, <1>5, RequestTypes, Zenon
  <2>5. /\ dcache_bus.cyc /\ dcache_bus.we /\ dcache_bus.f3 = "sw"
        /\ dcache_bus.data = dcache.data[dcache.wb][dcache.word]
    BY <1>5, Zenon DEF dcache_bus
  <2>6. dcache.valid[dcache.wb] /\ dcache.dirty[dcache.wb]
    BY <1>5, <2>1, Zenon DEF Sound, Through, DirtyLines
  <2>7. dcache_bus.data = flat[w]
    BY <1>5, <2>1, <2>5, <2>6, Zenon DEF Sound, Through, InLine
  <2>8. WordOf(dcache_bus.addr) = w
    BY <2>3, <2>4, WordAddress, Zenon
  <2> HIDE DEF w
  <2>9. ram'.mem = [ram.mem EXCEPT ![w] = flat[w]]
    BY <1>3, <2>5, <2>7, <2>8, Zenon DEF StoreTo, Merge
  <2>10. QED
    BY <1>5, <2>3, <2>9, Zenon DEF w
<1>6. QED
  BY <1>4, <1>5, Zenon

----------------------------------------------------------------------------
(* Where the stores are, after a cycle.                                    *)

Data == DirtyLines /\ InMemory /\ InLine /\ WrittenBack /\ Refilled

\* A cycle that moves no word and takes no store.
LEMMA QuietData ==
    ASSUME Sound, Next, Kept, flat' = flat,
           dcache.state = "FILL" => dcache'.state = "FILL" /\ dcache'.line = dcache.line,
           dcache'.state = "FILL" =>
             /\ ~dcache.dirty[dcache'.line]
             /\ \/ dcache'.word = 0
                \/ /\ dcache.state = "FILL" /\ dcache'.word = dcache.word
                   /\ dcache'.cur = dcache.cur,
           dcache'.state = "WB" =>
             /\ dcache.dirty[dcache'.wb]
             /\ ~dcache'.active => dcache'.wb = dcache'.line
             /\ \/ dcache'.word = 0
                \/ /\ dcache.state = "WB" /\ dcache'.wb = dcache.wb
                   /\ dcache'.word \in {dcache.word, dcache.word + 1}
    PROVE  Data'
<1>1. dcache \in CacheRecord /\ ram \in RamRecord
  BY TypesNamed, Zenon DEF Sound, TypeOK
<1>2. \A l \in Lines : Home(l)' = Home(l)
  BY Zenon DEF Home, Kept
<1>3. DirtyLines'
  BY Zenon DEF DirtyLines, Kept, Sound, Through
<1>4. \A w \in Words : ram'.mem[w] = ram.mem[w] \/ ram'.mem[w] = flat[w]
  <2>1. CASE dcache.state # "WB"
    BY <2>1, MemoryStep, Zenon
  <2>2. CASE dcache.state = "WB"
    <3> DEFINE w == WordAt(Home(dcache.wb), dcache.word)
    <3>1. ram'.mem = [ram.mem EXCEPT ![w] = flat[w]]
      BY <2>2, MemoryStep, Zenon
    <3>2. ram.mem \in [Words -> Word]
      BY <1>1, Zenon DEF RamRecord
    <3> HIDE DEF w
    <3>3. QED
      BY <3>1, <3>2, Zenon
  <2>3. QED
    BY <2>1, <2>2, Zenon
<1>5. InMemory'
  <2> SUFFICES ASSUME NEW w \in Words,
                      \A l \in Lines : dcache'.dirty[l] => Home(l)' # w \div LINE_WORDS
               PROVE  ram'.mem[w] = flat'[w]
    BY Zenon DEF InMemory
  <2>1. \A l \in Lines : dcache.dirty[l] => Home(l) # w \div LINE_WORDS
    BY <1>2, Zenon DEF Kept
  <2>2. ram.mem[w] = flat[w]
    BY <2>1, Zenon DEF Sound, Through, InMemory
  <2>3. QED
    BY <1>4, <2>2, Zenon
<1>6. InLine'
  <2> SUFFICES ASSUME NEW l \in Lines, NEW k \in Offsets, dcache'.valid[l],
                      ~(dcache'.state = "FILL" /\ dcache'.line = l)
               PROVE  dcache'.data[l][k] = flat'[WordAt(Home(l)', k)]
    BY Zenon DEF InLine, WordAt
  <2>1. dcache.data[l][k] = flat[WordAt(Home(l), k)]
    BY Zenon DEF Sound, Through, InLine, Kept
  <2>2. QED
    BY <1>2, <2>1, Zenon DEF Kept
<1>7. WrittenBack'
  <2> SUFFICES ASSUME dcache'.state = "WB", NEW k \in Offsets, k < dcache'.word
               PROVE  ram'.mem[WordAt(Home(dcache.wb)', k)]
                        = flat'[WordAt(Home(dcache.wb)', k)]
    BY Zenon DEF WrittenBack, WordAt
  <2>1. dcache'.word # 0
    BY DEF Offsets
  <2>2. /\ dcache.state = "WB" /\ dcache'.wb = dcache.wb
        /\ dcache'.word \in {dcache.word, dcache.word + 1}
    BY <2>1, Zenon
  <2> DEFINE n == Home(dcache.wb)
             w == WordAt(n, k)
             v == WordAt(n, dcache.word)
  <2>3. dcache.wb \in Lines /\ dcache.tag[dcache.wb] \in Tags /\ dcache.word \in Offsets
    BY <1>1, Zenon DEF CacheRecord
  <2>4. Home(dcache.wb)' = n
    BY <2>2, Zenon DEF Home, Kept
  <2>5. w \in Words
    BY <2>3, HomeRange, LineRange, Zenon
  <2>6. v \in Words /\ ram'.mem = [ram.mem EXCEPT ![v] = flat[v]]
    BY <2>2, MemoryStep, Zenon
  <2>7. ram.mem \in [Words -> Word]
    BY <1>1, Zenon DEF RamRecord
  <2>8. k < dcache.word \/ k = dcache.word
    BY <2>2, <2>3 DEF Offsets
  <2>9. ram'.mem[w] = flat[w]
    <3>1. CASE k = dcache.word
      <4>1. w = v
        BY <3>1, Zenon
      <4> HIDE DEF w, v
      <4>2. QED
        BY <2>6, <2>7, <4>1, Zenon
    <3>2. CASE k < dcache.word
      <4>1. ram.mem[w] = flat[w]
        BY <2>2, <3>2, Zenon DEF Sound, Through, WrittenBack
      <4> HIDE DEF w, v
      <4>2. QED
        BY <1>4, <2>5, <4>1, Zenon
    <3>3. QED
      BY <2>8, <3>1, <3>2, Zenon
  <2>10. QED
    BY <2>4, <2>9, Zenon
<1>8. Refilled'
  <2> SUFFICES ASSUME dcache'.state = "FILL", NEW k \in Offsets, k < dcache'.word
               PROVE  dcache'.data[dcache'.line][k] =
                        LET w == WordAt(LineOf(dcache'.cur.addr), k)
                        IN  IF dcache'.cur.write
                            THEN StoreTo(flat', dcache'.cur.addr, dcache'.cur.f3,
                                         dcache'.cur.data)[w]
                            ELSE flat'[w]
    BY Zenon DEF Refilled, WordAt, LineOf
  <2>1. dcache'.word # 0
    BY DEF Offsets
  <2>2. /\ dcache.state = "FILL" /\ dcache'.line = dcache.line
        /\ dcache'.word = dcache.word /\ dcache'.cur = dcache.cur
    BY <2>1, Zenon
  <2>3. dcache.data[dcache.line][k] =
          LET w == WordAt(LineOf(dcache.cur.addr), k)
          IN  IF dcache.cur.write
              THEN StoreTo(flat, dcache.cur.addr, dcache.cur.f3, dcache.cur.data)[w]
              ELSE flat[w]
    BY <2>2, Zenon DEF Sound, Through, Refilled
  <2>4. QED
    BY <2>2, <2>3, Zenon DEF Kept
<1>9. QED
  BY <1>3, <1>5, <1>6, <1>7, <1>8, Zenon DEF Data

\* The last word of a writeback makes its line clean.
LEMMA CleanData ==
    ASSUME Sound, Next, Cleans, flat' = flat
    PROVE  Data'
<1>1. dcache \in CacheRecord /\ ram \in RamRecord
  BY TypesNamed, Zenon DEF Sound, TypeOK
<1>2. /\ dcache.state = "WB" /\ LastWord /\ dcache'.state \in {"IDLE", "SCAN", "FILL"}
      /\ dcache'.valid = dcache.valid /\ dcache'.tag = dcache.tag
      /\ dcache'.data = dcache.data
      /\ dcache'.dirty = [dcache.dirty EXCEPT ![dcache.wb] = FALSE]
      /\ dcache'.state = "FILL" =>
           dcache'.word = 0 /\ dcache'.line = dcache.line /\ ~dcache.active
  BY Zenon DEF Cleans, ScansOn
<1>3. dcache.wb \in Lines /\ dcache.dirty \in [Lines -> BOOLEAN]
      /\ dcache.word \in Offsets /\ dcache.tag[dcache.wb] \in Tags
  BY <1>1, Zenon DEF CacheRecord
<1>4. \A l \in Lines : Home(l)' = Home(l)
  BY <1>2, Zenon DEF Home
<1>5. DirtyLines'
  BY <1>2, <1>3, Zenon DEF DirtyLines, Sound, Through
<1>6. InMemory'
  <2> SUFFICES ASSUME NEW w \in Words,
                      \A l \in Lines : dcache'.dirty[l] => Home(l)' # w \div LINE_WORDS
               PROVE  ram'.mem[w] = flat'[w]
    BY Zenon DEF InMemory
  <2> DEFINE n == Home(dcache.wb)
             v == WordAt(n, dcache.word)
  <2>1. v \in Words /\ ram'.mem = [ram.mem EXCEPT ![v] = flat[v]]
    BY <1>2, MemoryStep, Zenon
  <2>2. ram.mem \in [Words -> Word]
    BY <1>1, Zenon DEF RamRecord
  <2>3. CASE w \div LINE_WORDS # n
    <3>1. \A l \in Lines : dcache.dirty[l] => Home(l) # w \div LINE_WORDS
      BY <1>2, <1>3, <1>4, <2>3, Zenon
    <3>2. ram.mem[w] = flat[w]
      BY <3>1, Zenon DEF Sound, Through, InMemory
    <3> HIDE DEF v
    <3>3. QED
      BY <2>1, <2>2, <3>2, Zenon
  <2>4. CASE w \div LINE_WORDS = n
    <3> DEFINE k == w % LINE_WORDS
    <3>1. k \in Offsets /\ w = WordAt(n, k)
      BY <2>4, WordRange, Zenon
    <3> HIDE DEF k
    <3>2. k < dcache.word \/ k = dcache.word
      BY <1>2, <3>1, Geometry DEF Offsets, LastWord
    <3>3. k = dcache.word => w = v
      BY <3>1, Zenon
    <3>4. k < dcache.word => ram.mem[w] = flat[w]
      BY <1>2, <3>1, Zenon DEF Sound, Through, WrittenBack
    <3> HIDE DEF v
    <3>5. QED
      BY <2>1, <2>2, <3>2, <3>3, <3>4, Zenon
  <2>5. QED
    BY <2>3, <2>4, Zenon
<1>7. InLine'
  <2> SUFFICES ASSUME NEW l \in Lines, NEW k \in Offsets, dcache'.valid[l]
               PROVE  dcache'.data[l][k] = flat'[WordAt(Home(l)', k)]
    BY Zenon DEF InLine, WordAt
  <2>1. dcache.data[l][k] = flat[WordAt(Home(l), k)]
    BY <1>2, Zenon DEF Sound, Through, InLine
  <2>2. QED
    BY <1>2, <1>4, <2>1, Zenon
<1>8. WrittenBack'
  BY <1>2, Zenon DEF WrittenBack
<1>9. Refilled'
  BY <1>2 DEF Refilled, Offsets
<1>10. QED
  BY <1>5, <1>6, <1>7, <1>8, <1>9, Zenon DEF Data

\* The lines that an address hits, in a state of the invariant.
LEMMA HitLines ==
    ASSUME Sound, NEW a \in Nat
    PROVE  /\ way_hit(a) = {l \in Lines : dcache.valid[l] /\ Home(l) = LineOf(a)}
           /\ \A k, l \in way_hit(a) : k = l
<1>1. dcache.tag \in [Lines -> Nat]
  <2>1. dcache \in CacheRecord
    BY TypesNamed, Zenon DEF Sound, TypeOK
  <2>2. Tags \subseteq Nat
    BY DEF Tags
  <2>3. QED
    BY <2>1, <2>2, Zenon DEF CacheRecord
<1>2. way_hit(a) = {l \in Lines : dcache.valid[l] /\ Home(l) = LineOf(a)}
  BY <1>1, Hits, Zenon
<1>3. \A k, l \in way_hit(a) : k = l
  BY AddressSet, Zenon DEF Sound, IInv, TagsUnique, way_hit
<1>4. QED
  BY <1>2, <1>3, Zenon

\* What a word of the line being refilled should be.
Wanted(k) ==
  LET w == WordAt(LineOf(dcache.cur.addr), k)
  IN  IF dcache.cur.write
      THEN StoreTo(flat, dcache.cur.addr, dcache.cur.f3, dcache.cur.data)[w]
      ELSE flat[w]

\* The memory delivers the program's word, and the store is merged into it.
LEMMA FilledWord ==
    ASSUME Sound, dcache.state = "FILL", ram.done
    PROVE  fill_value(ram.data) = Wanted(dcache.word)
<1> DEFINE a == dcache.cur.addr
           n == LineOf(a)
           w == WordAt(n, dcache.word)
<1>1. TypeOK /\ dcache \in CacheRecord /\ ram \in RamRecord
  BY TypesNamed, Zenon DEF Sound, TypeOK
<1>2. /\ a \in Address /\ dcache.word \in Offsets
  BY <1>1, Zenon DEF CacheRecord, CacheRequest
<1>3. a \in Nat /\ n < MemoryLines /\ n \in Nat
  BY <1>2, AddressRange, AddressParts, Zenon
<1>4. w \in Words /\ w \in Nat
  BY <1>2, <1>3, LineRange, WordInLine, Zenon
<1>5. ram.data = ram.mem[w]
  <2>1. dcache_bus.addr = 2 * w
    BY <1>1, RequestTypes, Zenon
  <2>2. ram.data = ram.mem[WordOf(ram.addr)] /\ ram.addr = dcache_bus.addr
    BY Zenon DEF Sound, Through, Answered
  <2>3. WordOf(2 * w) = w
    BY <1>4, WordAddress, Zenon
  <2>4. QED
    BY <2>1, <2>2, <2>3, Zenon
<1>6. ram.mem[w] = flat[w]
  <2>1. way_hit(a) = {}
    BY Zenon DEF Sound, IInv, MissOpen, Refilling
  <2>2. \A l \in Lines : dcache.dirty[l] => Home(l) # n
    BY <1>3, <2>1, HitLines DEF Sound, Through, DirtyLines
  <2>3. w \div LINE_WORDS = n
    BY <1>2, <1>3, WordInLine, Zenon
  <2>4. QED
    BY <1>4, <2>2, <2>3, Zenon DEF Sound, Through, InMemory
<1>7. w = WordOf(a) <=> dcache.word = word_off(a)
  <2>1. WordOf(a) = WordAt(n, word_off(a)) /\ word_off(a) \in Offsets
    BY <1>3, AddressParts, Zenon
  <2>2. w % LINE_WORDS = dcache.word /\ WordAt(n, word_off(a)) % LINE_WORDS = word_off(a)
    BY <1>2, <1>3, <2>1, WordInLine, Zenon
  <2>3. QED
    BY <2>1, <2>2, Zenon
<1>8. flat \in [Words -> Word]
  BY <1>1, Zenon DEF TypeOK, Words
<1>9. StoreTo(flat, a, dcache.cur.f3, dcache.cur.data)[w] =
        IF w = WordOf(a) THEN Merge(flat[w], dcache.cur.f3, LaneOf(a), dcache.cur.data)
        ELSE flat[w]
  BY <1>2, <1>4, <1>8, StoredWord
<1> HIDE DEF w, n
<1>10. QED
  BY <1>5, <1>6, <1>7, <1>9, Zenon DEF fill_value, Wanted, w, n

\* After a word is delivered, all words up to it are as wanted.
LEMMA FilledUpTo ==
    ASSUME Sound, dcache.state = "FILL", ram.done,
           dcache'.data =
             [dcache.data EXCEPT ![dcache.line][dcache.word] = fill_value(ram.data)],
           NEW k \in Offsets, k <= dcache.word
    PROVE  dcache'.data[dcache.line][k] = Wanted(k)
<1>1. dcache \in CacheRecord
  BY TypesNamed, Zenon DEF Sound, TypeOK
<1>2. /\ dcache.data \in [Lines -> [Offsets -> Word]] /\ dcache.line \in Lines
      /\ dcache.word \in Offsets
  BY <1>1, Zenon DEF CacheRecord
<1>3. CASE k = dcache.word
  BY <1>2, <1>3, FilledWord
<1>4. CASE k < dcache.word
  <2>1. dcache.data[dcache.line][k] = Wanted(k)
    BY <1>4, Zenon DEF Sound, Through, Refilled, Wanted
  <2>2. k # dcache.word
    BY <1>4 DEF Offsets
  <2>3. dcache'.data[dcache.line][k] = dcache.data[dcache.line][k]
    BY <1>2, <2>2
  <2>4. QED
    BY <2>1, <2>3, Zenon
<1>5. k < dcache.word \/ k = dcache.word
  BY <1>2 DEF Offsets
<1>6. QED
  BY <1>3, <1>4, <1>5, Zenon

\* A word of a refill.
LEMMA FillData ==
    ASSUME Sound, Next, Fills, flat' = flat
    PROVE  Data'
<1>1. dcache \in CacheRecord
  BY TypesNamed, Zenon DEF Sound, TypeOK
<1>2. /\ dcache.state = "FILL" /\ ram.done /\ dcache'.state = "FILL"
      /\ dcache'.valid = dcache.valid /\ dcache'.tag = dcache.tag
      /\ dcache'.dirty = dcache.dirty /\ dcache'.line = dcache.line
      /\ dcache'.cur = dcache.cur /\ dcache'.word = dcache.word + 1
      /\ dcache'.data =
           [dcache.data EXCEPT ![dcache.line][dcache.word] = fill_value(ram.data)]
  BY Zenon DEF Fills, Held
<1>3. /\ dcache.data \in [Lines -> [Offsets -> Word]] /\ dcache.line \in Lines
      /\ dcache.word \in Offsets
  BY <1>1, Zenon DEF CacheRecord
<1>4. \A l \in Lines : Home(l)' = Home(l)
  BY <1>2, Zenon DEF Home
<1>5. DirtyLines'
  BY <1>2, Zenon DEF DirtyLines, Sound, Through
<1>6. ram'.mem = ram.mem
  BY <1>2, MemoryStep, Zenon
<1>7. InMemory'
  BY <1>2, <1>4, <1>6 DEF Sound, Through, InMemory
<1>8. InLine'
  <2> SUFFICES ASSUME NEW l \in Lines, NEW k \in Offsets, dcache'.valid[l],
                      dcache'.line # l
               PROVE  dcache'.data[l][k] = flat'[WordAt(Home(l)', k)]
    BY <1>2, Zenon DEF InLine, WordAt
  <2>1. dcache.data[l][k] = flat[WordAt(Home(l), k)]
    BY <1>2, Zenon DEF Sound, Through, InLine
  <2>2. dcache'.data[l] = dcache.data[l]
    BY <1>2, <1>3, Zenon
  <2>3. QED
    BY <1>2, <1>4, <2>1, <2>2, Zenon
<1>9. WrittenBack'
  BY <1>2, Zenon DEF WrittenBack
<1>10. Refilled'
  <2> SUFFICES ASSUME NEW k \in Offsets, k < dcache'.word
               PROVE  dcache'.data[dcache'.line][k] = Wanted(k)'
    BY Zenon DEF Refilled, Wanted, WordAt, LineOf
  <2>1. k <= dcache.word
    BY <1>2, <1>3 DEF Offsets
  <2>2. dcache'.data[dcache.line][k] = Wanted(k)
    BY <1>2, <2>1, FilledUpTo, Zenon
  <2>3. Wanted(k)' = Wanted(k)
    BY <1>2, Zenon DEF Wanted, WordAt, LineOf
  <2>4. QED
    BY <1>2, <2>2, <2>3, Zenon
<1>11. QED
  BY <1>5, <1>7, <1>8, <1>9, <1>10, Zenon DEF Data

\* A store changes no word of another line.
LEMMA OtherLine ==
    ASSUME NEW mem \in [Words -> Word], NEW a \in Address, NEW f3, NEW x,
           NEW w \in Words, w \div LINE_WORDS # LineOf(a)
    PROVE  StoreTo(mem, a, f3, x)[w] = mem[w]
<1>1. w # WordOf(a)
  BY Zenon DEF LineOf
<1>2. QED
  BY <1>1, StoredWord

\* The words of the lines in the cache.
LEMMA CachedWord ==
    ASSUME Sound, NEW l \in Lines, NEW k \in Offsets
    PROVE  /\ Home(l) \in Nat /\ Home(l) < MemoryLines
           /\ WordAt(Home(l), k) \in Words
           /\ WordAt(Home(l), k) \div LINE_WORDS = Home(l)
           /\ WordAt(Home(l), k) % LINE_WORDS = k
<1>1. dcache \in CacheRecord
  BY TypesNamed, Zenon DEF Sound, TypeOK
<1>2. dcache.tag[l] \in Tags
  BY <1>1, Zenon DEF CacheRecord
<1>3. Home(l) \in Nat /\ Home(l) < MemoryLines
  BY <1>2, HomeRange, Zenon
<1>4. QED
  BY <1>3, LineRange, WordInLine, Zenon

\* The last word of a refill: the line is valid, with the store that missed.
LEMMA CompleteData ==
    ASSUME Sound, Next, Completes,
           flat' = IF dcache.cur.write
                   THEN StoreTo(flat, dcache.cur.addr, dcache.cur.f3, dcache.cur.data)
                   ELSE flat
    PROVE  Data'
<1> DEFINE a == dcache.cur.addr
           n == LineOf(a)
<1>0. PICK line : line = dcache.line
  BY Zenon
<1>1. dcache \in CacheRecord /\ flat \in [Words -> Word]
  BY TypesNamed, Zenon DEF Sound, TypeOK, Words
<1>2. /\ dcache.state = "FILL" /\ ram.done /\ LastWord /\ dcache'.state = "IDLE"
      /\ dcache'.valid = [dcache.valid EXCEPT ![line] = TRUE]
      /\ dcache'.tag = [dcache.tag EXCEPT ![line] = tag_of(a)]
      /\ dcache'.dirty = [dcache.dirty EXCEPT ![line] = dcache.cur.write]
      /\ dcache'.data =
           [dcache.data EXCEPT ![line][dcache.word] = fill_value(ram.data)]
  BY <1>0, Zenon DEF Completes
<1>3. /\ dcache.data \in [Lines -> [Offsets -> Word]] /\ line \in Lines
      /\ dcache.word \in Offsets /\ a \in Address
      /\ dcache.valid \in [Lines -> BOOLEAN] /\ dcache.dirty \in [Lines -> BOOLEAN]
      /\ dcache.tag \in [Lines -> Tags]
  BY <1>0, <1>1, Zenon DEF CacheRecord, CacheRequest
<1>4. a \in Nat /\ n \in Nat /\ n < MemoryLines
  BY <1>3, AddressRange, AddressParts, Zenon
<1>5. line \in SetLines(set_idx(a)) /\ way_hit(a) = {}
  BY <1>0, <1>2, Zenon DEF Sound, IInv, MissOpen, Refilling
<1>6. Home(line)' = n
  <2>1. set_idx(a) = line \div WAYS
    BY <1>3, <1>4, <1>5, LineSet, AddressSet, Zenon
  <2>2. n = tag_of(a) * NUM_SETS + set_idx(a)
    BY <1>4, AddressParts, Zenon
  <2>3. dcache'.tag[line] = tag_of(a)
    BY <1>2, <1>3
  <2>4. Home(line)' = dcache'.tag[line] * NUM_SETS + (line \div WAYS)
    BY Zenon DEF Home
  <2>5. QED
    BY <2>1, <2>2, <2>3, <2>4, Zenon
<1>7. \A l \in Lines : l # line => Home(l)' = Home(l)
  BY <1>2, <1>3 DEF Home
<1>8. \A l \in Lines : dcache.valid[l] => Home(l) # n
  BY <1>4, <1>5, HitLines
<1>9. \A w \in Words : w \div LINE_WORDS # n => flat'[w] = flat[w]
  BY <1>1, <1>3, OtherLine
<1>10. ram'.mem = ram.mem
  BY <1>2, MemoryStep, Zenon
<1>11. ~dcache.dirty[line]
  BY <1>0, <1>2, Zenon DEF Sound, Through, DirtyLines
<1> HIDE DEF n
<1>12. DirtyLines'
  <2>1. \A l \in Lines : dcache.dirty[l] => dcache.valid[l]
    BY Zenon DEF Sound, Through, DirtyLines
  <2>2. \A l \in Lines : dcache'.dirty[l] => dcache'.valid[l]
    BY <1>2, <1>3, <2>1, Zenon
  <2>3. dcache'.state = "IDLE"
    BY <1>2, Zenon
  <2>4. QED
    BY <2>2, <2>3, Zenon DEF DirtyLines
<1>13. InMemory'
  <2> SUFFICES ASSUME NEW w \in Words,
                      \A l \in Lines : dcache'.dirty[l] => Home(l)' # w \div LINE_WORDS
               PROVE  ram'.mem[w] = flat'[w]
    BY Zenon DEF InMemory
  <2>1. \A l \in Lines : dcache.dirty[l] => Home(l) # w \div LINE_WORDS
    BY <1>2, <1>3, <1>7, <1>11, Zenon
  <2>2. ram.mem[w] = flat[w]
    BY <2>1, Zenon DEF Sound, Through, InMemory
  <2>3. flat'[w] = flat[w]
    <3>1. CASE dcache.cur.write
      BY <1>2, <1>3, <1>6, <1>9, <3>1, Zenon
    <3>2. CASE ~dcache.cur.write
      BY <3>2, Zenon
    <3>3. QED
      BY <3>1, <3>2, Zenon
  <2>4. QED
    BY <1>10, <2>2, <2>3, Zenon
<1>14. InLine'
  <2> SUFFICES ASSUME NEW l \in Lines, NEW k \in Offsets, dcache'.valid[l]
               PROVE  dcache'.data[l][k] = flat'[WordAt(Home(l)', k)]
    BY Zenon DEF InLine, WordAt
  <2>1. CASE l = line
    <3>1. k <= dcache.word
      BY <1>2, Geometry DEF Offsets, LastWord
    <3>2. dcache'.data[line][k] = Wanted(k)
      BY <1>0, <1>2, <3>1, FilledUpTo, Zenon
    <3>3. Wanted(k) = flat'[WordAt(n, k)]
      BY Zenon DEF Wanted, n
    <3>4. QED
      BY <1>6, <2>1, <3>2, <3>3, Zenon
  <2>2. CASE l # line
    <3>1. dcache.valid[l] /\ dcache'.data[l] = dcache.data[l]
      BY <1>2, <1>3, <2>2, Zenon
    <3>2. dcache.data[l][k] = flat[WordAt(Home(l), k)]
      BY <1>0, <1>2, <2>2, <3>1, Zenon DEF Sound, Through, InLine
    <3>3. WordAt(Home(l), k) \in Words /\ WordAt(Home(l), k) \div LINE_WORDS # n
      BY <1>8, <3>1, CachedWord, Zenon
    <3>4. flat'[WordAt(Home(l), k)] = flat[WordAt(Home(l), k)]
      BY <1>9, <3>3, Zenon
    <3>5. QED
      BY <1>7, <2>2, <3>1, <3>2, <3>4, Zenon
  <2>3. QED
    BY <2>1, <2>2, Zenon
<1>15. WrittenBack' /\ Refilled'
  BY <1>2, Zenon DEF WrittenBack, Refilled
<1>16. QED
  BY <1>12, <1>13, <1>14, <1>15, Zenon DEF Data

\* A store that hits goes into its line only.
LEMMA HitData ==
    ASSUME Sound, Next, WriteHits,
           flat' = StoreTo(flat, reg3.addr, reg3.f3, reg3.data)
    PROVE  Data'
<1> DEFINE a == reg3.addr
           n == LineOf(a)
           h == hit_line_idx(a)
           o == word_off(a)
           m == Merge(dcache.data[h][o], reg3.f3, LaneOf(a), reg3.data)
<1>1. dcache \in CacheRecord /\ flat \in [Words -> Word] /\ TypeOK
  BY TypesNamed, Zenon DEF Sound, TypeOK, Words
<1>2. /\ dcache.state = "IDLE" /\ dcache'.state = "IDLE" /\ hit(a)
      /\ dcache'.valid = dcache.valid /\ dcache'.tag = dcache.tag
      /\ dcache'.dirty = [dcache.dirty EXCEPT ![h] = TRUE]
      /\ dcache'.data = [dcache.data EXCEPT ![h][o] = m]
  BY Zenon DEF WriteHits
<1>3. a \in Address /\ a \in Nat
  <2>1. reg3 \in Instruction
    BY <1>1, InstructionTypes, Zenon DEF TypeOK
  <2>2. QED
    BY <2>1, AddressRange, Zenon DEF Instruction
<1>4. /\ way_hit(a) = {l \in Lines : dcache.valid[l] /\ Home(l) = n}
      /\ \A k, l \in way_hit(a) : k = l
  BY <1>3, HitLines, Zenon
<1>5. h \in way_hit(a)
  BY <1>2, Zenon DEF hit, hit_line_idx
<1>6. h \in Lines /\ dcache.valid[h] /\ Home(h) = n
  BY <1>4, <1>5, Zenon
<1>7. \A l \in Lines : dcache.valid[l] /\ l # h => Home(l) # n
  BY <1>4, <1>5, Zenon
<1>8. o \in Offsets /\ WordOf(a) = WordAt(n, o) /\ WordOf(a) \in Words
  BY <1>3, AddressParts, AddressRange, Zenon
<1>9. \A w \in Words : w \div LINE_WORDS # n => flat'[w] = flat[w]
  BY <1>1, <1>3, OtherLine
<1>10. \A l \in Lines : Home(l)' = Home(l)
  BY <1>2, Zenon DEF Home
<1>11. ram'.mem = ram.mem
  BY <1>2, MemoryStep, Zenon
<1>12. /\ dcache.data \in [Lines -> [Offsets -> Word]]
       /\ dcache.dirty \in [Lines -> BOOLEAN]
  BY <1>1, Zenon DEF CacheRecord
<1>13. \A w \in Words : flat'[w] =
         IF w = WordOf(a) THEN Merge(flat[w], reg3.f3, LaneOf(a), reg3.data) ELSE flat[w]
  BY <1>1, <1>3, StoredWord
<1> HIDE DEF n, h, o
<1>14. DirtyLines'
  BY <1>2, <1>6, <1>12, Zenon DEF Sound, Through, DirtyLines
<1>15. InMemory'
  <2> SUFFICES ASSUME NEW w \in Words,
                      \A l \in Lines : dcache'.dirty[l] => Home(l)' # w \div LINE_WORDS
               PROVE  ram'.mem[w] = flat'[w]
    BY Zenon DEF InMemory
  <2>1. \A l \in Lines : dcache.dirty[l] => Home(l) # w \div LINE_WORDS
    BY <1>2, <1>10, <1>12, Zenon
  <2>2. ram.mem[w] = flat[w]
    BY <2>1, Zenon DEF Sound, Through, InMemory
  <2>3. w \div LINE_WORDS # n
    BY <1>2, <1>6, <1>10, <1>12, Zenon
  <2>4. QED
    BY <1>9, <1>11, <2>2, <2>3, Zenon
<1>16. InLine'
  <2> SUFFICES ASSUME NEW l \in Lines, NEW k \in Offsets, dcache'.valid[l]
               PROVE  dcache'.data[l][k] = flat'[WordAt(Home(l)', k)]
    BY Zenon DEF InLine, WordAt
  <2> DEFINE w == WordAt(Home(l), k)
  <2>1. dcache.valid[l] /\ dcache.data[l][k] = flat[w]
    BY <1>2, Zenon DEF Sound, Through, InLine
  <2>2. w \in Words /\ w \div LINE_WORDS = Home(l) /\ w % LINE_WORDS = k
    BY CachedWord, Zenon
  <2>3. CASE l = h /\ k = o
    <3>1. w = WordOf(a)
      BY <1>6, <1>8, <2>3, Zenon
    <3>2. dcache'.data[l][k] = m
      <4> HIDE DEF m, w
      <4>1. dcache'.data = [dcache.data EXCEPT ![h][o] = m]
        BY <1>2, Zenon
      <4>2. dcache'.data[h][o] = m
        BY <1>6, <1>8, <1>12, <4>1
      <4>3. QED
        BY <2>3, <4>2, Zenon
    <3>3. m = Merge(flat[w], reg3.f3, LaneOf(a), reg3.data)
      BY <2>1, <2>3, Zenon
    <3> HIDE DEF m, w
    <3>4. dcache'.data[l][k] = flat'[w]
      BY <1>13, <2>2, <3>1, <3>2, <3>3, Zenon
    <3>5. QED
      BY <1>10, <3>4, Zenon DEF w
  <2>4. CASE l = h /\ k # o
    <3>1. WordAt(n, o) % LINE_WORDS = o
      BY <1>6, <1>8, CachedWord, Zenon
    <3>2. w # WordOf(a)
      BY <1>8, <2>2, <2>4, <3>1, Zenon
    <3>3. dcache'.data[l][k] = dcache.data[l][k]
      <4> HIDE DEF m
      <4>1. QED
        BY <1>2, <1>6, <1>8, <1>12, <2>4
    <3> HIDE DEF w
    <3>4. dcache'.data[l][k] = flat'[w]
      BY <1>13, <2>1, <2>2, <3>2, <3>3, Zenon
    <3>5. QED
      BY <1>10, <3>4, Zenon DEF w
  <2>5. CASE l # h
    <3>1. w \div LINE_WORDS # n
      BY <1>7, <2>1, <2>2, <2>5, Zenon
    <3>2. dcache'.data[l] = dcache.data[l]
      <4> HIDE DEF m
      <4>1. QED
        BY <1>2, <1>12, <2>5, Zenon
    <3> HIDE DEF w
    <3>3. dcache'.data[l][k] = flat'[w]
      BY <1>9, <2>1, <2>2, <3>1, <3>2, Zenon
    <3>4. QED
      BY <1>10, <3>3, Zenon DEF w
  <2>6. QED
    BY <2>3, <2>4, <2>5, Zenon
<1>17. WrittenBack' /\ Refilled'
  BY <1>2, Zenon DEF WrittenBack, Refilled
<1>18. QED
  BY <1>14, <1>15, <1>16, <1>17, Zenon DEF Data

\* A cycle keeps track of every store.
LEMMA DataStep ==
    ASSUME Sound, Next
    PROVE  Data'
<1>1. Moves
  BY CacheMoves, Zenon
<1>2. flat' = IF memWrite_regem /\ dcache_resp_ready
              THEN StoreTo(flat, reg3.addr, reg3.f3, reg3.data) ELSE flat
  BY MemMoves, Zenon
<1>3. dcache_resp_ready <=>
        \/ dcache.state = "IDLE" /\ memWrite_regem /\ hit(reg3.addr)
        \/ dcache.state = "HIT_RD" /\ memRead_regem /\ reg3.addr = dcache.cur.addr
        \/ dcache.state = "FILL" /\ ram.done /\ LastWord
  BY Ready, Zenon
<1>4. ~(memRead_regem /\ memWrite_regem)
  BY CacheWires, Zenon
<1>5. dcache \in CacheRecord
  BY TypesNamed, Zenon DEF Sound, TypeOK
<1>6. /\ \A l \in Lines : dcache.dirty[l] => dcache.valid[l]
      /\ dcache.state = "FILL" => ~dcache.dirty[dcache.line]
      /\ dcache.state = "WB" => dcache.dirty[dcache.wb]
      /\ dcache.state = "WB" /\ ~dcache.active => dcache.wb = dcache.line
  BY Zenon DEF Sound, Through, DirtyLines
<1>7. CASE Waits
  <2>1. flat' = flat
    BY <1>2, <1>3, <1>7, Zenon DEF Waits
  <2>2. QED
    BY <1>6, <1>7, <2>1, QuietData, Zenon DEF Waits, Held
<1>8. CASE FlushBegins
  <2>1. ~memWrite_regem
    BY <1>8, Ready, Zenon DEF FlushBegins, flush_all
  <2>2. flat' = flat
    BY <1>2, <2>1, Zenon
  <2>3. QED
    BY <1>8, <2>2, QuietData, Zenon DEF FlushBegins
<1>9. CASE WriteHits
  BY <1>2, <1>3, <1>9, HitData, Zenon DEF WriteHits
<1>10. CASE ReadHits
  <2>1. flat' = flat
    BY <1>2, <1>4, <1>10, Zenon DEF ReadHits
  <2>2. QED
    BY <1>10, <2>1, QuietData, Zenon DEF ReadHits
<1>11. CASE Misses
  <2>1. flat' = flat
    BY <1>2, <1>3, <1>11, Zenon DEF Misses
  <2>2. QED
    BY <1>11, <2>1, QuietData, Zenon DEF Misses
<1>12. CASE Answers
  <2>1. flat' = flat
    BY <1>2, <1>3, <1>4, <1>12, Zenon DEF Answers
  <2>2. QED
    BY <1>12, <2>1, QuietData, Zenon DEF Answers
<1>13. CASE WritesBack
  <2>1. flat' = flat
    BY <1>2, <1>3, <1>13, Zenon DEF WritesBack
  <2>2. QED
    BY <1>6, <1>13, <2>1, QuietData, Zenon DEF WritesBack, Held
<1>14. CASE Cleans
  <2>1. flat' = flat
    BY <1>2, <1>3, <1>14, Zenon DEF Cleans
  <2>2. QED
    BY <1>14, <2>1, CleanData, Zenon
<1>15. CASE Fills
  <2>1. flat' = flat
    BY <1>2, <1>3, <1>15, Zenon DEF Fills
  <2>2. QED
    BY <1>15, <2>1, FillData, Zenon
<1>16. CASE Completes
  <2>1. dcache.state = "FILL" /\ ram.done /\ LastWord
    BY <1>16, Zenon DEF Completes
  <2>2. dcache.cur = dcache_req /\ (memRead_regem \/ memWrite_regem)
    BY <2>1, Zenon DEF Sound, Through, Served, Refilling
  <2>3. /\ dcache.cur.write = memWrite_regem /\ dcache.cur.addr = reg3.addr
        /\ dcache.cur.f3 = reg3.f3 /\ dcache.cur.data = reg3.data
    BY <2>2, CacheWires, Zenon
  <2>4. flat' = IF dcache.cur.write
                THEN StoreTo(flat, dcache.cur.addr, dcache.cur.f3, dcache.cur.data)
                ELSE flat
    BY <1>2, <1>3, <2>1, <2>3, Zenon
  <2>5. QED
    BY <1>16, <2>4, CompleteData, Zenon
<1>17. CASE FindsDirty
  <2>1. flat' = flat
    BY <1>2, <1>3, <1>17, Zenon DEF FindsDirty
  <2>2. QED
    BY <1>17, <2>1, QuietData, Zenon DEF FindsDirty
<1>18. CASE FindsClean
  <2>1. flat' = flat
    BY <1>2, <1>3, <1>18, Zenon DEF FindsClean
  <2>2. dcache.state = "SCAN" /\ Kept /\ dcache'.state \in {"IDLE", "SCAN"}
    BY <1>18, Zenon DEF FindsClean, ScansOn
  <2>3. QED
    BY <2>1, <2>2, QuietData, Zenon
<1>19. QED
  BY <1>1, <1>7, <1>8, <1>9, <1>10, <1>11, <1>12, <1>13, <1>14, <1>15, <1>16,
     <1>17,
     <1>18, Zenon DEF Moves

----------------------------------------------------------------------------
(* Who the cache works for, after a cycle.                                 *)

\* While a word is waited for, its request stays on the bus.
LEMMA RequestStays ==
    ASSUME Sound, Next, dcache.state \in {"WB", "FILL"}, ~ram.done
    PROVE  dcache'.state = dcache.state /\ dcache_bus.addr' = dcache_bus.addr
<1>1. Waits
  BY CacheMoves, Zenon
     DEF Moves, FlushBegins, WriteHits, ReadHits, Misses, Answers, WritesBack,
     Cleans, Fills, Completes, FindsDirty, FindsClean
<1>2. /\ dcache'.state = dcache.state /\ dcache'.word = dcache.word
      /\ dcache'.tag = dcache.tag /\ dcache'.cur = dcache.cur /\ dcache'.wb = dcache.wb
  BY <1>1, Zenon DEF Waits, Kept, Held
<1>3. QED
  BY <1>2, Zenon DEF dcache_bus, LineBase

\* The memory keeps answering the request that is on the bus.
LEMMA AnsweredStep ==
    ASSUME Sound, Next
    PROVE  Answered'
<1> DEFINE bus == dcache_bus
           new == is_new_request(bus)
           capture == ~new /\ ram_ack_raw(bus) /\ ~ram.captured
           ends == ram.busy /\ ram.count = 0
<1>1. TypeOK /\ ram \in RamRecord /\ bus \in BusRequest
  BY TypesNamed, RequestTypes, Zenon DEF Sound, TypeOK
<1>2. RamEdge(bus) /\ build.Latency # 0
  BY CacheWires, Zenon DEF Next
<1>3. /\ ram'.active = (new \/ (ram.active /\ ~ram.done))
      /\ ram'.addr = IF new THEN bus.addr ELSE ram.addr
      /\ ram'.we = IF new THEN bus.we ELSE ram.we
      /\ ram'.captured = (~new /\ (ram.captured \/ capture))
      /\ ram'.data = IF capture THEN ram_data_raw ELSE ram.data
      /\ ram'.busy = ((new /\ ~ram.busy) \/ (ram.busy /\ ~ends))
      /\ ram'.done = ends
  BY <1>1, <1>2, RamMoves, Zenon
<1>4. /\ ram'.pending = (bus.cyc /\ ~bus.we)
      /\ bus.cyc /\ ~bus.we => ram'.read = LoadFrom(ram.mem, bus.addr, bus.f3)
  BY <1>1, <1>2, RamMoves, Zenon
<1>5. /\ bus.cyc <=> dcache.state \in {"WB", "FILL"}
      /\ bus.we <=> dcache.state = "WB"
      /\ dcache.state = "FILL" => bus.f3 = "lw"
  BY Zenon DEF dcache_bus
<1>6. /\ ram.active <=> ram.busy \/ ram.done
      /\ ~(ram.busy /\ ram.done)
      /\ ram.active => /\ dcache.state \in {"WB", "FILL"}
                       /\ ram.addr = bus.addr /\ ram.we = (dcache.state = "WB")
      /\ ram.active /\ dcache.state = "FILL" =>
           /\ ram.pending /\ ram.read = ram.mem[WordOf(ram.addr)]
           /\ ram.captured => ram.data = ram.read
           /\ ram.done => ram.captured
  BY Zenon DEF Sound, Through, Answered
<1>7. new <=> bus.cyc /\ ~ram.active
  <2>1. bus.we = (dcache.state = "WB")
    BY Zenon DEF dcache_bus
  <2>2. ram.active => bus.addr = ram.addr /\ bus.we = ram.we
    BY <1>6, <2>1, Zenon
  <2> HIDE DEF bus
  <2>3. QED
    BY <2>2, Zenon DEF is_new_request
<1>8. CASE ~bus.cyc \/ ram.done
  <2>1. ~new /\ ~ram.busy
    BY <1>5, <1>6, <1>7, <1>8, Zenon
  <2>2. ~ram'.active /\ ~ram'.busy /\ ~ram'.done
    BY <1>3, <1>5, <1>6, <1>8, <2>1, Zenon
  <2>3. QED
    BY <2>2, Zenon DEF Answered
<1>9. CASE bus.cyc /\ ~ram.done
  <2>1. dcache'.state = dcache.state /\ dcache_bus.addr' = bus.addr
    BY <1>5, <1>9, RequestStays, Zenon
  <2>2. ram'.active /\ ram'.addr = bus.addr /\ (ram'.we <=> dcache.state = "WB")
    BY <1>3, <1>5, <1>6, <1>7, <1>9, Zenon
  <2>3. (ram'.busy \/ ram'.done) /\ ~(ram'.busy /\ ram'.done)
    BY <1>3, <1>6, <1>7, <1>9, Zenon
  <2>4. ASSUME dcache.state = "FILL"
        PROVE  /\ ram'.pending /\ ram'.read = ram'.mem[WordOf(ram'.addr)]
               /\ ram'.captured => ram'.data = ram'.read
               /\ ram'.done => ram'.captured
    <3>1. ram'.mem = ram.mem
      BY <2>4, MemoryStep, Zenon
    <3>2. ram'.pending /\ ram'.read = ram.mem[WordOf(bus.addr)]
      BY <1>4, <1>5, <2>4, Zenon DEF LoadFrom, Extend
    <3>3. CASE ~ram.active
      BY <1>3, <1>6, <1>7, <1>9, <2>2, <3>1, <3>2, <3>3, Zenon
    <3>4. CASE ram.active
      <4>1. /\ ~new /\ ram.addr = bus.addr /\ ram.pending
            /\ ram.read = ram.mem[WordOf(bus.addr)]
        BY <1>6, <1>7, <2>4, <3>4, Zenon
      <4>2. ram_ack_raw(bus) /\ ram_data_raw = ram.read
        BY <4>1, Zenon DEF ram_ack_raw, ram_data_raw
      <4>3. ram'.captured /\ ram'.data = ram.read
        BY <1>3, <1>6, <2>4, <3>4, <4>1, <4>2, Zenon
      <4>4. QED
        BY <2>2, <3>1, <3>2, <4>1, <4>3, Zenon
    <3>5. QED
      BY <3>3, <3>4, Zenon
  <2>5. (ram'.we = (dcache'.state = "WB"))
    <3>1. ram' \in RamRecord
      BY <1>1, <1>2, RamMoves, Zenon
    <3>2. QED
      BY <2>1, <2>2, <3>1, Zenon DEF RamRecord
  <2>6. QED
    BY <1>5, <1>9, <2>1, <2>2, <2>3, <2>4, <2>5, Zenon DEF Answered
<1>10. QED
  BY <1>8, <1>9, Zenon

\* The lines the flush has passed are clean, and the cache says so at the end.
LEMMA ScanStepClean ==
    ASSUME Sound, ScansOn, dcache.active,
           dcache'.dirty \in [Lines -> BOOLEAN], ~dcache'.dirty[dcache.scan],
           \A l \in Lines : ~dcache.dirty[l] => ~dcache'.dirty[l]
    PROVE  /\ dcache'.done => Clean' /\ dcache'.state = "IDLE"
           /\ dcache'.active => /\ \A l \in Lines : l < dcache'.scan => ~dcache'.dirty[l]
                                /\ dcache'.state = "SCAN"
<1>1. dcache \in CacheRecord
  BY TypesNamed, Zenon DEF Sound, TypeOK
<1> DEFINE N == NUM_SETS * WAYS
<1>2. N \in Nat /\ Lines = 0 .. N - 1 /\ dcache.scan \in Lines
  BY <1>1, Geometry DEF CacheRecord, Lines
<1> HIDE DEF N
<1>3. \A l \in Lines : l < dcache.scan => ~dcache'.dirty[l]
  BY Zenon DEF Sound, Through, Fenced
<1>4. \A l \in Lines : l <= dcache.scan => ~dcache'.dirty[l]
  BY <1>2, <1>3
<1>5. CASE dcache.scan = N - 1
  <2>1. dcache'.state = "IDLE" /\ ~dcache'.active /\ dcache'.done
    BY <1>5, Zenon DEF ScansOn, N
  <2>2. Clean'
    BY <1>2, <1>4, <1>5 DEF Clean
  <2>3. QED
    BY <2>1, <2>2, Zenon
<1>6. CASE dcache.scan # N - 1
  <2>1. dcache'.state = "SCAN" /\ dcache'.scan = dcache.scan + 1 /\ ~dcache'.done
    BY <1>6, Zenon DEF ScansOn, N
  <2>2. QED
    BY <1>2, <1>4, <2>1
<1>7. QED
  BY <1>5, <1>6, Zenon

\* A fence waits for its flush.
LEMMA FencedStep ==
    ASSUME Sound, Next
    PROVE  Fenced'
<1>1. dcache \in CacheRecord /\ dcache' \in CacheRecord
  BY TypesNamed, CacheTypes, Zenon DEF Sound, TypeOK
<1>2. Moves
  BY CacheMoves, Zenon
<1>3. /\ fence_pending_r => reg3.op = "fence" /\ ~mem_stall_done_r
      /\ reg3.op = "fence" /\ ~fence_pending_r => mem_stall_done_r /\ Clean
      /\ dcache.active => fence_pending_r
      /\ dcache.done => /\ fence_pending_r /\ fence_flush_started_r /\ Clean
                        /\ dcache.state = "IDLE"
      /\ dcache.active =>
           /\ \A l \in Lines : l < dcache.scan => ~dcache.dirty[l]
           /\ dcache.state = "WB" => dcache.wb = dcache.scan
  BY Zenon DEF Sound, Through, Fenced
<1>4. /\ mem_stall => reg3' = reg3
      /\ mem_stall_done_r' = (mem_stall /\ mem_access_ready)
      /\ fence_pending_r' =
           (~dcache.done /\ (fence_pending_r \/ (reg3'.op = "fence" /\ ~mem_stall)))
      /\ fence_flush_started_r' =
           (fence_pending_r /\ (dcache.active \/ fence_flush_started_r))
  BY MemMoves, Zenon
<1>5. /\ fence_pending_r => mem_stall
      /\ mem_stall => memRead_regem \/ memWrite_regem \/ fence_pending_r
      /\ mem_access_ready = IF fence_pending_r THEN dcache.done ELSE dcache_resp_ready
  BY Ready, Zenon
<1>6. /\ dcache.active => dcache.state \in {"SCAN", "WB"}
      /\ dcache.state = "SCAN" => dcache.active
  BY Zenon DEF Sound, IInv, FlushApart
<1>7. fence_pending_r' => reg3'.op = "fence" /\ ~mem_stall_done_r'
  BY <1>3, <1>4, <1>5, Zenon
<1>8. ASSUME dcache.done
      PROVE  Kept /\ dcache'.state = "IDLE" /\ ~dcache'.active /\ ~dcache'.done
  <2>1. dcache.state = "IDLE" /\ ~flush_all /\ ~memRead_regem /\ ~memWrite_regem
    BY <1>3, <1>8, Zenon DEF flush_all, memRead_regem, memWrite_regem
  <2>2. Waits
    BY <1>2, <2>1, Zenon
       DEF Moves, FlushBegins, WriteHits, ReadHits, Misses, Answers,
       WritesBack, Cleans, Fills, Completes, FindsDirty, FindsClean
  <2>3. QED
    BY <1>6, <2>1, <2>2, Zenon DEF Waits
<1>9. ASSUME reg3'.op = "fence", ~fence_pending_r'
      PROVE  mem_stall_done_r' /\ Clean'
  <2>1. dcache.done
    BY <1>3, <1>4, <1>5, <1>9, Zenon DEF memRead_regem, memWrite_regem
  <2>2. mem_stall_done_r'
    BY <1>3, <1>4, <1>5, <2>1, Zenon
  <2>3. Clean'
    BY <1>3, <1>8, <2>1, Zenon DEF Clean, Kept
  <2>4. QED
    BY <2>2, <2>3, Zenon
<1>10. dcache.active => ~dcache.done
  BY <1>3, <1>6, Zenon
<1>11. dcache.active => fence_pending_r' /\ fence_flush_started_r'
  BY <1>3, <1>4, <1>10, Zenon
<1> DEFINE Flushing ==
             /\ dcache'.active => fence_pending_r'
             /\ dcache'.done => /\ fence_pending_r' /\ fence_flush_started_r' /\ Clean'
                                /\ dcache'.state = "IDLE"
             /\ dcache'.active =>
                  /\ \A l \in Lines : l < dcache'.scan => ~dcache'.dirty[l]
                  /\ dcache'.state = "WB" => dcache'.wb = dcache'.scan
<1>12. ASSUME ~dcache'.active /\ ~dcache'.done PROVE Flushing
  BY <1>12, Zenon
<1>13. ASSUME Waits \/ WritesBack PROVE Flushing
  <2>1. ~dcache'.done /\ Kept /\ dcache'.scan = dcache.scan /\ dcache'.wb = dcache.wb
        /\ dcache'.active = dcache.active /\ dcache'.state = dcache.state
    BY <1>13, Zenon DEF Waits, WritesBack, Held
  <2>2. QED
    BY <1>3, <1>11, <2>1, Zenon DEF Kept
<1>14. ASSUME FlushBegins PROVE Flushing
  <2>1. fence_pending_r /\ ~dcache.done
    BY <1>3, <1>14, Zenon DEF FlushBegins, flush_all
  <2>2. dcache'.scan = 0 /\ dcache'.state = "SCAN" /\ ~dcache'.done
    BY <1>14, Zenon DEF FlushBegins
  <2>3. \A l \in Lines : ~(l < 0)
    BY DEF Lines
  <2>4. QED
    BY <1>4, <2>1, <2>2, <2>3, Zenon
<1>15. ASSUME Cleans PROVE Flushing
  <2>1. CASE ~dcache.active
    BY <1>12, <1>15, <2>1, Zenon DEF Cleans
  <2>2. CASE dcache.active
    <3>1. /\ ScansOn /\ dcache.wb = dcache.scan
          /\ dcache'.dirty = [dcache.dirty EXCEPT ![dcache.wb] = FALSE]
      BY <1>3, <1>15, <2>2, Zenon DEF Cleans
    <3>2. /\ dcache.dirty \in [Lines -> BOOLEAN] /\ dcache.wb \in Lines
          /\ dcache'.dirty \in [Lines -> BOOLEAN]
      BY <1>1, Zenon DEF CacheRecord
    <3>3. /\ ~dcache'.dirty[dcache.scan]
          /\ \A l \in Lines : ~dcache.dirty[l] => ~dcache'.dirty[l]
      BY <3>1, <3>2, Zenon
    <3>4. QED
      BY <1>11, <2>2, <3>1, <3>2, <3>3, ScanStepClean, Zenon
  <2>3. QED
    BY <2>1, <2>2, Zenon
<1>16. ASSUME FindsDirty PROVE Flushing
  <2>1. dcache.active
    BY <1>6, <1>16, Zenon DEF FindsDirty
  <2>2. Kept /\ dcache'.scan = dcache.scan /\ dcache'.wb = dcache.scan /\ ~dcache'.done
    BY <1>16, Zenon DEF FindsDirty
  <2>3. QED
    BY <1>3, <1>11, <2>1, <2>2, Zenon DEF Kept
<1>17. ASSUME FindsClean PROVE Flushing
  <2>1. dcache.active
    BY <1>6, <1>17, Zenon DEF FindsClean
  <2>2. ScansOn /\ Kept /\ ~dcache.dirty[dcache.scan]
    BY <1>17, Zenon DEF FindsClean
  <2>3. dcache'.dirty \in [Lines -> BOOLEAN]
    BY <1>1, Zenon DEF CacheRecord
  <2>4. /\ ~dcache'.dirty[dcache.scan]
        /\ \A l \in Lines : ~dcache.dirty[l] => ~dcache'.dirty[l]
    BY <2>2, Zenon DEF Kept
  <2>5. QED
    BY <1>11, <2>1, <2>2, <2>3, <2>4, ScanStepClean, Zenon
<1>18. Flushing
  <2>1. CASE WriteHits \/ ReadHits \/ Misses \/ Answers \/ Fills \/ Completes
    BY <1>12, <2>1, Zenon
       DEF WriteHits, ReadHits, Misses, Answers, Fills, Completes
  <2> HIDE DEF Flushing
  <2>2. QED
    BY <1>2, <1>13, <1>14, <1>15, <1>16, <1>17, <2>1, Zenon DEF Moves
<1>19. QED
  BY <1>7, <1>9, <1>18, Zenon DEF Fenced

\* MEM holds the access that missed until its last word is there.
LEMMA RefillHeld ==
    ASSUME Sound, Next, Refilling'
    PROVE  /\ (memRead_regem \/ memWrite_regem)'
           /\ dcache'.cur = dcache_req' /\ ~mem_stall_done_r'
<1>1. Moves
  BY CacheMoves, Zenon
<1>2. /\ mem_stall => reg3' = reg3
      /\ mem_stall_done_r' = (mem_stall /\ mem_access_ready)
      /\ build' = build
  BY MemMoves, Zenon
<1>3. /\ dcache_resp_ready <=>
           \/ dcache.state = "IDLE" /\ memWrite_regem /\ hit(reg3.addr)
           \/ dcache.state = "HIT_RD" /\ memRead_regem /\ reg3.addr = dcache.cur.addr
           \/ dcache.state = "FILL" /\ ram.done /\ LastWord
      /\ memWrite_regem => /\ ~fence_pending_r /\ ~mem_stall_done_r
                           /\ mem_stall <=> ~dcache_resp_ready
      /\ memRead_regem => ~fence_pending_r /\ (mem_stall <=> ~mem_stall_done_r)
      /\ mem_access_ready = IF fence_pending_r THEN dcache.done ELSE dcache_resp_ready
  BY Ready, Zenon
<1>4. Refilling => /\ memRead_regem \/ memWrite_regem
                   /\ dcache.cur = dcache_req /\ ~mem_stall_done_r
  BY Zenon DEF Sound, Through, Served
<1>5. mem_stall_done_r /\ memRead_regem => hit(reg3.addr)
  BY Zenon DEF Sound, Through, Served
<1>6. ASSUME memRead_regem \/ memWrite_regem, ~dcache_resp_ready,
             dcache'.cur = dcache_req, ~mem_stall_done_r
      PROVE  /\ (memRead_regem \/ memWrite_regem)'
             /\ dcache'.cur = dcache_req' /\ ~mem_stall_done_r'
  <2>1. mem_stall /\ ~fence_pending_r
    BY <1>3, <1>6, Zenon
  <2>2. reg3' = reg3 /\ ~mem_stall_done_r'
    BY <1>2, <1>3, <1>6, <2>1, Zenon
  <2>3. (memRead_regem \/ memWrite_regem)' /\ dcache_req' = dcache_req
    BY <1>2, <1>6, <2>2, Zenon DEF memRead_regem, memWrite_regem, dcache_req
  <2>4. QED
    BY <1>6, <2>2, <2>3, Zenon
<1>7. CASE Misses
  BY <1>3, <1>5, <1>6, <1>7, Zenon DEF Misses
<1>8. CASE Refilling
  <2>1. dcache'.cur = dcache.cur
    <3>1. CASE dcache.state = "FILL"
      BY <1>1, <3>1, Zenon
         DEF Moves, Waits, FlushBegins, WriteHits, ReadHits, Misses, Answers,
         WritesBack, Cleans, Fills, Completes, FindsDirty, FindsClean, Held,
         Refilling
    <3>2. CASE dcache.state = "WB" /\ ~dcache.active
      BY <1>1, <3>2, Zenon
         DEF Moves, Waits, FlushBegins, WriteHits, ReadHits, Misses, Answers,
         WritesBack, Cleans, Fills, Completes, FindsDirty, FindsClean, Held
    <3>3. QED
      BY <1>8, <3>1, <3>2, Zenon DEF Refilling
  <2>2. ~(dcache.state = "FILL" /\ ram.done /\ LastWord)
    BY <1>1, Zenon
       DEF Moves, Waits, FlushBegins, WriteHits, ReadHits, Misses, Answers,
       WritesBack, Cleans, Fills, Completes, FindsDirty, FindsClean, Refilling
  <2>3. ~dcache_resp_ready
    BY <1>3, <1>8, <2>2, Zenon DEF Refilling
  <2>4. QED
    BY <1>4, <1>6, <1>8, <2>1, <2>3, Zenon
<1>9. Misses \/ Refilling
  <2>1. dcache.state = "IDLE" => Misses
    BY <1>1, Zenon
       DEF Moves, Waits, FlushBegins, WriteHits, ReadHits, Misses, Answers,
       WritesBack, Cleans, Fills, Completes, FindsDirty, FindsClean, Refilling
  <2>2. dcache.state \notin {"HIT_RD", "SCAN"}
    BY <1>1, Zenon
       DEF Moves, Waits, FlushBegins, WriteHits, ReadHits, Misses, Answers,
       WritesBack, Cleans, Fills, Completes, FindsDirty, FindsClean, ScansOn,
       Refilling
  <2>3. dcache.state = "WB" => ~dcache.active
    BY <1>1, Zenon
       DEF Moves, Waits, FlushBegins, WriteHits, ReadHits, Misses, Answers,
       WritesBack, Cleans, Fills, Completes, FindsDirty, FindsClean, ScansOn,
       Refilling
  <2>4. dcache.state \in {"IDLE", "HIT_RD", "WB", "FILL", "SCAN"}
    <3>1. dcache \in CacheRecord
      BY TypesNamed, Zenon DEF Sound, TypeOK
    <3>2. QED
      BY <3>1, Zenon DEF CacheRecord
  <2>5. QED
    BY <2>1, <2>2, <2>3, <2>4, Zenon DEF Refilling
<1>10. QED
  BY <1>7, <1>8, <1>9, Zenon

\* A read that is being answered found its line, and the load it answers has
\* the width it was accepted with.
LEMMA ReadHeld ==
    ASSUME Sound, Next, dcache'.state = "HIT_RD"
    PROVE  /\ dcache'.line \in way_hit(dcache.cur.addr)'
           /\ memRead_regem' /\ reg3'.addr = dcache'.cur.addr
                => reg3'.f3 = dcache'.cur.f3
<1>1. ReadHits
  BY CacheMoves, Zenon
     DEF Moves, Waits, FlushBegins, WriteHits, Misses, Answers, WritesBack,
     Cleans, Fills, Completes, FindsDirty, FindsClean, ScansOn
<1>2. /\ memRead_regem /\ hit(reg3.addr) /\ Kept /\ dcache'.cur = dcache_req
      /\ dcache'.line = hit_line_idx(reg3.addr)
  BY <1>1, Zenon DEF ReadHits
<1>3. dcache'.cur.addr = reg3.addr /\ dcache'.cur.f3 = reg3.f3
  BY <1>2, CacheWires, Zenon
<1>4. dcache'.line \in way_hit(reg3.addr)
  BY <1>2, Zenon DEF hit, hit_line_idx
<1>5. way_hit(dcache.cur.addr)' = way_hit(reg3.addr)
  BY <1>2, <1>3, Zenon DEF way_hit, Kept, SetLines, set_idx, tag_of
<1>6. memRead_regem' /\ reg3'.addr = reg3.addr => reg3'.f3 = reg3.f3
  BY <1>2, MemMoves, Zenon
<1>7. QED
  BY <1>3, <1>4, <1>5, <1>6, Zenon

\* The word that a load is given is the program's, cut to the load's width.
LEMMA Delivered ==
    ASSUME Sound, memRead_regem, dcache_resp_ready
    PROVE  resp_rdata(dcache_req, ram.done, ram.data)
             = LoadFrom(flat, reg3.addr, reg3.f3)
<1> DEFINE a == reg3.addr
<1>1. dcache \in CacheRecord /\ build \in Builds /\ reg3 \in Instructions
  BY TypesNamed, Zenon DEF Sound, TypeOK
<1>2. reg3 \in Instruction /\ a \in build.LoadAddrs
  BY <1>1, InstructionTypes, Zenon DEF memRead_regem
<1>3. a \in Address /\ a \in Nat
  BY <1>2, AddressRange, Zenon DEF Instruction
<1>4. word_off(a) \in Offsets /\ WordOf(a) = WordAt(LineOf(a), word_off(a))
  BY <1>3, AddressParts, Zenon
<1>5. /\ dcache_req.read /\ ~dcache_req.write /\ dcache_req.addr = a
      /\ dcache_req.f3 = reg3.f3
  BY CacheWires, Zenon
<1>6. \/ dcache.state = "HIT_RD" /\ a = dcache.cur.addr
      \/ dcache.state = "FILL" /\ ram.done /\ LastWord
  BY CacheWires, Ready, Zenon
<1>7. CASE dcache.state = "HIT_RD" /\ a = dcache.cur.addr
  <2>1. dcache.line \in way_hit(a) /\ reg3.f3 = dcache.cur.f3
    BY <1>7, Zenon DEF Sound, Through, Served
  <2>2. dcache.line \in Lines /\ dcache.valid[dcache.line] /\ Home(dcache.line) = LineOf(a)
    BY <1>3, <2>1, HitLines
  <2>3. dcache.data[dcache.line][word_off(a)] = flat[WordOf(a)]
    BY <1>4, <1>7, <2>2, Zenon DEF Sound, Through, InLine
  <2>4. hit_rd_ready(dcache_req)
    BY <1>5, <1>7, Zenon DEF hit_rd_ready
  <2>5. QED
    BY <1>7, <2>1, <2>3, <2>4, Zenon DEF resp_rdata, LoadFrom
<1>8. CASE dcache.state = "FILL" /\ ram.done /\ LastWord
  <2>1. dcache.cur = dcache_req
    BY <1>8, Zenon DEF Sound, Through, Served, Refilling
  <2>2. dcache.word = word_off(a)
    BY <1>2, <1>8, Zenon DEF Sound, Supported, LastWord
  <2>3. fill_value(ram.data) = Wanted(dcache.word)
    BY <1>8, FilledWord, Zenon
  <2>4. Wanted(dcache.word) = flat[WordOf(a)]
    BY <1>4, <1>5, <2>1, <2>2, Zenon DEF Wanted
  <2>5. ~hit_rd_ready(dcache_req) /\ fill_ready(dcache_req, ram.done)
    BY <1>5, <1>8, <2>1, Zenon
       DEF hit_rd_ready, fill_ready, fill_is_last_word, LastWord
  <2>6. QED
    BY <1>5, <2>1, <2>3, <2>4, <2>5, Zenon DEF resp_rdata, LoadFrom
<1>9. QED
  BY <1>6, <1>7, <1>8, Zenon

\* An answered load has its word, and its line stays where it is.
LEMMA AnswerHeld ==
    ASSUME Sound, Next, mem_stall_done_r'
    PROVE  /\ dcache'.state = "IDLE"
           /\ ~memWrite_regem'
           /\ memRead_regem' =>
                /\ hit(reg3.addr)'
                /\ dcache_rdata_captured_r' = LoadFrom(flat', reg3'.addr, reg3'.f3)
<1>1. Moves
  BY CacheMoves, Zenon
<1>2. /\ mem_stall /\ mem_access_ready /\ reg3' = reg3
      /\ flat' = IF memWrite_regem /\ dcache_resp_ready
                 THEN StoreTo(flat, reg3.addr, reg3.f3, reg3.data) ELSE flat
      /\ dcache_resp_ready =>
           dcache_rdata_captured_r' = resp_rdata(dcache_req, ram.done, ram.data)
  BY MemMoves, Zenon
<1>3. /\ dcache_resp_ready <=>
           \/ dcache.state = "IDLE" /\ memWrite_regem /\ hit(reg3.addr)
           \/ dcache.state = "HIT_RD" /\ memRead_regem /\ reg3.addr = dcache.cur.addr
           \/ dcache.state = "FILL" /\ ram.done /\ LastWord
      /\ memWrite_regem => ~fence_pending_r /\ (mem_stall <=> ~dcache_resp_ready)
      /\ memRead_regem => ~fence_pending_r
      /\ mem_stall => memRead_regem \/ memWrite_regem \/ fence_pending_r
      /\ mem_access_ready = IF fence_pending_r THEN dcache.done ELSE dcache_resp_ready
  BY Ready, Zenon
<1>4. ~memWrite_regem
  BY <1>2, <1>3, Zenon
<1>5. ~memWrite_regem' /\ flat' = flat /\ memRead_regem' = memRead_regem
  BY <1>2, <1>4, Zenon DEF memWrite_regem, memRead_regem
<1>6. CASE fence_pending_r
  <2>1. dcache.done
    BY <1>2, <1>3, <1>6, Zenon
  <2>2. dcache.state = "IDLE" /\ fence_flush_started_r
    BY <2>1, Zenon DEF Sound, Through, Fenced
  <2>3. ~flush_all /\ ~memRead_regem
    BY <1>3, <1>6, <2>2, Zenon DEF flush_all
  <2>4. Waits
    BY <1>1, <1>4, <2>2, <2>3, Zenon
       DEF Moves, FlushBegins, WriteHits, ReadHits, Misses,
       Answers, WritesBack, Cleans, Fills, Completes, FindsDirty, FindsClean
  <2>5. QED
    BY <1>5, <2>2, <2>3, <2>4, Zenon DEF Waits
<1>7. CASE ~fence_pending_r
  <2>1. memRead_regem /\ dcache_resp_ready
    BY <1>2, <1>3, <1>4, <1>7, Zenon
  <2>2. dcache_rdata_captured_r' = LoadFrom(flat', reg3'.addr, reg3'.f3)
    BY <1>2, <1>5, <2>1, Delivered, Zenon
  <2>3. CASE dcache.state = "HIT_RD"
    <3>1. reg3.addr = dcache.cur.addr /\ dcache.line \in way_hit(reg3.addr)
      BY <1>3, <2>1, <2>3, Zenon DEF Sound, Through, Served
    <3>2. Answers
      BY <1>1, <2>3, Zenon
         DEF Moves, Waits, FlushBegins, WriteHits, ReadHits, Misses,
         WritesBack, Cleans, Fills, Completes, FindsDirty, FindsClean
    <3>3. Kept /\ dcache'.state = "IDLE"
      BY <3>2, Zenon DEF Answers
    <3>4. way_hit(reg3.addr)' = way_hit(reg3.addr)
      BY <1>2, <3>3, Zenon DEF way_hit, Kept, SetLines, set_idx, tag_of
    <3>5. QED
      BY <1>5, <2>2, <3>1, <3>3, <3>4, Zenon DEF hit
  <2>4. CASE dcache.state = "FILL" /\ ram.done /\ LastWord
    <3>1. Completes
      BY <1>1, <2>4, Zenon
         DEF Moves, Waits, FlushBegins, WriteHits, ReadHits, Misses, Answers,
         WritesBack, Cleans, Fills, FindsDirty, FindsClean
    <3>2. /\ dcache'.valid = [dcache.valid EXCEPT ![dcache.line] = TRUE]
          /\ dcache'.tag = [dcache.tag EXCEPT ![dcache.line] = tag_of(dcache.cur.addr)]
          /\ dcache'.state = "IDLE"
      BY <3>1, Zenon DEF Completes
    <3>3. dcache.cur.addr = reg3.addr
      BY <2>1, <2>4, CacheWires, Zenon DEF Sound, Through, Served, Refilling
    <3>4. dcache.line \in SetLines(set_idx(reg3.addr))
      BY <2>4, <3>3, Zenon DEF Sound, IInv, MissOpen, Refilling
    <3>5. /\ dcache.line \in Lines /\ dcache.valid \in [Lines -> BOOLEAN]
          /\ dcache.tag \in [Lines -> Tags]
      <4>1. dcache \in CacheRecord
        BY TypesNamed, Zenon DEF Sound, TypeOK
      <4>2. QED
        BY <4>1, Zenon DEF CacheRecord
    <3>6. dcache'.valid[dcache.line] /\ dcache'.tag[dcache.line] = tag_of(reg3.addr)
      BY <3>2, <3>3, <3>5, Zenon
    <3>7. dcache.line \in way_hit(reg3.addr)'
      BY <1>2, <3>4, <3>6, Zenon DEF way_hit, SetLines, set_idx, tag_of
    <3>8. QED
      BY <1>5, <2>2, <3>2, <3>7, Zenon DEF hit
  <2>5. QED
    BY <1>3, <1>4, <2>1, <2>3, <2>4, Zenon
<1>8. QED
  BY <1>6, <1>7, Zenon

\* A cycle keeps the cache's view of the program and the program's of the cache.
LEMMA ThroughStep ==
    ASSUME Sound, Next
    PROVE  Through'
<1>1. Data' /\ Answered' /\ Fenced'
  BY DataStep, AnsweredStep, FencedStep, Zenon
<1>2. Served'
  BY RefillHeld, ReadHeld, AnswerHeld, Zenon DEF Served
<1>3. QED
  BY <1>1, <1>2, Zenon DEF Through, Data

----------------------------------------------------------------------------
(* The invariant, and what it gives.                                       *)

\* Every cache starts empty, and the memory holds the program's words.
LEMMA CStart ==
    ASSUME Init
    PROVE  CInv
<1>1. TypeOK /\ IInv
  BY TypeStart, Start, Zenon
<1>2. /\ dcache.state = "IDLE" /\ ~dcache.active /\ ~dcache.done
      /\ \A l \in Lines : ~dcache.valid[l] /\ ~dcache.dirty[l]
  BY Zenon DEF Init, DCacheInit
<1>3. ram.mem = flat /\ ~ram.active /\ ~ram.busy /\ ~ram.done
  BY Zenon DEF Init, RamInit
<1>4. /\ ~fence_pending_r /\ ~mem_stall_done_r /\ reg3.op = "nop"
  BY Zenon DEF Init, Bubble
<1>5. Direct
  BY <1>2, <1>3, <1>4, Zenon DEF Direct
<1>6. Fenced /\ Served /\ Answered
  BY <1>2, <1>3, <1>4, Zenon DEF Fenced, Served, Refilling, Answered
<1>7. DirtyLines /\ InMemory /\ InLine /\ WrittenBack /\ Refilled
  BY <1>2, <1>3, Zenon DEF DirtyLines, InMemory, InLine, WrittenBack, Refilled
<1>8. QED
  BY <1>1, <1>5, <1>6, <1>7, Zenon DEF CInv, Through

\* CInv holds in every state of every build: of the supported ones it says
\* where each store of the program is (in memory, in a line of DCache.v, or
\* both) at every step of a writeback, a refill and a flush.
THEOREM CoherenceInvariant == Spec => []CInv
<1>1. CInv /\ [Next]_vars => CInv'
  <2> SUFFICES ASSUME CInv, [Next]_vars PROVE CInv'
    BY Zenon
  <2>1. CASE Next
    <3>1. TypeOK' /\ IInv'
      BY <2>1, TypeStep, CacheStep, RequestStep, Zenon DEF CInv, IInv
    <3>2. build' = build
      BY <2>1, Zenon DEF Next
    <3>3. ASSUME Supported' PROVE IF build.Cached THEN Through' ELSE Direct'
      <4>1. Supported
        BY <3>2, <3>3, Zenon DEF Supported, word_off, WordOf
      <4>2. CASE build.Cached
        BY <2>1, <4>1, <4>2, ThroughStep, Zenon DEF CInv, Sound
      <4>3. CASE ~build.Cached
        BY <2>1, <4>1, <4>3, DirectStep, Zenon DEF CInv
      <4>4. QED
        BY <4>2, <4>3, Zenon
    <3>4. QED
      BY <3>1, <3>2, <3>3, Zenon DEF CInv
  <2>2. CASE UNCHANGED vars
    <3>1. TypeOK' /\ IInv'
      <4>1. TypeOK'
        BY <2>2
           DEF CInv, vars, TypeOK, RamTypeOK, DCacheTypeOK, Instructions,
               Loads,
           Stores
      <4>2. IInv'
        BY <2>2, Zenon
           DEF CInv, vars, IInv, Requests, Shape, TagsUnique, MissOpen,
               FlushApart,
           Refilling, way_hit
      <4>3. QED
        BY <4>1, <4>2, Zenon
    <3>2. (Direct' <=> Direct) /\ (Supported' <=> Supported)
      BY <2>2, Zenon DEF vars, Direct, Supported, memRead_regem
    <3>3. Fenced' <=> Fenced
      BY <2>2, Zenon DEF vars, Fenced, Clean
    <3>4. Served' <=> Served
      <4>1. /\ Refilling' = Refilling /\ memRead_regem' = memRead_regem
            /\ memWrite_regem' = memWrite_regem /\ dcache_req' = dcache_req
        BY <2>2, Zenon
           DEF vars, Refilling, memRead_regem, memWrite_regem, dcache_req
      <4>2. way_hit(dcache.cur.addr)' = way_hit(dcache.cur.addr)
            /\ hit(reg3.addr)' = hit(reg3.addr)
        BY <2>2, Zenon DEF vars, way_hit, hit
      <4>3. QED
        BY <2>2, <4>1, <4>2, Zenon DEF vars, Served
    <3>5. Answered' <=> Answered
      BY <2>2, Zenon DEF vars, Answered, dcache_bus, LineBase
    <3>6. (DirtyLines' <=> DirtyLines) /\ (InMemory' <=> InMemory)
          /\ (InLine' <=> InLine)
      BY <2>2, Zenon DEF vars, DirtyLines, InMemory, InLine, Home, WordAt
    <3>7. (WrittenBack' <=> WrittenBack) /\ (Refilled' <=> Refilled)
      BY <2>2, Zenon DEF vars, WrittenBack, Refilled, Home, WordAt, LineOf
    <3>8. build' = build
      BY <2>2, Zenon DEF vars
    <3>9. QED
      BY <3>1, <3>2, <3>3, <3>4, <3>5, <3>6, <3>7, <3>8, Zenon
         DEF CInv, Through
  <2>3. QED
    BY <2>1, <2>2, Zenon
<1>2. QED
  BY <1>1, CStart, PTL DEF Spec

\* With the cache, the promises follow from where the stores are.
LEMMA ThroughGives ==
    ASSUME Sound
    PROVE  LoadsRight /\ Coherent /\ FenceFlushes
<1>1. build.Cached
  BY Zenon DEF Sound
<1>2. LoadsRight
  <2> SUFFICES ASSUME memRead_regem, ~mem_stall
               PROVE  load_data = LoadFrom(flat, reg3.addr, reg3.f3)
    BY Zenon DEF LoadsRight
  <2>1. mem_stall_done_r
    BY Ready, Zenon
  <2>2. QED
    BY <1>1, <2>1, Zenon DEF load_data, Sound, Through, Served
<1>3. \A w \in Words : Clean => ram.mem[w] = flat[w]
  BY Zenon DEF Clean, Sound, Through, InMemory
<1>4. Coherent
  <2> SUFFICES ASSUME NEW w \in Words,
                      ~(dcache.state = "FILL" /\ dcache.line \in way_hit(2 * w))
               PROVE  Copy(w) = flat[w]
    BY Zenon DEF Coherent, Words
  <2> DEFINE n == w \div LINE_WORDS
             k == w % LINE_WORDS
  <2>1. w \in Nat /\ n \in Nat /\ k \in Offsets /\ w = WordAt(n, k)
    BY WordRange DEF Words
  <2>2. 2 * w \in Nat /\ LineOf(2 * w) = n /\ word_off(2 * w) = k
    BY <2>1, WordAddress, Zenon
  <2>3. way_hit(2 * w) = {l \in Lines : dcache.valid[l] /\ Home(l) = n}
    BY <2>2, HitLines
  <2> HIDE DEF n, k
  <2>4. CASE way_hit(2 * w) = {}
    <3>1. \A l \in Lines : dcache.dirty[l] => Home(l) # n
      BY <2>3, <2>4, Zenon DEF Sound, Through, DirtyLines
    <3>2. ram.mem[w] = flat[w]
      BY <3>1, Zenon DEF Sound, Through, InMemory, n
    <3>3. QED
      BY <2>4, <3>2, Zenon DEF Copy
  <2>5. CASE way_hit(2 * w) # {}
    <3> DEFINE h == hit_line_idx(2 * w)
    <3>1. h \in way_hit(2 * w)
      BY <2>5, Zenon DEF hit_line_idx
    <3>2. h \in Lines /\ dcache.valid[h] /\ Home(h) = n
      BY <2>3, <3>1, Zenon
    <3>3. ~(dcache.state = "FILL" /\ dcache.line = h)
      BY <3>1, Zenon
    <3>4. dcache.data[h][k] = flat[w]
      BY <2>1, <3>2, <3>3, Zenon DEF Sound, Through, InLine
    <3>5. QED
      BY <2>2, <2>5, <3>4, Zenon DEF Copy
  <2>6. QED
    BY <2>4, <2>5, Zenon
<1>5. FenceFlushes
  <2>1. dcache.active => fence_pending_r
    BY Zenon DEF Sound, Through, Fenced
  <2>2. ASSUME reg3.op = "fence", ~mem_stall
        PROVE  ram.mem = flat /\ \A l \in Lines : ~dcache.dirty[l]
    <3>1. Clean
      BY <2>2, Ready, Zenon DEF Sound, Through, Fenced
    <3>2. ram \in RamRecord /\ flat \in [Words -> Word]
      BY TypesNamed, Zenon DEF Sound, TypeOK, Words
    <3>3. ram.mem \in [Words -> Word]
      BY <3>2, Zenon DEF RamRecord
    <3>4. ram.mem = flat
      BY <1>3, <3>1, <3>2, <3>3
    <3>5. QED
      BY <3>1, <3>4, Zenon DEF Clean
  <2>3. QED
    BY <2>1, <2>2, Zenon DEF FenceFlushes
<1>6. QED
  BY <1>2, <1>4, <1>5, Zenon

\* The invariant gives all three.
LEMMA CGives ==
    ASSUME CInv, Supported
    PROVE  LoadsRight /\ Coherent /\ FenceFlushes
BY DirectGives, ThroughGives, Zenon DEF CInv, Sound

\* A load of a supported build leaves MEM with the bytes that program order
\* stored, through any hits, misses, evictions and fences of DCache.v and
\* any delay of the memory.
THEOREM LoadsAreRight == Spec => [](Supported => LoadsRight)
<1>1. CInv => (Supported => LoadsRight)
  BY CGives, Zenon
<1>2. QED
  BY <1>1, CoherenceInvariant, PTL

\* In a supported build no store is lost and no line is torn: the copy a load
\* would find is what the program stored, except in the line being refilled.
THEOREM StaysCoherent == Spec => [](Supported => Coherent)
<1>1. CInv => (Supported => Coherent)
  BY CGives, Zenon
<1>2. QED
  BY <1>1, CoherenceInvariant, PTL

\* In a supported build a fence leaves MEM with memory up to date and every
\* line clean, and only a waiting fence runs the flush of DCache.v.
THEOREM FencesFlush == Spec => [](Supported => FenceFlushes)
<1>1. CInv => (Supported => FenceFlushes)
  BY CGives, Zenon
<1>2. QED
  BY <1>1, CoherenceInvariant, PTL

----------------------------------------------------------------------------
(* One line for an address, which is about the size of a set.              *)

INSTANCE FiniteSetTheorems

\* Distinct tags mean at most one hit.
LEMMA AtMostOneHit ==
    ASSUME IInv
    PROVE  OneWay
<1> SUFFICES ASSUME NEW w \in 0 .. WORDS - 1
             PROVE  Cardinality(way_hit(2 * w)) <= 1
  BY Zenon DEF OneWay
<1>1. 2 * w \in Nat
  BY WordsAssumption
<1>2. set_idx(2 * w) \in Sets
  BY <1>1, AddressSet, Zenon
<1>3. \A k, l \in way_hit(2 * w) : k = l
  BY <1>2, Zenon DEF IInv, TagsUnique, way_hit
<1>4. CASE way_hit(2 * w) = {}
  BY <1>4, FS_EmptySet
<1>5. CASE way_hit(2 * w) # {}
  <2>1. PICK l : way_hit(2 * w) = {l}
    BY <1>3, <1>5, Zenon
  <2>2. QED
    BY <2>1, FS_Singleton
<1>6. QED
  BY <1>4, <1>5, Zenon

\* No address is ever cached in two ways, whatever the number of ways, sets
\* and words of a line, the memory's latency and the program: the OR over the
\* ways in DCache.v (hit_data_acc, hit_lineidx_acc) never mixes two lines.
THEOREM SingleHit == Spec => []OneWay
BY Invariant, AtMostOneHit, PTL

===============================================================================
