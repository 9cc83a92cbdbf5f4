--------------------------------- MODULE Mmu ---------------------------------
(***************************************************************************)
(* Sv32 and Sv39 translation: the shared TLB (design/Tlb.v, Tlb39.v) and   *)
(* the hardware page-table walker (Ptw.v, Ptw39.v).  build.Levels is 2 for *)
(* the first pair and 3 for the second, which are the same circuit with    *)
(* one more level.  A virtual page number has one bit per level, a page    *)
(* table two entries, and the TLB two entries.                             *)
(***************************************************************************)
EXTENDS Integers, FiniteSetsExt

CONSTANTS Builds,      \* the builds checked: records with a field Levels
          FRAMES,      \* bound: the number of physical page frames
          PageTables   \* contents of memory: name, frame, index |-> PTE

VARIABLES build,
          table,       \* the contents now: a name in DOMAIN PageTables
          tlb, ptw

Levels == 0 .. build.Levels - 1
Page == 0 .. (2 ^ build.Levels) - 1
Frame == 0 .. FRAMES - 1
Perms == SUBSET {"r", "w", "x", "u"}
Pte == [v : BOOLEAN, perm : Perms, ppn : Frame]
NoPte == [v |-> FALSE, perm |-> {}, ppn |-> 0]

Root == 0   \* satp's frame
Vpn(page, level) == (page \div (2 ^ level)) % 2
Leaf(pte) == pte.perm \cap {"r", "w", "x"} # {}
Permits(perm, access, is_u) == access \in perm /\ (is_u <=> "u" \in perm)
\* The frame a leaf gives: the page's own low bits below a superpage.
PpnOf(pte, level, page) ==
  pte.ppn - (pte.ppn % (2 ^ level)) + (page % (2 ^ level))

(***************************************************************************)
(* What the tables say, in one step: the entry reached at each level, the  *)
(* highest level at which the walk must stop, and the verdict on it.       *)
(***************************************************************************)
Reached(page) ==
  LET entry[up \in Levels] ==
        PageTables[table][IF up = 0 THEN Root ELSE entry[up - 1].ppn]
                         [Vpn(page, build.Levels - 1 - up)]
  IN  [level \in Levels |-> entry[build.Levels - 1 - level]]
StopLevel(page) ==
  Max({0} \cup {l \in Levels : ~Reached(page)[l].v \/ Leaf(Reached(page)[l])})
Mapped(page) ==
  LET level == StopLevel(page)
      pte == Reached(page)[level]
  IN  pte.v /\ Leaf(pte) /\ pte.ppn % (2 ^ level) = 0
MappedPpn(page) ==
  PpnOf(Reached(page)[StopLevel(page)], StopLevel(page), page)
MappedPerm(page) == Reached(page)[StopLevel(page)].perm

\* What the instruction-set simulator makes of an access to a page.
Iss == INSTANCE IssTranslate
IssPage(page, access, priv_mode) ==
  Iss!translate(PageTables[table], IF build.Levels = 2 THEN "sv32" ELSE "sv39",
                Root, page, access, priv_mode, 1)

(***************************************************************************)
(* The TLB: direct-mapped on the low bit of the page number.               *)
(***************************************************************************)
TlbIndex(page) == page % 2
TlbHit(page) ==
  tlb[TlbIndex(page)].valid /\ tlb[TlbIndex(page)].tag = page
TlbEntry(page) == tlb[TlbIndex(page)]

Filled(page) ==
  [tlb EXCEPT ![TlbIndex(page)] =
     [valid |-> TRUE, tag |-> page, ppn |-> ptw.ppn, perm |-> ptw.perm]]
Flushed == [i \in {0, 1} |-> [tlb[i] EXCEPT !.valid = FALSE]]

TlbEdge(flush_all, fill_valid, fill_page) ==
  tlb' = IF flush_all THEN Flushed
         ELSE IF fill_valid THEN Filled(fill_page) ELSE tlb

(***************************************************************************)
(* The walker.  state is S_IDLE, S_Ll_WAIT or S_Ll_DECODE for level l.     *)
(***************************************************************************)
ptw_busy == ptw.state # "IDLE"
ptw_m_cyc == ptw.state = "WAIT"
\* The PTE at m_addr.
ptw_m_pte ==
  PageTables[table][IF ptw.level = build.Levels - 1 THEN Root ELSE ptw.pte.ppn]
                   [Vpn(ptw.page, ptw.level)]

Start(page, access, is_u) ==
  [ptw EXCEPT !.state = "WAIT", !.level = build.Levels - 1, !.page = page,
              !.access = access, !.is_u = is_u, !.done = FALSE]
Conclude(fault) ==
  [ptw EXCEPT !.state = "IDLE", !.done = TRUE, !.fault = fault,
              !.ppn = IF fault THEN @ ELSE PpnOf(ptw.pte, ptw.level, ptw.page),
              !.perm = IF fault THEN @ ELSE ptw.pte.perm]

\* A superpage would be accepted wherever it is.
Decode_Misaligned ==
  IF ~ptw.pte.v THEN Conclude(TRUE)
  ELSE IF Leaf(ptw.pte)
  THEN Conclude(~Permits(ptw.pte.perm, ptw.access, ptw.is_u))
  ELSE IF ptw.level = 0 THEN Conclude(TRUE)
  ELSE [ptw EXCEPT !.state = "WAIT", !.level = @ - 1]

Decode ==
  IF ~ptw.pte.v THEN Conclude(TRUE)
  ELSE IF Leaf(ptw.pte)
  THEN Conclude(\/ ptw.pte.ppn % (2 ^ ptw.level) # 0
                \/ ~Permits(ptw.pte.perm, ptw.access, ptw.is_u))
  ELSE IF ptw.level = 0 THEN Conclude(TRUE)
  ELSE [ptw EXCEPT !.state = "WAIT", !.level = @ - 1]

PtwEdge(start, page, access, is_u, ack, pte) ==
  ptw' = CASE ptw.state = "IDLE" ->
                IF start /\ ~ptw.done THEN Start(page, access, is_u)
                ELSE [ptw EXCEPT !.done = FALSE]
           [] ptw.state = "WAIT" ->
                IF ack THEN [ptw EXCEPT !.state = "DECODE", !.pte = pte]
                ELSE ptw
           [] ptw.state = "DECODE" -> Decode

MmuInit ==
  /\ tlb = [i \in {0, 1} |->
              [valid |-> FALSE, tag |-> 0, ppn |-> 0, perm |-> {}]]
  /\ ptw = [state |-> "IDLE", level |-> 0, page |-> 0, access |-> "r",
            is_u |-> FALSE, pte |-> NoPte, done |-> FALSE, fault |-> FALSE,
            ppn |-> 0, perm |-> {}]

MmuTypeOK ==
  /\ tlb \in [{0, 1} -> [valid : BOOLEAN, tag : Page, ppn : Frame,
                         perm : Perms]]
  /\ ptw \in [state : {"IDLE", "WAIT", "DECODE"}, level : Levels,
              page : Page, access : {"r", "w", "x"}, is_u : BOOLEAN,
              pte : Pte, done : BOOLEAN, fault : BOOLEAN, ppn : Frame,
              perm : Perms]

=============================================================================
