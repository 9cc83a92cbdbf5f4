-------------------------- MODULE TranslationProofs --------------------------
(***************************************************************************)
(* Proofs about module Translation, for any page tables, any pages the     *)
(* program uses and both depths of the walk.                               *)
(*                                                                         *)
(* Two things are excluded, and nothing else.  Builds without Overlap: the *)
(* walks that start behind an access, or with the flush of a fence, are    *)
(* known exceptions to BusExclusive.  And Misfiled: a walk whose requester *)
(* was redirected ends as if it had been asked for by someone else.        *)
(***************************************************************************)
EXTENDS Translation, TLAPS

\* An abandoned walk ends, and its fault keeps another page's fetch from
\* missing, or its translation is filed under another page.
Misfiled ==
  /\ ptw_abandoned_r /\ ptw.done
  /\ IF ptw.fault THEN translate_enable /\ ~branch_taken ELSE ptw.page # pc

(***************************************************************************)
(* The inductive invariant.                                                *)
(***************************************************************************)
Typed ==
  /\ TypeOK /\ build \in Builds /\ table \in build.Tables
  /\ "remap" \in {reg1.op, reg2.op, reg3} => "remap" \in build.Ops

\* A fence's flush belongs to the fence in MEM, a fill to the access in MEM.
\* A fence has no access behind it.
FenceOrder ==
  /\ fence_pending_r => build.Cached /\ reg3 = "fence" /\ ~mem_stall_done_r
  /\ dcache = "fill" => build.Cached /\ lsu_cyc /\ ~mem_stall_done_r
  /\ reg2.op = "fence" => reg1.op \notin Accesses
  /\ reg3 = "fence" => reg2.op \notin Accesses

\* dtlb_vaddr_r keeps the page of an access whose operand has drifted, and
\* MEM is empty by then.
OperandKept ==
  /\ dtlb_miss_r => reg2.op \in Accesses /\ dtlb_vaddr_r = reg2.page
  /\ reg2.op \in Accesses /\ reg2.alu # reg2.page => dtlb_miss_r /\ reg3 = "nop"

\* The requester of a walk waits where it was until the walk has ended, or
\* it was a fetch behind one that faulted, and the walk is abandoned.
Walking == ptw_busy \/ ptw.done
Awaited ==
  /\ translate_enable /\ ptw.is_u = priv_is_u
  /\ IF ptw_servicing_d_r
     THEN /\ reg2.op \in Accesses /\ reg3 = "nop" /\ dtlb_miss_r
          /\ ptw.page = reg2.page /\ ptw.access = access_regde
     ELSE /\ reg2.op \in {"nop", "fence", "sfence", "ifault"}
          /\ ~sfence_priv_violation
          /\ ptw.page = pc /\ ptw.access = "x"
Requester ==
  /\ ptw.done => ~ptw_busy
  /\ ptw_abandoned_r => Walking /\ ~ptw_servicing_d_r
  /\ Walking => ~TlbHit(ptw.page) /\ (ptw_abandoned_r \/ Awaited)

\* The bus has one owner, except that the handler of a fetch fault does not
\* know of the walk it left behind.
BusOwned ==
  /\ ptw_busy => dcache \notin {"fill", "flush"}
  /\ ptw_busy /\ ~build.Cached => ptw_abandoned_r \/ ~lsu_cyc
  /\ ~Overlaps

\* The walk is on the path that the tables prescribe, and ends with their
\* verdict.
Above(page, level) ==
  \A m \in Levels : m > level => Reached(page)[m].v /\ ~Leaf(Reached(page)[m])
Grants(page, access, is_u) ==
  Mapped(page) /\ Permits(MappedPerm(page), access, is_u)
OnPath ==
  /\ ptw_busy => Above(ptw.page, ptw.level)
  /\ ptw.state = "WAIT" =>
       /\ ptw.level # build.Levels - 1 => ptw.pte = Reached(ptw.page)[ptw.level + 1]
       /\ bus.pending => bus.data = ptw_m_pte
  /\ ptw.state = "DECODE" => ptw.pte = Reached(ptw.page)[ptw.level]
  /\ ptw.done =>
       /\ ptw.fault <=> ~Grants(ptw.page, ptw.access, ptw.is_u)
       /\ ~ptw.fault => /\ ptw.ppn = MappedPpn(ptw.page)
                        /\ ptw.perm = MappedPerm(ptw.page)

Orderly ==
  FenceOrder /\ OperandKept /\ Requester /\ BusOwned /\ OnPath /\ TlbFaithful
IInv == Typed /\ (build.Overlap \/ Orderly)

(***************************************************************************)
(* What the tables say.                                                    *)
(***************************************************************************)
\* The sizes: superpages of 1, 2 and 4 pages.
LEMMA Sizes == 2 ^ 0 = 1 /\ 2 ^ 1 = 2 /\ 2 ^ 2 = 4 /\ 2 ^ 3 = 8
OBVIOUS

(* There are two or three levels, and a page has one bit per level. *)
LEMMA Shape ==
    ASSUME build \in Builds
    PROVE  /\ build.Levels \in {2, 3}
           /\ build.Levels = 2 => Levels = {0, 1} /\ Page = 0 .. 3
           /\ build.Levels = 3 => Levels = {0, 1, 2} /\ Page = 0 .. 7
<1>1. build.Levels \in {2, 3}
  BY BuildsAssumption, Zenon DEF Build
<1>2. CASE build.Levels = 2
  BY <1>2, Sizes DEF Levels, Page
<1>3. CASE build.Levels = 3
  BY <1>3, Sizes DEF Levels, Page
<1>4. QED
  BY <1>1, <1>2, <1>3, Zenon

\* Every index of a table is one bit of the page number.
LEMMA VpnBit ==
    ASSUME NEW page \in Nat, NEW level \in {0, 1, 2}
    PROVE  Vpn(page, level) \in {0, 1}
BY Sizes DEF Vpn

\* Reached unfolds into the entries a walk reads, from the root down.
Top(page) == PageTables[table][Root][Vpn(page, build.Levels - 1)]
Below(pte, page, level) == PageTables[table][pte.ppn][Vpn(page, level)]

(* Reading the root, or the table an entry points to, gives an entry. *)
LEMMA Entries ==
    ASSUME build \in Builds, table \in build.Tables,
           NEW pte \in Pte, NEW page \in Page, NEW level \in Levels
    PROVE  Top(page) \in Pte /\ Below(pte, page, level) \in Pte
<1>1. PageTables[table] \in [Frame -> [{0, 1} -> Pte]]
  BY BuildsAssumption, TablesAssumption, Zenon DEF Build
<1>2. Root \in Frame /\ pte.ppn \in Frame
  BY FramesAssumption DEF Root, Frame, Pte
<1>3. page \in Nat /\ level \in {0, 1, 2} /\ build.Levels - 1 \in {0, 1, 2}
  BY Shape
<1>4. Vpn(page, level) \in {0, 1} /\ Vpn(page, build.Levels - 1) \in {0, 1}
  BY <1>3, VpnBit, Zenon
<1>5. QED
  BY <1>1, <1>2, <1>4, Zenon DEF Top, Below

(* The recursive function Reached is the chain from the root: an entry per
   level, each read in the table the one above points to. *)
LEMMA ReachedUnfolds ==
    ASSUME build \in Builds, NEW page \in Page
    PROVE  /\ Reached(page) = [level \in Levels |-> Reached(page)[level]]
           /\ Reached(page)[build.Levels - 1] = Top(page)
           /\ \A level \in Levels : level # build.Levels - 1 =>
                 Reached(page)[level] = Below(Reached(page)[level + 1], page, level)
<1> DEFINE Step(f) == [up \in Levels |->
               PageTables[table][IF up = 0 THEN Root ELSE f[up - 1].ppn]
                                [Vpn(page, build.Levels - 1 - up)]]
           e == CHOOSE f : f = Step(f)
<1>1. \E f : f = Step(f)
  <2> DEFINE e0 == Top(page)
             e1 == Below(e0, page, build.Levels - 2)
             e2 == Below(e1, page, build.Levels - 3)
             f == [up \in Levels |-> IF up = 0 THEN e0 ELSE IF up = 1 THEN e1 ELSE e2]
  <2>1. \A up \in Levels : f[up] = Step(f)[up]
    <3> SUFFICES ASSUME NEW up \in Levels PROVE f[up] = Step(f)[up]
      BY Zenon
    <3>1. up \in {0, 1, 2} /\ build.Levels \in {2, 3} /\ 0 \in Levels /\ 1 \in Levels
      BY Shape, Zenon
    <3>2. CASE up = 0
      <4>1. f[up] = e0 /\ build.Levels - 1 - up = build.Levels - 1
        BY <3>1, <3>2
      <4>2. Step(f)[up] = PageTables[table][Root][Vpn(page, build.Levels - 1 - up)]
        BY <3>2, Zenon
      <4>3. QED
        BY <4>1, <4>2, Zenon DEF Top
    <3>3. CASE up = 1
      <4>1. f[up - 1] = e0 /\ build.Levels - 1 - up = build.Levels - 2 /\ f[up] = e1
        BY <3>1, <3>3
      <4>2. Step(f)[up] = PageTables[table][f[up - 1].ppn][Vpn(page, build.Levels - 1 - up)]
        BY <3>3
      <4>3. QED
        BY <4>1, <4>2, Zenon DEF Below
    <3>4. CASE up = 2
      <4>1. f[up - 1] = e1 /\ build.Levels - 1 - up = build.Levels - 3 /\ f[up] = e2
        BY <3>1, <3>4
      <4>2. Step(f)[up] = PageTables[table][f[up - 1].ppn][Vpn(page, build.Levels - 1 - up)]
        BY <3>4
      <4>3. QED
        BY <4>1, <4>2, Zenon DEF Below
    <3>5. QED
      BY <3>1, <3>2, <3>3, <3>4, Zenon
  <2>2. f = Step(f)
    <3> HIDE DEF e0, e1, e2
    <3>1. QED
      BY <2>1, Zenon
  <2>3. QED
    BY <2>2, Zenon
<1>2. e = Step(e)
  <2> HIDE DEF Step
  <2>1. QED
    BY <1>1, Zenon
<1>3. Reached(page) = [level \in Levels |-> e[build.Levels - 1 - level]]
  BY Zenon DEF Reached
<1> HIDE DEF e
<1>4. QED
  <2>1. build.Levels - 1 \in Levels /\ 0 \in Levels /\ build.Levels \in {2, 3}
    BY Shape
  <2>2. Reached(page)[build.Levels - 1] = e[0]
    BY <1>3, <2>1
  <2>3. e[0] = Top(page)
    BY <1>2, <2>1 DEF Top
  <2>4. ASSUME NEW level \in Levels, level # build.Levels - 1
        PROVE  Reached(page)[level] = Below(Reached(page)[level + 1], page, level)
    <3> DEFINE up == build.Levels - 1 - level
    <3>1. up \in Levels /\ up - 1 \in Levels /\ up # 0 /\ level + 1 \in Levels
          /\ build.Levels - 1 - up = level /\ build.Levels - 1 - (level + 1) = up - 1
      BY <2>4, Shape
    <3>2. Reached(page)[level] = e[up] /\ Reached(page)[level + 1] = e[up - 1]
      BY <1>3, <3>1, Zenon
    <3>3. e[up] = PageTables[table][e[up - 1].ppn][Vpn(page, level)]
      <4> HIDE DEF up
      <4>1. QED
        BY <1>2, <3>1, Zenon
    <3>4. QED
      BY <3>2, <3>3, Zenon DEF Below
  <2>5. QED
    BY <1>3, <2>2, <2>3, <2>4, Zenon

(* What the chain meets at every level is an entry. *)
LEMMA ReachedTyped ==
    ASSUME build \in Builds, table \in build.Tables, NEW page \in Page
    PROVE  Reached(page) \in [Levels -> Pte]
<1>1. NoPte \in Pte
  BY FramesAssumption DEF NoPte, Pte, Perms, Frame
<1>2. 0 \in Levels /\ 1 \in Levels /\ (build.Levels = 3 => 2 \in Levels)
      /\ build.Levels \in {2, 3}
  BY Shape, Zenon
<1>3. Top(page) \in Pte
  BY <1>1, <1>2, Entries, Zenon
<1>4. Reached(page)[build.Levels - 1] \in Pte
  BY <1>3, ReachedUnfolds, Zenon
<1>5. ASSUME NEW level \in Levels, level # build.Levels - 1,
             Reached(page)[level + 1] \in Pte
      PROVE  Reached(page)[level] \in Pte
  BY <1>5, ReachedUnfolds, Entries, Zenon
<1>6. CASE build.Levels = 2
  <2>1. Reached(page)[1] \in Pte /\ Reached(page)[0] \in Pte
    BY <1>2, <1>4, <1>5, <1>6
  <2>2. QED
    BY <1>6, <2>1, Shape, ReachedUnfolds, Zenon
<1>7. CASE build.Levels = 3
  <2>1. Reached(page)[2] \in Pte
    BY <1>4, <1>7
  <2>2. Reached(page)[1] \in Pte
    BY <1>2, <1>5, <1>7, <2>1
  <2>3. Reached(page)[0] \in Pte
    BY <1>2, <1>5, <1>7, <2>2
  <2>4. QED
    BY <1>7, <2>1, <2>2, <2>3, Shape, ReachedUnfolds, Zenon
<1>8. QED
  BY <1>2, <1>6, <1>7, Zenon

\* The walk stops at the first entry that is not a pointer, or at the bottom.
LEMMA Stops ==
    ASSUME build \in Builds, NEW page \in Page, NEW level \in Levels,
           Above(page, level),
           level = 0 \/ ~Reached(page)[level].v \/ Leaf(Reached(page)[level])
    PROVE  StopLevel(page) = level
<1> DEFINE Stopping == {0} \cup {l \in Levels : ~Reached(page)[l].v \/ Leaf(Reached(page)[l])}
<1>1. Levels \subseteq Int /\ \A m \in Levels : m >= 0
  BY Shape
<1>2. level \in Stopping /\ Stopping \subseteq Int
  <2>1. level \in Stopping
    BY Zenon
  <2>2. Stopping \subseteq Levels \cup {0}
    BY Zenon
  <2> HIDE DEF Stopping
  <2>3. QED
    BY <1>1, <2>1, <2>2
<1>3. Max(Stopping) = level
  <2>1. ASSUME NEW m \in Stopping PROVE level >= m
    <3>1. CASE m = 0
      BY <1>1, <3>1, Zenon
    <3>2. CASE m \in Levels /\ (~Reached(page)[m].v \/ Leaf(Reached(page)[m]))
      BY <1>1, <3>2 DEF Above
    <3>3. QED
      BY <2>1, <3>1, <3>2, Zenon
  <2> HIDE DEF Stopping
  <2>2. ASSUME NEW x \in Stopping, \A y \in Stopping : x >= y PROVE x = level
    <3>1. x >= level /\ level >= x /\ x \in Int /\ level \in Int
      BY <1>2, <2>1, <2>2, Zenon
    <3>2. QED
      BY <3>1
  <2>3. \E x \in Stopping : \A y \in Stopping : x >= y
    BY <1>2, <2>1, Zenon
  <2>4. QED
    BY <2>2, <2>3, Zenon DEF Max
<1>4. QED
  BY <1>3, Zenon DEF StopLevel

\* What the verdict is there.
LEMMA Verdict ==
    ASSUME build \in Builds, NEW page \in Page, NEW level \in Levels,
           Above(page, level), NEW pte, pte = Reached(page)[level],
           level = 0 \/ ~pte.v \/ Leaf(pte)
    PROVE  /\ Mapped(page) <=> pte.v /\ Leaf(pte) /\ pte.ppn % (2 ^ level) = 0
           /\ MappedPpn(page) = PpnOf(pte, level, page)
           /\ MappedPerm(page) = pte.perm
BY Stops, Zenon DEF Mapped, MappedPpn, MappedPerm

\* iss.py's translate computes the same verdict as the tables' definition.
LEMMA SimulatorAgrees ==
    ASSUME build \in Builds, table \in build.Tables, NEW page \in Page,
           NEW access, NEW priv \in {"S", "U"}
    PROVE  IssPage(page, access, priv) =
             IF Grants(page, access, priv = "U")
             THEN [fault |-> FALSE, ppn |-> MappedPpn(page)]
             ELSE [fault |-> TRUE, ppn |-> 0]
<1> DEFINE R == Reached(page)
           u == priv = "U"
           tables == PageTables[table]
           verdict == IF Grants(page, access, u)
                      THEN [fault |-> FALSE, ppn |-> MappedPpn(page)]
                      ELSE [fault |-> TRUE, ppn |-> 0]
<1>1. R \in [Levels -> Pte]
  BY ReachedTyped, Zenon
<1>2. page \in Nat /\ \A l \in Levels : R[l].ppn \in Nat
  BY <1>1, Shape, FramesAssumption DEF Pte, Frame
<1>3. ASSUME NEW level \in {0, 1, 2}
      PROVE  Iss!vpn(page, level, 1) = Vpn(page, level)
  <2>1. level * 1 = level /\ 2 ^ 1 = 2
    OBVIOUS
  <2>2. QED
    BY <2>1, Zenon DEF Iss!vpn, Vpn
<1>4. ASSUME NEW pte
      PROVE  /\ Iss!IsLeaf(pte) <=> Leaf(pte)
             /\ Iss!_pte_perm_ok(pte, access, u) <=> Permits(pte.perm, access, u)
  BY Zenon DEF Iss!IsLeaf, Leaf, Iss!_pte_perm_ok, Permits
<1>5. ASSUME NEW level \in Levels, Above(page, level), Leaf(R[level]), R[level].v
      PROVE  Iss!Superpage(R[level], level, page, access, u, 1) = verdict
  <2> DEFINE size == 2 ^ level
  <2>1. size \in {1, 2, 4} /\ 2 ^ (level * 1) = size
    <3>1. level \in {0, 1, 2}
      BY <1>5, Shape, Zenon
    <3>2. level * 1 = level
      BY <3>1
    <3>3. CASE level = 0
      BY <3>2, <3>3, Sizes, Zenon
    <3>4. CASE level = 1
      BY <3>2, <3>4, Sizes, Zenon
    <3>5. CASE level = 2
      BY <3>2, <3>5, Sizes, Zenon
    <3>6. QED
      BY <3>1, <3>3, <3>4, <3>5, Zenon
  <2>2. Grants(page, access, u) <=>
           R[level].ppn % size = 0 /\ Permits(R[level].perm, access, u)
    BY <1>5, Verdict, Zenon DEF Grants
  <2>3. MappedPpn(page) = PpnOf(R[level], level, page)
    BY <1>5, Verdict, Zenon
  <2>4. Iss!Superpage(R[level], level, page, access, u, 1) =
          IF R[level].ppn % size # 0 \/ ~Permits(R[level].perm, access, u)
          THEN [fault |-> TRUE, ppn |-> 0]
          ELSE [fault |-> FALSE,
                ppn |-> (R[level].ppn \div size) * size + (page % size)]
    BY <1>4, <2>1, Zenon DEF Iss!Superpage, Iss!Fault, Iss!Physical
  <2>5. (R[level].ppn \div size) * size + (page % size) = PpnOf(R[level], level, page)
    <3>1. R[level].ppn \in Nat
      BY <1>2, Zenon
    <3>2. \A n \in Nat : (n \div size) * size = n - (n % size)
      <4> HIDE DEF size
      <4>1. QED
        BY <2>1
    <3>3. QED
      BY <3>1, <3>2, Zenon DEF PpnOf
  <2> HIDE DEF size
  <2>6. QED
    BY <2>2, <2>3, <2>4, <2>5, Zenon
<1>6. ASSUME Above(page, 0)
      PROVE  Iss!BottomLevel(R[0], access, u) = verdict
  <2>1. 0 \in Levels
    BY Shape, Zenon
  <2>2. R[0].ppn \in Nat /\ 2 ^ 0 = 1
    BY <1>2, <2>1, Sizes, Zenon
  <2>3. R[0].ppn % (2 ^ 0) = 0 /\ PpnOf(R[0], 0, page) = R[0].ppn
    BY <1>2, <2>2 DEF PpnOf
  <2>4. Grants(page, access, u) <=> R[0].v /\ Leaf(R[0]) /\ Permits(R[0].perm, access, u)
    BY <1>6, <2>1, <2>3, Verdict, Zenon DEF Grants
  <2>5. MappedPpn(page) = R[0].ppn
    BY <1>6, <2>1, <2>3, Verdict, Zenon
  <2>6. QED
    BY <1>4, <2>4, <2>5, Zenon DEF Iss!BottomLevel, Iss!Fault, Iss!Physical
<1>7. ASSUME NEW level \in Levels, Above(page, level), ~R[level].v
      PROVE  Iss!Fault = verdict
  BY <1>7, Verdict, Zenon DEF Grants, Iss!Fault
<1> HIDE DEF verdict, R
<1>8. CASE build.Levels = 2
  <2>1. R[1] = tables[Root][Iss!vpn(page, 1, 1)] /\ R[0] = tables[R[1].ppn][Iss!vpn(page, 0, 1)]
    BY <1>3, <1>8, Shape, ReachedUnfolds DEF R, Top, Below
  <2>2. IssPage(page, access, priv) = Iss!_translate_sv32(tables, Root, page, access, u, 1)
    BY <1>8, Zenon DEF IssPage, Iss!translate
  <2>3. Above(page, 1) /\ (R[1].v /\ ~Leaf(R[1]) => Above(page, 0))
    BY <1>8, Shape DEF Above, R
  <2>4. QED
    BY <1>4, <1>5, <1>6, <1>7, <1>8, <2>1, <2>2, <2>3, Shape, Zenon
       DEF Iss!_translate_sv32, verdict
<1>9. CASE build.Levels = 3
  <2>1. /\ R[2] = tables[Root][Iss!vpn(page, 2, 1)]
        /\ R[1] = tables[R[2].ppn][Iss!vpn(page, 1, 1)]
        /\ R[0] = tables[R[1].ppn][Iss!vpn(page, 0, 1)]
    BY <1>3, <1>9, Shape, ReachedUnfolds DEF R, Top, Below
  <2>2. IssPage(page, access, priv) = Iss!_translate_sv39(tables, Root, page, access, u, 1)
    BY <1>9 DEF IssPage, Iss!translate
  <2>3. /\ Above(page, 2)
        /\ R[2].v /\ ~Leaf(R[2]) => Above(page, 1)
        /\ R[2].v /\ ~Leaf(R[2]) /\ R[1].v /\ ~Leaf(R[1]) => Above(page, 0)
    BY <1>9, Shape DEF Above, R
  <2>4. 0 \in Levels /\ 1 \in Levels /\ 2 \in Levels
    BY <1>9, Shape, Zenon
  <2>5. CASE ~R[2].v
    BY <1>7, <2>1, <2>2, <2>3, <2>4, <2>5, Zenon
       DEF Iss!_translate_sv39, verdict
  <2>6. CASE R[2].v /\ Leaf(R[2])
    BY <1>4, <1>5, <2>1, <2>2, <2>3, <2>4, <2>6, Zenon
       DEF Iss!_translate_sv39, verdict
  <2>7. CASE R[2].v /\ ~Leaf(R[2]) /\ ~R[1].v
    BY <1>4, <1>7, <2>1, <2>2, <2>3, <2>4, <2>7, Zenon
       DEF Iss!_translate_sv39, verdict
  <2>8. CASE R[2].v /\ ~Leaf(R[2]) /\ R[1].v /\ Leaf(R[1])
    BY <1>4, <1>5, <2>1, <2>2, <2>3, <2>4, <2>8, Zenon
       DEF Iss!_translate_sv39, verdict
  <2>9. CASE R[2].v /\ ~Leaf(R[2]) /\ R[1].v /\ ~Leaf(R[1])
    BY <1>4, <1>6, <2>1, <2>2, <2>3, <2>4, <2>9, Zenon
       DEF Iss!_translate_sv39, verdict
  <2>10. QED
    BY <2>5, <2>6, <2>7, <2>8, <2>9, Zenon
<1>10. QED
  BY <1>8, <1>9, Shape, Zenon

\* A leaf's frame exists.
LEMMA FrameExists ==
    ASSUME NEW pte \in Pte, NEW level \in {0, 1, 2}, NEW page \in Nat
    PROVE  PpnOf(pte, level, page) \in Frame
<1>1. pte.ppn \in 0 .. FRAMES - 1 /\ FRAMES \in Nat
  BY FramesAssumption, Zenon DEF Pte, Frame
<1>2. CASE level = 0
  BY <1>1, <1>2, Sizes DEF PpnOf, Frame
<1>3. CASE level = 1
  BY <1>1, <1>3, Sizes, FramesAssumption DEF PpnOf, Frame
<1>4. CASE level = 2
  BY <1>1, <1>4, Sizes, FramesAssumption DEF PpnOf, Frame
<1>5. QED
  BY <1>2, <1>3, <1>4, Zenon

\* While the tables stay, so does everything they say.
LEMMA TablesKept ==
    ASSUME build' = build, table' = table, NEW page
    PROVE  /\ Levels' = Levels /\ Page' = Page
           /\ Reached(page)' = Reached(page)
           /\ Mapped(page)' <=> Mapped(page)
           /\ MappedPpn(page)' = MappedPpn(page)
           /\ MappedPerm(page)' = MappedPerm(page)
<1>1. Levels' = Levels /\ Page' = Page
  BY Zenon DEF Levels, Page
<1>2. Reached(page)' = Reached(page)
  BY <1>1 DEF Reached
<1>3. StopLevel(page)' = StopLevel(page)
  BY <1>1, <1>2, Zenon DEF StopLevel
<1>4. QED
  BY <1>1, <1>2, <1>3, Zenon DEF Mapped, MappedPpn, MappedPerm

(***************************************************************************)
(* The initial states.                                                     *)
(***************************************************************************)
LEMMA Initially == Init => IInv
<1> SUFFICES ASSUME Init PROVE IInv
  BY Zenon
<1> USE DEF Init, MmuInit
<1>1. build \in Builds /\ table \in build.Tables
  BY Zenon
<1>2. 0 \in Page /\ 0 \in Levels /\ 0 \in Frame
  BY <1>1, Shape, FramesAssumption DEF Frame
<1>3. NoPte \in Pte
  BY <1>2, Zenon DEF NoPte, Pte, Perms
<1>4. TypeOK
  <2>1. MmuTypeOK
    BY <1>2, <1>3, Zenon DEF MmuTypeOK, Perms
  <2>2. QED
    BY <1>2, <1>3, <2>1, Zenon DEF TypeOK, Nop, InEx, Ops, Accesses
<1>5. Typed
  BY <1>1, <1>4, Zenon DEF Typed, Nop, InEx
<1>6. ~translate_enable /\ ~ptw_busy /\ ~ptw.done
  BY Zenon DEF translate_enable, ptw_busy
<1>7. FenceOrder /\ OperandKept
  BY Zenon DEF FenceOrder, OperandKept, Nop, InEx, Accesses
<1>8. Requester
  BY <1>6, Zenon DEF Requester, Walking
<1>9. ~ptw_start
  BY <1>6, Zenon
     DEF ptw_start, ptw_req_d, ptw_req_i, itlb_miss, dtlb_miss, dtlb_needed
<1>10. BusOwned
  BY <1>6, <1>9, Zenon DEF BusOwned, Overlaps
<1>11. OnPath
  BY <1>6, Zenon DEF OnPath, ptw_busy
<1>12. TlbFaithful
  BY Zenon DEF TlbFaithful
<1>13. QED
  BY <1>5, <1>7, <1>8, <1>10, <1>11, <1>12, Zenon DEF IInv, Orderly

(***************************************************************************)
(* Type correctness.                                                       *)
(***************************************************************************)
LEMMA WalkerTyped ==
    ASSUME Typed, NEW start \in BOOLEAN, NEW page \in Page,
           NEW access \in {"r", "w", "x"}, NEW is_u \in BOOLEAN,
           NEW ack \in BOOLEAN, NEW pte \in Pte,
           PtwEdge(start, page, access, is_u, ack, pte), build' = build
    PROVE  (ptw \in [state : {"IDLE", "WAIT", "DECODE"}, level : Levels,
                     page : Page, access : {"r", "w", "x"}, is_u : BOOLEAN,
                     pte : Pte, done : BOOLEAN, fault : BOOLEAN, ppn : Frame,
                     perm : Perms])'
<1> DEFINE PtwSet == [state : {"IDLE", "WAIT", "DECODE"}, level : Levels,
                     page : Page, access : {"r", "w", "x"}, is_u : BOOLEAN,
                     pte : Pte, done : BOOLEAN, fault : BOOLEAN, ppn : Frame,
                     perm : Perms]
<1>1. ptw \in PtwSet
  BY Zenon DEF Typed, TypeOK, MmuTypeOK
<1>2. Levels' = Levels /\ Page' = Page /\ Frame' = Frame /\ Pte' = Pte
  BY Zenon DEF Levels, Page, Frame, Pte
<1>3. build \in Builds /\ Levels \subseteq {0, 1, 2} /\ Page \subseteq Nat
      /\ build.Levels - 1 \in Levels
      /\ \A l \in Levels : l # 0 => l - 1 \in Levels
  BY Shape DEF Typed
<1>4. ASSUME NEW fault \in BOOLEAN PROVE Conclude(fault) \in PtwSet
  <2>1. PpnOf(ptw.pte, ptw.level, ptw.page) \in Frame
    BY <1>1, <1>3, FrameExists, Zenon
  <2>2. ptw.pte.perm \in Perms
    BY <1>1, Zenon DEF Pte
  <2>3. QED
    BY <1>1, <2>1, <2>2, Zenon DEF Conclude
<1>5. Start(page, access, is_u) \in PtwSet
  BY <1>1, <1>3, Zenon DEF Start
<1>6. Decode \in PtwSet
  <2>1. (\/ ptw.pte.ppn % (2 ^ ptw.level) # 0
         \/ ~Permits(ptw.pte.perm, ptw.access, ptw.is_u)) \in BOOLEAN
    BY Zenon
  <2>2. ptw.level # 0 => [ptw EXCEPT !.state = "WAIT", !.level = @ - 1] \in PtwSet
    BY <1>1, <1>3, Zenon
  <2> HIDE DEF PtwSet
  <2>3. QED
    BY <1>4, <2>1, <2>2, Zenon DEF Decode
<1>7. [ptw EXCEPT !.done = FALSE] \in PtwSet
      /\ [ptw EXCEPT !.state = "DECODE", !.pte = pte] \in PtwSet
  BY <1>1, Zenon
<1>8. ptw.state \in {"IDLE", "WAIT", "DECODE"}
  BY <1>1, Zenon
<1>9. ptw' \in PtwSet
  <2> HIDE DEF PtwSet
  <2>1. QED
    BY <1>1, <1>5, <1>6, <1>7, <1>8, Zenon DEF PtwEdge
<1>10. QED
  BY <1>2, <1>9, Zenon

\* The instructions a program may fetch are instructions, on pages.
LEMMA ProgramTyped ==
    ASSUME Typed, NEW i \in Program
    PROVE  /\ i \in [op : Ops \cup {"mret", "ifault"}, page : Page]
           /\ i.op = "remap" => "remap" \in build.Ops
<1>1. build.Code \subseteq Page /\ build.Data \subseteq Page /\ build.Ops \subseteq Ops
      /\ 0 \in Page
  BY BuildsAssumption, Shape DEF Typed, Build, Page
<1>2. i \in Instructions
  BY Zenon DEF Program
<1>3. QED
  BY <1>1, <1>2 DEF Instructions, Nop, Ops, Accesses

(* Every edge of the clock keeps the types. *)
LEMMA TypedStep ==
    ASSUME Typed, Next PROVE Typed'
<1> DEFINE AnyOp == Ops \cup {"mret", "ifault"}
<1>1. build' = build /\ build \in Builds /\ table \in build.Tables
  BY Zenon DEF Next, Typed
<1>2. Levels' = Levels /\ Page' = Page /\ Frame' = Frame /\ Pte' = Pte
  BY <1>1, Zenon DEF Levels, Page, Frame, Pte
<1>3. /\ pc \in Page /\ priv_mode \in {"M", "S", "U"}
      /\ reg1 \in [op : AnyOp, page : Page]
      /\ reg2 \in [op : AnyOp, page : Page, alu : Page]
      /\ reg3 \in Accesses \cup {"nop", "fence"}
      /\ dtlb_vaddr_r \in Page
      /\ bus \in [pending : BOOLEAN, data : Pte]
      /\ dcache \in {"idle", "fill", "ready", "flush", "flushed"}
  BY Zenon DEF Typed, TypeOK
<1>4. /\ reads_rd \in BOOLEAN
      /\ mem_stall_done_r \in BOOLEAN /\ fence_pending_r \in BOOLEAN
      /\ fence_flush_started_r \in BOOLEAN /\ dtlb_miss_r \in BOOLEAN
      /\ ptw_servicing_d_r \in BOOLEAN /\ ptw_abandoned_r \in BOOLEAN
      /\ synced \in BOOLEAN
  BY Zenon DEF Typed, TypeOK
<1>5. 0 \in Page /\ NoPte \in Pte
  BY <1>1, Shape, FramesAssumption DEF Frame, NoPte, Pte, Perms
<1>6. dtlb_vaddr \in Page
  BY <1>3, Zenon DEF dtlb_vaddr
<1>7. PICK i, next, low, hit :
         /\ i \in Program \cup {Nop} /\ next \in Sequel \cup {pc}
         /\ low \in build.Privs \cup {"M"}
         /\ FetchEdge(i, next) /\ PrivEdge(low) /\ CacheEdge(hit)
  <2>1. \E i \in Program \cup {Nop}, next \in Sequel \cup {pc} : FetchEdge(i, next)
    <3>1. CASE pc_stall \/ branch_taken
      BY <3>1, Zenon DEF Next
    <3>2. CASE ~(pc_stall \/ branch_taken)
      BY <3>2, Zenon DEF Next
    <3>3. QED
      BY <3>1, <3>2, Zenon
  <2>2. \E low \in build.Privs \cup {"M"} : PrivEdge(low)
    BY Zenon DEF Next
  <2>3. \E hit : CacheEdge(hit)
    BY Zenon DEF Next
  <2>4. QED
    BY <2>1, <2>2, <2>3, Zenon
<1>8. StageEdge /\ FenceEdge /\ WalkEdge /\ BusEdge
  BY Zenon DEF Next
<1>9. i \in [op : AnyOp, page : Page] /\ (i.op = "remap" => "remap" \in build.Ops)
  BY <1>5, <1>7, ProgramTyped DEF Nop, Ops
<1>10. next \in Page
  BY <1>1, <1>3, <1>7, BuildsAssumption, Zenon DEF Sequel, Page
<1>11. pc' \in Page
  BY <1>3, <1>5, <1>7, <1>10, Zenon DEF FetchEdge
<1>12. Fetched(i) \in [op : AnyOp, page : Page]
       /\ (Fetched(i).op = "remap" => "remap" \in build.Ops)
  BY <1>3, <1>9, Zenon DEF Fetched
<1>13. reg1' \in [op : AnyOp, page : Page]
       /\ (reg1'.op = "remap" => "remap" \in build.Ops)
  <2>1. reg1.op = "remap" => "remap" \in build.Ops
    BY Zenon DEF Typed
  <2>2. Nop \in [op : AnyOp, page : Page] /\ Nop.op = "nop"
    BY <1>5, Zenon DEF Nop, Ops
  <2>3. reg1' \in {Nop, reg1, Fetched(i)}
    BY <1>7, Zenon DEF FetchEdge
  <2>4. QED
    BY <1>3, <1>12, <2>1, <2>2, <2>3, Zenon
<1>14. priv_mode' \in {"M", "S", "U"}
  <2>1. low \in {"M", "S", "U"}
    BY <1>1, <1>7, BuildsAssumption, Zenon DEF Build
  <2>2. QED
    BY <1>3, <1>7, <2>1, Zenon DEF PrivEdge
<1>15. reg2' \in [op : AnyOp, page : Page, alu : Page]
       /\ (reg2'.op = "remap" => "remap" \in build.Ops)
  <2>1. Drifted(reg2.page) \in Page
    <3>1. 0 \in Page /\ 1 \in Page
      BY <1>1, Shape
    <3>2. \E p \in Page : p # reg2.page
      BY <3>1
    <3>3. QED
      BY <3>2, Zenon DEF Drifted
  <2>2. /\ reg1.op = "remap" => "remap" \in build.Ops
        /\ reg2.op = "remap" => "remap" \in build.Ops
    BY Zenon DEF Typed
  <2>3. InEx(Nop) \in [op : AnyOp, page : Page, alu : Page] /\ InEx(Nop).op = "nop"
    BY <1>5, Zenon DEF InEx, Nop, Ops
  <2>4. InEx(reg1) \in [op : AnyOp, page : Page, alu : Page] /\ InEx(reg1).op = reg1.op
    BY <1>3, Zenon DEF InEx
  <2>5. CASE reg2_hold
    BY <1>3, <1>8, <2>1, <2>2, <2>5, Zenon DEF StageEdge
  <2>6. CASE ~reg2_hold
    <3>1. reg2' \in {InEx(Nop), InEx(reg1)}
      BY <1>8, <2>6, Zenon DEF StageEdge
    <3>2. QED
      BY <2>2, <2>3, <2>4, <3>1, Zenon
  <2>7. QED
    BY <2>5, <2>6, Zenon
<1>16. reg3' \in Accesses \cup {"nop", "fence"}
       /\ (reg3' = "remap" => "remap" \in build.Ops)
  <2>1. /\ reg2.op = "remap" => "remap" \in build.Ops
        /\ reg3 = "remap" => "remap" \in build.Ops
    BY Zenon DEF Typed
  <2>2. QED
    BY <1>3, <1>8, <2>1, Zenon DEF StageEdge
<1>17. mem_stall_done_r' \in BOOLEAN /\ reads_rd' \in BOOLEAN
  BY <1>4, <1>8, Zenon DEF StageEdge
<1>18. fence_pending_r' \in BOOLEAN /\ fence_flush_started_r' \in BOOLEAN
  BY <1>8, Zenon DEF FenceEdge
<1>19. dtlb_miss_r' \in BOOLEAN
  BY <1>8, Zenon DEF WalkEdge, dtlb_miss
<1>20. ptw_servicing_d_r' \in BOOLEAN
  BY <1>4, <1>8, Zenon DEF WalkEdge, ptw_req_d, dtlb_miss
<1>21. ptw_abandoned_r' \in BOOLEAN
  BY <1>4, <1>8, Zenon DEF WalkEdge
<1>22. synced' \in BOOLEAN
  BY <1>8, Zenon DEF BusEdge
<1>23. dtlb_vaddr_r' \in Page
  BY <1>3, <1>8, Zenon DEF WalkEdge
<1>24. bus' \in [pending : BOOLEAN, data : Pte]
  <2>1. wb_m_read \in BOOLEAN
    BY Zenon DEF wb_m_read, ptw_m_cyc
  <2>2. ptw_busy => ptw_m_pte \in Pte
    <3>1. ptw.page \in Page /\ ptw.level \in Levels /\ ptw.pte \in Pte
      BY Zenon DEF Typed, TypeOK, MmuTypeOK
    <3>2. ptw_m_pte = IF ptw.level = build.Levels - 1 THEN Top(ptw.page)
                      ELSE Below(ptw.pte, ptw.page, ptw.level)
      BY Zenon DEF ptw_m_pte, Top, Below
    <3>3. QED
      BY <1>1, <3>1, <3>2, Entries, Zenon
  <2>3. QED
    BY <1>3, <1>5, <1>8, <2>1, <2>2, Zenon DEF BusEdge
<1>25. table' \in build.Tables
  <2>1. reg3 = "remap" => \E t \in build.Tables : t # table
    BY <1>1, BuildsAssumption, Zenon DEF Typed
  <2>2. reg3 = "remap" => (CHOOSE t \in build.Tables : t # table) \in build.Tables
    BY <2>1, Zenon
  <2>3. QED
    BY <1>1, <1>8, <2>2, Zenon DEF BusEdge
<1>26. dcache' \in {"idle", "fill", "ready", "flush", "flushed"}
  BY <1>3, <1>7, Zenon DEF CacheEdge
<1>27. (tlb \in [{0, 1} -> [valid : BOOLEAN, tag : Page, ppn : Frame, perm : Perms]])'
  <2> DEFINE Entry == [valid : BOOLEAN, tag : Page, ppn : Frame, perm : Perms]
  <2>1. tlb \in [{0, 1} -> Entry] /\ ptw.ppn \in Frame /\ ptw.perm \in Perms
    BY Zenon DEF Typed, TypeOK, MmuTypeOK
  <2>2. ptw_fill_vaddr \in Page
    BY <1>3, <1>6, Zenon DEF ptw_fill_vaddr
  <2>3. Filled(ptw_fill_vaddr) \in [{0, 1} -> Entry]
    BY <2>1, <2>2, Zenon DEF Filled
  <2>4. Flushed \in [{0, 1} -> Entry]
    BY <2>1, Zenon DEF Flushed
  <2>5. tlb' \in {tlb, Filled(ptw_fill_vaddr), Flushed}
    BY <1>8, Zenon DEF WalkEdge, TlbEdge
  <2>6. tlb' \in [{0, 1} -> Entry]
    BY <2>1, <2>3, <2>4, <2>5, Zenon
  <2>7. QED
    BY <1>2, <2>6, Zenon
<1>28. (ptw \in [state : {"IDLE", "WAIT", "DECODE"}, level : Levels,
                 page : Page, access : {"r", "w", "x"}, is_u : BOOLEAN,
                 pte : Pte, done : BOOLEAN, fault : BOOLEAN, ppn : Frame,
                 perm : Perms])'
  <2>1. ptw_start \in BOOLEAN /\ priv_is_u \in BOOLEAN /\ lsu_ack \in BOOLEAN
    BY Zenon DEF ptw_start, priv_is_u, lsu_ack
  <2>2. ptw_vaddr \in Page
    BY <1>3, <1>6, Zenon DEF ptw_vaddr
  <2>3. ptw_access \in {"r", "w", "x"}
    BY Zenon DEF ptw_access, access_regde
  <2>4. (IF dcache_m_cyc THEN NoPte ELSE bus.data) \in Pte
    BY <1>3, <1>5, Zenon
  <2>5. PtwEdge(ptw_start, ptw_vaddr, ptw_access, priv_is_u, lsu_ack,
                IF dcache_m_cyc THEN NoPte ELSE bus.data)
    BY <1>8, Zenon DEF WalkEdge
  <2>6. QED
    BY <1>1, <2>1, <2>2, <2>3, <2>4, <2>5, WalkerTyped
<1>29. TypeOK'
  BY <1>2, <1>11, <1>13, <1>14, <1>15, <1>16, <1>17, <1>18, <1>19, <1>20,
     <1>21,
     <1>22, <1>23, <1>24, <1>26, <1>27, <1>28, Zenon DEF TypeOK, MmuTypeOK
<1>30. QED
  BY <1>1, <1>13, <1>15, <1>16, <1>25, <1>29, Zenon DEF Typed

(***************************************************************************)
(* What a state of the invariant already decides about its wires.          *)
(***************************************************************************)
\* MEM stalls for an access or for a fence.
LEMMA StallOwner ==
    ASSUME Typed, FenceOrder, mem_stall
    PROVE  lsu_cyc \/ (fence_pending_r /\ reg3 = "fence" /\ reg2.op \notin Accesses)
BY Zenon DEF FenceOrder, mem_stall, mem_trigger, lsu_cyc

\* The page of the access in EX is the page it asked for.
LEMMA AccessPage ==
    ASSUME OperandKept, reg2.op \in Accesses
    PROVE  dtlb_vaddr = reg2.page
BY Zenon DEF OperandKept, dtlb_vaddr

(* What each side's miss implies: an access or a fetch that needs
   translation, does not hit, is not squashed, and is held where it is. *)
LEMMA NeedsAccess ==
    ASSUME Typed
    PROVE  /\ dtlb_needed <=> translate_enable /\ reg2.op \in Accesses
           /\ dtlb_miss => dtlb_needed /\ ~TlbHit(dtlb_vaddr) /\ ~branch_taken /\ reg2_hold
           /\ reg2_hold => pc_stall
           /\ itlb_miss => translate_enable /\ ~TlbHit(pc) /\ ~branch_taken /\ pc_stall
<1>1. dtlb_needed <=> translate_enable /\ reg2.op \in Accesses
  BY Zenon DEF dtlb_needed, memRead_regde, memWrite_regde, Accesses
<1>2. QED
  BY <1>1, Zenon DEF dtlb_miss, reg2_hold, pc_stall, itlb_miss

\* While a walk is on the bus answers no one else.
LEMMA Busy ==
    ASSUME Orderly, ptw_busy
    PROVE  /\ ~ptw.done /\ ~ptw_done_d /\ ~ptw_done_i
           /\ ~wb_m_we /\ ~dcache_m_cyc
           /\ lsu_ack => ptw.state = "WAIT" /\ bus.pending
<1>1. ~ptw.done
  BY Zenon DEF Orderly, Requester
<1>2. ~wb_m_we /\ ~dcache_m_cyc
  BY Zenon DEF Orderly, BusOwned, wb_m_we, dcache_m_cyc
<1>3. lsu_ack => ptw.state = "WAIT" /\ bus.pending
  BY <1>2, Zenon DEF lsu_ack, wb_m_read, ptw_m_cyc
<1>4. QED
  BY <1>1, <1>2, <1>3, Zenon DEF ptw_done_d, ptw_done_i

(* While a walk that is not abandoned is on, its requester waits, and is
   redirected by nothing but the fault of the fetch before it. *)
LEMMA Waiting ==
    ASSUME Typed, Orderly, ptw_busy, ~ptw_abandoned_r
    PROVE  /\ branch_taken => reg2.op = "ifault"
           /\ branch_taken \/ pc_stall
           /\ ptw_servicing_d_r => dtlb_miss /\ ~mem_stall /\ ~branch_taken
           /\ ~ptw_servicing_d_r => ~dtlb_miss /\ (branch_taken \/ itlb_miss)
<1>1. Awaited /\ ~TlbHit(ptw.page)
  BY Zenon DEF Orderly, Requester, Walking
<1>2. ~ptw_done_d /\ ~ptw_done_i
  BY Busy, Zenon
<1>3. ptw_servicing_d_r => dtlb_vaddr = ptw.page
  BY <1>1, AccessPage, Zenon DEF Orderly, Awaited
<1>4. ~dtlb_page_fault
  BY <1>1, <1>2, <1>3, NeedsAccess, Zenon
     DEF Awaited, dtlb_page_fault, dtlb_hit_fault, Accesses
<1>5. branch_taken => reg2.op = "ifault" /\ ~ptw_servicing_d_r
  BY <1>1, <1>4, Zenon
     DEF Awaited, exception_taken, branch_taken, sfence_priv_violation, Accesses
<1>6. ptw_servicing_d_r => dtlb_miss /\ ~mem_stall
  <2>1. ptw_servicing_d_r => dtlb_miss
    BY <1>1, <1>2, <1>3, <1>5, NeedsAccess, Zenon DEF Awaited, dtlb_miss
  <2>2. reg3 = "nop" => ~mem_stall
    BY StallOwner, Zenon DEF Orderly, lsu_cyc, lsu_we
  <2>3. QED
    BY <1>1, <2>1, <2>2, Zenon DEF Awaited
<1>7. ~ptw_servicing_d_r => ~dtlb_miss /\ (branch_taken \/ itlb_miss)
  BY <1>1, <1>2, NeedsAccess, Zenon DEF Awaited, itlb_miss, Accesses
<1>8. QED
  BY <1>5, <1>6, <1>7, NeedsAccess, Zenon

\* A walk starts only when the bus is free and its requester stays.
LEMMA Starting ==
    ASSUME Typed, Orderly, ptw_start, ~ptw_busy, ~ptw.done
    PROVE  /\ ~branch_taken /\ ~exception_taken /\ pc_stall /\ ~lsu_cyc /\ ~wb_m_read
           /\ dcache # "flush" /\ ~flush_all /\ ~wb_m_we
           /\ ptw_req_d => /\ dtlb_miss /\ ~mem_stall /\ reg2.op \in Accesses
                           /\ ptw_vaddr = reg2.page /\ ptw_access = access_regde
           /\ ~ptw_req_d => /\ itlb_miss /\ ~dtlb_miss
                            /\ ptw_vaddr = pc /\ ptw_access = "x"
                            /\ reg2_hold => reg2.op \in {"nop", "fence", "sfence"}
           /\ ~build.Cached => reg2_hold \/ reg2.op \notin Accesses
<1>1. ~lsu_cyc /\ dcache # "flush" /\ (dtlb_miss \/ itlb_miss)
  BY Zenon DEF ptw_start, ptw_req_d, ptw_req_i, dcache_flush_busy
<1>2. ~branch_taken /\ ~exception_taken /\ pc_stall
  BY <1>1, NeedsAccess, Zenon DEF branch_taken
<1>3. ~wb_m_read /\ ~wb_m_we
  BY <1>1, Zenon DEF wb_m_read, wb_m_we, lsu_cyc
<1>4. ~flush_all /\ (~build.Cached => reg2_hold \/ reg2.op \notin Accesses)
  BY Zenon DEF Orderly, BusOwned, Overlaps
<1>5. CASE ptw_req_d
  <2>1. dtlb_miss /\ reg2.op \in Accesses
    BY <1>5, NeedsAccess, Zenon DEF ptw_req_d
  <2>2. ~mem_stall
    BY <1>1, <2>1, StallOwner, Zenon DEF Orderly
  <2>3. QED
    BY <1>1, <1>2, <1>3, <1>4, <1>5, <2>1, <2>2, AccessPage, Zenon
       DEF Orderly, ptw_vaddr, ptw_access
<1>6. CASE ~ptw_req_d
  <2>1. itlb_miss /\ ~dtlb_miss
    BY <1>1, <1>6, Zenon DEF ptw_req_d
  <2>2. reg2_hold => reg2.op \notin Accesses
    BY <1>1, <2>1, StallOwner, Zenon DEF Orderly, reg2_hold
  <2>3. reg2_hold => reg2.op \in {"nop", "fence", "sfence"}
    BY <1>2, <2>2, Zenon
       DEF branch_taken, exception_taken, Typed, TypeOK, Ops, Accesses
  <2>4. QED
    BY <1>1, <1>2, <1>3, <1>4, <1>6, <2>1, <2>3, Zenon
       DEF ptw_vaddr, ptw_access
<1>7. QED
  BY <1>5, <1>6, Zenon

(***************************************************************************)
(* Every clock edge keeps the invariant.                                   *)
(***************************************************************************)
\* The edges of one cycle, with what they chose.
LEMMA Edges ==
    ASSUME Next
    PROVE  \E i, next, low, hit :
              /\ i \in Program \cup {Nop}
              /\ FetchEdge(i, next) /\ PrivEdge(low) /\ CacheEdge(hit)
              /\ StageEdge /\ FenceEdge /\ WalkEdge /\ BusEdge
              /\ build' = build /\ (build.Overlap \/ ~Overlaps')
<1>1. \E i, next : i \in Program \cup {Nop} /\ FetchEdge(i, next)
  <2>1. CASE pc_stall \/ branch_taken
    BY <2>1, Zenon DEF Next
  <2>2. CASE ~(pc_stall \/ branch_taken)
    BY <2>2, Zenon DEF Next
  <2>3. QED
    BY <2>1, <2>2, Zenon
<1>2. (\E low : PrivEdge(low)) /\ (\E hit : CacheEdge(hit))
  BY Zenon DEF Next
<1>3. QED
  BY <1>1, <1>2, Zenon DEF Next

(* An edge keeps FenceOrder: a fence has no access directly behind it. *)
LEMMA FenceOrderStep ==
    ASSUME Typed, Orderly, Next, ~build.Overlap
    PROVE  FenceOrder'
<1>1. PICK i, next, low, hit :
         /\ i \in Program \cup {Nop}
         /\ FetchEdge(i, next) /\ PrivEdge(low) /\ CacheEdge(hit)
         /\ StageEdge /\ FenceEdge /\ WalkEdge /\ BusEdge
         /\ build' = build /\ (build.Overlap \/ ~Overlaps')
  BY Edges, Zenon
<1>2. (fence_pending_r => build.Cached /\ reg3 = "fence" /\ ~mem_stall_done_r)'
  <2> SUFFICES ASSUME fence_pending_r'
               PROVE  build.Cached /\ reg3' = "fence" /\ ~mem_stall_done_r'
    BY <1>1, Zenon
  <2>1. dcache # "flushed"
    BY <1>1, Zenon DEF FenceEdge
  <2>2. CASE fence_pending_r
    <3>1. build.Cached /\ reg3 = "fence" /\ ~mem_stall_done_r
      BY <2>2, Zenon DEF Orderly, FenceOrder
    <3>2. mem_stall /\ ~mem_access_ready
      BY <2>1, <2>2, <3>1, Zenon DEF mem_stall, mem_trigger, mem_access_ready
    <3>3. QED
      BY <1>1, <3>1, <3>2, Zenon DEF StageEdge
  <2>3. CASE ~fence_pending_r
    <3>1. build.Cached /\ reg2.op = "fence" /\ ~reg2_hold
      BY <1>1, <2>3, Zenon DEF FenceEdge
    <3>2. ~mem_stall /\ ~dtlb_miss
      BY <3>1, Zenon DEF reg2_hold
    <3>3. ~ptw_done_d
      BY <3>1, Zenon
         DEF ptw_done_d, Orderly, Requester, Walking, Awaited, Accesses
    <3>4. ~exception_taken
      BY <3>1, <3>3, NeedsAccess, Zenon
         DEF exception_taken, dtlb_page_fault, dtlb_hit_fault,
         sfence_priv_violation, Accesses
    <3>5. QED
      BY <1>1, <3>1, <3>2, <3>4, Zenon DEF StageEdge
  <2>4. QED
    BY <2>2, <2>3, Zenon
<1>3. (dcache = "fill" => build.Cached /\ lsu_cyc /\ ~mem_stall_done_r)'
  <2> SUFFICES ASSUME dcache' = "fill"
               PROVE  build.Cached /\ lsu_cyc' /\ ~mem_stall_done_r'
    BY <1>1, Zenon
  <2>1. dcache = "idle" /\ dcache_req
    BY <1>1, Zenon DEF CacheEdge, Typed, TypeOK
  <2>2. build.Cached /\ lsu_cyc /\ mem_stall /\ ~mem_access_ready
    BY <2>1, Zenon
       DEF dcache_req, mem_stall, mem_trigger, lsu_cyc, mem_access_ready
  <2>3. reg3' = reg3 /\ ~mem_stall_done_r'
    BY <1>1, <2>2, Zenon DEF StageEdge
  <2>4. QED
    BY <2>2, <2>3, Zenon DEF lsu_cyc, lsu_we
<1>4. ASSUME reg2'.op = "fence" PROVE reg1'.op \notin Accesses
  <2>1. Nop.op \notin Accesses
    BY Zenon DEF Nop, Accesses
  <2>2. CASE reg2_hold
    <3>1. reg2.op = "fence" /\ reg1' \in {Nop, reg1}
      BY <1>1, <1>4, <2>2, NeedsAccess, Zenon
         DEF StageEdge, FetchEdge, Typed, TypeOK
    <3>2. QED
      BY <2>1, <3>1, Zenon DEF Orderly, FenceOrder
  <2>3. CASE ~reg2_hold
    <3>1. reg1.op = "fence" /\ ~branch_taken /\ ~itlb_miss /\ ~stall
      BY <1>1, <1>4, <2>3, Zenon DEF StageEdge, InEx, Nop
    <3>2. reg1' = Fetched(i)
      BY <1>1, <2>3, <3>1, Zenon DEF FetchEdge, pc_stall
    <3>3. i.op \notin Accesses
      BY <1>1, <2>1, <3>1, Zenon DEF Program
    <3>4. QED
      BY <3>2, <3>3, Zenon DEF Fetched, Accesses
  <2>4. QED
    BY <2>2, <2>3, Zenon
<1>5. ASSUME reg3' = "fence" PROVE reg2'.op \notin Accesses
  <2>1. CASE mem_stall
    <3>1. reg3 = "fence" /\ reg2'.op = reg2.op
      BY <1>1, <1>5, <2>1, Zenon DEF StageEdge, reg2_hold, Typed, TypeOK
    <3>2. QED
      BY <3>1, Zenon DEF Orderly, FenceOrder
  <2>2. CASE ~mem_stall
    <3>1. reg2.op = "fence" /\ ~reg2_hold
      BY <1>1, <1>5, <2>2, Zenon DEF StageEdge, reg2_hold
    <3>2. reg2' \in {InEx(Nop), InEx(reg1)}
      BY <1>1, <3>1, Zenon DEF StageEdge
    <3>3. reg1.op \notin Accesses
      BY <3>1, Zenon DEF Orderly, FenceOrder
    <3>4. QED
      BY <3>2, <3>3 DEF InEx, Nop, Accesses
  <2>3. QED
    BY <2>1, <2>2, Zenon
<1>6. QED
  BY <1>2, <1>3, <1>4, <1>5, Zenon DEF FenceOrder, Accesses

(* An edge keeps OperandKept: an access held in EX by a miss is served at the
   address it had when it missed. *)
LEMMA OperandKeptStep ==
    ASSUME Typed, Orderly, Next
    PROVE  OperandKept'
<1>1. StageEdge /\ WalkEdge
  BY Zenon DEF Next
<1>2. ASSUME dtlb_miss_r'
      PROVE  reg2'.op \in Accesses /\ dtlb_vaddr_r' = reg2'.page
  <2>1. dtlb_miss
    BY <1>1, <1>2, Zenon DEF WalkEdge
  <2>2. reg2.op \in Accesses /\ dtlb_needed /\ reg2_hold
    BY <2>1, NeedsAccess, Zenon
  <2>3. reg2'.op = reg2.op /\ reg2'.page = reg2.page
    BY <1>1, <2>2, Zenon DEF StageEdge, Typed, TypeOK
  <2>4. dtlb_vaddr_r' = reg2.page
    BY <1>1, <2>2, Zenon DEF WalkEdge, Orderly, OperandKept
  <2>5. QED
    BY <2>2, <2>3, <2>4, Zenon
<1>3. ASSUME reg2'.op \in Accesses, reg2'.alu # reg2'.page
      PROVE  dtlb_miss_r' /\ reg3' = "nop"
  <2>1. reg2_hold
    BY <1>1, <1>3, Zenon DEF StageEdge, InEx, Nop
  <2>2. ~mem_stall
    <3> SUFFICES ASSUME mem_stall PROVE FALSE
      BY Zenon
    <3>1. reg2' = reg2
      BY <1>1, <2>1, Zenon DEF StageEdge, Typed, TypeOK
    <3>2. reg3 = "nop"
      BY <1>3, <3>1, Zenon DEF Orderly, OperandKept
    <3>3. QED
      BY <3>2, StallOwner, Zenon DEF Orderly, lsu_cyc, lsu_we
  <2>3. dtlb_miss
    BY <2>1, <2>2, Zenon DEF reg2_hold
  <2>4. QED
    BY <1>1, <2>2, <2>3, Zenon DEF StageEdge, WalkEdge
<1>4. QED
  BY <1>2, <1>3, Zenon DEF OperandKept, Accesses

\* The walker keeps its request for as long as it works on it.
LEMMA WalkerMoves ==
    ASSUME Typed, Orderly, Next
    PROVE  /\ ~ptw_busy => IF ptw_start /\ ~ptw.done
                           THEN ptw' = Start(ptw_vaddr, ptw_access, priv_is_u)
                           ELSE ptw'.state = "IDLE" /\ ~ptw'.done
           /\ ptw.state = "WAIT" => IF lsu_ack
                                    THEN ptw' = [ptw EXCEPT !.state = "DECODE", !.pte = bus.data]
                                    ELSE ptw' = ptw
           /\ ptw.state = "DECODE" => ptw' = Decode
           /\ ptw_busy => /\ ptw'.page = ptw.page /\ ptw'.access = ptw.access
                          /\ ptw'.is_u = ptw.is_u
                          /\ ptw'.state = "IDLE" <=> ptw'.done
                          /\ ptw_servicing_d_r' = ptw_servicing_d_r
<1>1. WalkEdge
  BY Zenon DEF Next
<1>2. ptw.state \in {"IDLE", "WAIT", "DECODE"}
  BY Zenon DEF Typed, TypeOK, MmuTypeOK
<1>3. ptw \in [state : {"IDLE", "WAIT", "DECODE"}, level : Levels,
              page : Page, access : {"r", "w", "x"}, is_u : BOOLEAN,
              pte : Pte, done : BOOLEAN, fault : BOOLEAN, ppn : Frame,
              perm : Perms]
  BY Zenon DEF Typed, TypeOK, MmuTypeOK
<1>4. ~ptw_busy => IF ptw_start /\ ~ptw.done
                   THEN ptw' = Start(ptw_vaddr, ptw_access, priv_is_u)
                   ELSE ptw'.state = "IDLE" /\ ~ptw'.done
  BY <1>1, <1>3, Zenon DEF WalkEdge, PtwEdge, ptw_busy
<1>5. ASSUME ptw.state = "WAIT"
      PROVE  IF lsu_ack THEN ptw' = [ptw EXCEPT !.state = "DECODE", !.pte = bus.data]
             ELSE ptw' = ptw
  BY <1>1, <1>5, Busy, Zenon DEF WalkEdge, PtwEdge, ptw_busy
<1>6. ASSUME ptw.state = "DECODE" PROVE ptw' = Decode
  BY <1>1, <1>6, Zenon DEF WalkEdge, PtwEdge
<1>7. ASSUME ptw_busy
      PROVE  /\ ptw'.page = ptw.page /\ ptw'.access = ptw.access
             /\ ptw'.is_u = ptw.is_u
             /\ ptw'.state = "IDLE" <=> ptw'.done
             /\ ptw_servicing_d_r' = ptw_servicing_d_r
  <2>1. ~ptw.done
    BY <1>7, Busy, Zenon
  <2>2. ptw_servicing_d_r' = ptw_servicing_d_r
    BY <1>1, <1>7, Zenon DEF WalkEdge
  <2>3. CASE ptw.state = "WAIT"
    BY <1>3, <1>5, <2>1, <2>2, <2>3, Zenon
  <2>4. CASE ptw.state = "DECODE"
    <3>1. Decode \in {Conclude(f) : f \in BOOLEAN} \cup
                     {[ptw EXCEPT !.state = "WAIT", !.level = @ - 1]}
      BY Zenon DEF Decode
    <3>2. ASSUME NEW f \in BOOLEAN
          PROVE  /\ Conclude(f).page = ptw.page /\ Conclude(f).access = ptw.access
                 /\ Conclude(f).is_u = ptw.is_u /\ Conclude(f).state = "IDLE"
                 /\ Conclude(f).done
      BY <1>3, Zenon DEF Conclude
    <3>3. ptw' = [ptw EXCEPT !.state = "WAIT", !.level = @ - 1]
          \/ \E f \in BOOLEAN : ptw' = Conclude(f)
      BY <1>6, <2>4, <3>1, Zenon
    <3>4. CASE ptw' = [ptw EXCEPT !.state = "WAIT", !.level = @ - 1]
      BY <1>3, <2>1, <2>2, <3>4, Zenon
    <3>5. CASE \E f \in BOOLEAN : ptw' = Conclude(f)
      BY <2>2, <3>2, <3>5, Zenon
    <3>6. QED
      BY <3>3, <3>4, <3>5, Zenon
  <2>5. QED
    BY <1>2, <1>7, <2>3, <2>4, Zenon DEF ptw_busy
<1>8. QED
  BY <1>4, <1>5, <1>6, <1>7, Zenon

\* The TLB does not come to hold a page for which a walk is on.
LEMMA MissKept ==
    ASSUME Typed, Next, ~ptw.done, NEW page \in Page, ~TlbHit(page)
    PROVE  ~TlbHit(page)'
<1>1. tlb' \in {tlb, Flushed}
  BY Zenon DEF Next, WalkEdge, TlbEdge, ptw_fill_valid
<1>2. TlbIndex(page) \in {0, 1}
  <2>1. page \in Nat
    BY Shape DEF Typed
  <2>2. QED
    BY <2>1 DEF TlbIndex
<1>3. CASE tlb' = tlb
  BY <1>3, Zenon DEF TlbHit, TlbIndex
<1>4. CASE tlb' = Flushed
  <2>1. ~tlb'[TlbIndex(page)].valid
    BY <1>2, <1>4, Zenon DEF Flushed, Typed, TypeOK, MmuTypeOK
  <2>2. QED
    BY <2>1, Zenon DEF TlbHit, TlbIndex
<1>5. QED
  BY <1>1, <1>3, <1>4, Zenon

\* A held stage keeps its instruction; a cycle without a redirect keeps the
\* privilege.
LEMMA Held ==
    ASSUME Typed, Next
    PROVE  /\ reg2_hold => reg2'.op = reg2.op /\ reg2'.page = reg2.page
           /\ reg2_hold \/ ~branch_taken => priv_mode' = priv_mode
           /\ pc_stall => pc' = pc
           /\ dtlb_miss /\ ~mem_stall => reg3' = "nop"
           /\ ~reg2_hold /\ itlb_miss => reg2'.op \in {"nop", "ifault"}
           /\ dtlb_miss_r' = dtlb_miss
<1>1. StageEdge /\ WalkEdge
  BY Zenon DEF Next
<1>2. reg2_hold => reg2'.op = reg2.op /\ reg2'.page = reg2.page
  BY <1>1, Zenon DEF StageEdge, Typed, TypeOK
<1>3. reg2_hold \/ ~branch_taken => priv_mode' = priv_mode
  BY Zenon DEF Next, PrivEdge, branch_taken
<1>4. pc_stall => pc' = pc
  BY Zenon DEF Next, FetchEdge
<1>5. QED
  BY <1>1, <1>2, <1>3, <1>4, Zenon DEF StageEdge, WalkEdge, InEx, Nop

(* An edge keeps Requester: the side a walk works for is still waiting for
   that very page, or the walk is marked abandoned. *)
LEMMA RequesterStep ==
    ASSUME Typed, Orderly, Next
    PROVE  Requester'
<1>1. WalkEdge
  BY Zenon DEF Next
<1>2. pc \in Page /\ reg2.page \in Page /\ ptw.page \in Page
  BY Zenon DEF Typed, TypeOK, MmuTypeOK
<1>3. CASE ptw_busy
  <2>1. /\ ~TlbHit(ptw.page) /\ (ptw_abandoned_r \/ Awaited)
        /\ ptw_abandoned_r => ~ptw_servicing_d_r
    BY <1>3, Zenon DEF Orderly, Requester, Walking
  <2>2. ~ptw.done
    BY <1>3, Busy, Zenon
  <2>3. /\ ptw'.page = ptw.page /\ ptw'.access = ptw.access /\ ptw'.is_u = ptw.is_u
        /\ ptw'.state = "IDLE" <=> ptw'.done
        /\ ptw_servicing_d_r' = ptw_servicing_d_r
    BY <1>3, WalkerMoves, Zenon
  <2>4. ~TlbHit(ptw.page)'
    BY <1>2, <2>1, <2>2, <2>3, MissKept, Zenon
  <2>5. Walking' /\ (ptw.done => ~ptw_busy)'
    BY <2>3, Zenon DEF Walking, ptw_busy
  <2>6. CASE ptw_abandoned_r \/ branch_taken
    <3>1. ptw_abandoned_r' /\ ~ptw_servicing_d_r
      BY <1>1, <1>3, <2>1, <2>2, <2>6, Waiting, Zenon DEF WalkEdge
    <3>2. QED
      BY <2>3, <2>4, <2>5, <3>1, Zenon DEF Requester
  <2>7. CASE ~ptw_abandoned_r /\ ~branch_taken
    <3>1. /\ Awaited /\ pc_stall
          /\ ptw_servicing_d_r => dtlb_miss /\ ~mem_stall
          /\ ~ptw_servicing_d_r => itlb_miss /\ ~dtlb_miss
      BY <1>3, <2>1, <2>7, Waiting, Zenon
    <3>2. ~ptw_abandoned_r'
      BY <1>1, <2>7, Zenon DEF WalkEdge
    <3>3. priv_mode' = priv_mode /\ pc' = pc
      BY <2>7, <3>1, Held, Zenon
    <3>4. translate_enable' /\ (ptw.is_u = priv_is_u)'
      BY <2>3, <3>1, <3>3, Zenon DEF Awaited, translate_enable, priv_is_u
    <3>5. CASE ptw_servicing_d_r
      <4>1. dtlb_miss /\ ~mem_stall /\ reg2_hold
        BY <3>1, <3>5, NeedsAccess, Zenon
      <4>2. reg2'.op = reg2.op /\ reg2'.page = reg2.page /\ reg3' = "nop"
            /\ dtlb_miss_r'
        BY <4>1, Held, Zenon
      <4>3. (ptw.access = access_regde)'
        BY <2>3, <3>1, <3>5, <4>2, Zenon DEF Awaited, access_regde, memWrite_regde
      <4>4. Awaited'
        BY <2>3, <3>1, <3>4, <3>5, <4>2, <4>3, Zenon DEF Awaited, Accesses
      <4>5. QED
        BY <2>4, <2>5, <3>2, <4>4, Zenon DEF Requester
    <3>6. CASE ~ptw_servicing_d_r
      <4>1. reg2'.op = reg2.op \/ reg2'.op \in {"nop", "ifault"}
        BY <3>1, <3>6, Held, Zenon
      <4>2. reg2'.op \in {"nop", "fence", "sfence", "ifault"}
            /\ ~sfence_priv_violation'
        BY <3>1, <3>3, <3>6, <4>1, Zenon
           DEF Awaited, sfence_priv_violation, priv_is_u
      <4>3. Awaited'
        BY <2>3, <3>1, <3>3, <3>4, <3>6, <4>2, Zenon DEF Awaited
      <4>4. QED
        BY <2>4, <2>5, <3>2, <4>3, Zenon DEF Requester
    <3>7. QED
      BY <3>5, <3>6, Zenon
  <2>8. QED
    BY <2>6, <2>7, Zenon
<1>4. CASE ~ptw_busy /\ ptw_start /\ ~ptw.done
  <2>1. /\ ~branch_taken /\ pc_stall
        /\ ptw_req_d => /\ dtlb_miss /\ ~mem_stall /\ reg2.op \in Accesses
                        /\ ptw_vaddr = reg2.page /\ ptw_access = access_regde
        /\ ~ptw_req_d => /\ itlb_miss /\ ~dtlb_miss
                         /\ ptw_vaddr = pc /\ ptw_access = "x"
                         /\ reg2_hold => reg2.op \in {"nop", "fence", "sfence"}
    BY <1>4, Starting, Zenon
  <2>2. ptw' = Start(ptw_vaddr, ptw_access, priv_is_u)
    BY <1>4, WalkerMoves, Zenon
  <2>3. /\ ptw'.page = ptw_vaddr /\ ptw'.access = ptw_access
        /\ ptw'.is_u = priv_is_u /\ ~ptw'.done
    BY <2>2, Zenon DEF Start, Typed, TypeOK, MmuTypeOK
  <2>4. ptw_servicing_d_r' = ptw_req_d
    BY <1>1, <1>4, Zenon DEF WalkEdge
  <2>5. ~ptw_abandoned_r'
    BY <1>1, <1>4, Zenon DEF WalkEdge, Orderly, Requester, Walking
  <2>6. priv_mode' = priv_mode /\ pc' = pc
    BY <2>1, Held, Zenon
  <2>7. CASE ptw_req_d
    <3>1. dtlb_vaddr = reg2.page
      BY <2>1, <2>7, AccessPage, Zenon DEF Orderly
    <3>2. dtlb_miss /\ ~mem_stall /\ reg2_hold /\ translate_enable /\ ~TlbHit(reg2.page)
      BY <2>1, <2>7, <3>1, NeedsAccess, Zenon
    <3>3. reg2'.op = reg2.op /\ reg2'.page = reg2.page /\ reg3' = "nop" /\ dtlb_miss_r'
      BY <3>2, Held, Zenon
    <3>4. ~TlbHit(ptw.page)'
      BY <1>2, <1>4, <2>1, <2>3, <2>7, <3>2, MissKept, Zenon
    <3>5. (ptw.access = access_regde)'
      BY <2>1, <2>3, <2>7, <3>3, Zenon DEF access_regde, memWrite_regde
    <3>6. translate_enable' /\ (ptw.is_u = priv_is_u)'
      BY <2>3, <2>6, <3>2, Zenon DEF translate_enable, priv_is_u
    <3>7. Awaited'
      BY <2>1, <2>3, <2>4, <2>7, <3>3, <3>5, <3>6, Zenon DEF Awaited, Accesses
    <3>8. QED
      BY <2>3, <2>5, <3>4, <3>7, Zenon DEF Requester
  <2>8. CASE ~ptw_req_d
    <3>1. translate_enable /\ ~TlbHit(pc)
      BY <2>1, <2>8, NeedsAccess, Zenon
    <3>2. ~TlbHit(ptw.page)'
      <4>1. ~TlbHit(pc)' /\ ptw'.page = pc'
        BY <1>2, <1>4, <2>1, <2>3, <2>6, <2>8, <3>1, MissKept, Zenon
      <4>2. QED
        BY <4>1, Zenon
    <3>3. translate_enable' /\ (ptw.is_u = priv_is_u)'
      BY <2>3, <2>6, <3>1, Zenon DEF translate_enable, priv_is_u
    <3>4. reg2'.op \in {"nop", "fence", "sfence", "ifault"}
          /\ (reg2'.op = reg2.op \/ reg2'.op # "sfence")
      BY <2>1, <2>8, Held, Zenon
    <3>5. ~sfence_priv_violation'
      <4>1. ~sfence_priv_violation
        BY <2>1, Zenon DEF branch_taken, exception_taken
      <4>2. QED
        BY <2>6, <3>4, <4>1, Zenon DEF sfence_priv_violation, priv_is_u
    <3>6. Awaited'
      BY <2>1, <2>3, <2>4, <2>6, <2>8, <3>3, <3>4, <3>5, Zenon DEF Awaited
    <3>7. QED
      BY <2>3, <2>5, <3>2, <3>6, Zenon DEF Requester
  <2>9. QED
    BY <2>7, <2>8, Zenon
<1>5. CASE ~ptw_busy /\ ~(ptw_start /\ ~ptw.done)
  <2>1. ptw'.state = "IDLE" /\ ~ptw'.done
    BY <1>5, WalkerMoves, Zenon
  <2>2. ~ptw_abandoned_r'
    BY <1>1, <1>5, Zenon DEF WalkEdge, Orderly, Requester, Walking
  <2>3. QED
    BY <2>1, <2>2, Zenon DEF Requester, Walking, ptw_busy
<1>6. QED
  BY <1>3, <1>4, <1>5, Zenon

(* An edge keeps BusOwned: a walk shares the bus with no access and no
   refill. *)
LEMMA BusOwnedStep ==
    ASSUME Typed, Orderly, Next, ~build.Overlap
    PROVE  BusOwned'
<1>1. PICK hit : CacheEdge(hit)
  BY Zenon DEF Next
<1>2. StageEdge /\ build' = build /\ ~Overlaps'
  BY Zenon DEF Next
<1>3. dcache \in {"idle", "fill", "ready", "flush", "flushed"}
  BY Zenon DEF Typed, TypeOK
<1>4. CASE ptw_busy
  <2>1. dcache' \notin {"fill", "flush"}
    <3>1. ~flush_all /\ ~dcache_req /\ dcache \notin {"fill", "flush"}
      BY <1>4, Zenon DEF flush_all, dcache_req, Orderly, BusOwned
    <3>2. QED
      BY <1>1, <1>3, <3>1, Zenon DEF CacheEdge
  <2>2. ~build.Cached /\ ~ptw_abandoned_r' => ~lsu_cyc'
    <3> SUFFICES ASSUME ~build.Cached, ~ptw_abandoned_r' PROVE ~lsu_cyc'
      BY Zenon
    <3>1. ~ptw_abandoned_r
      BY <1>4, Busy, Zenon DEF Next, WalkEdge
    <3>2. ~lsu_cyc
      BY <1>4, <3>1, Zenon DEF Orderly, BusOwned
    <3>3. ptw_servicing_d_r => dtlb_miss
      BY <1>4, <3>1, Waiting, Zenon
    <3>4. ~ptw_servicing_d_r => reg2.op \notin Accesses
      BY <1>4, <3>1, Zenon DEF Orderly, Requester, Walking, Awaited, Accesses
    <3>5. reg3' \in {reg3, "nop", "fence"}
      BY <1>2, <3>3, <3>4, Zenon DEF StageEdge
    <3>6. QED
      BY <3>2, <3>5, Zenon DEF lsu_cyc, lsu_we
  <2>3. QED
    BY <1>2, <2>1, <2>2, Zenon DEF BusOwned
<1>5. CASE ~ptw_busy /\ ptw_start /\ ~ptw.done
  <2>1. /\ ~lsu_cyc /\ dcache # "flush" /\ ~flush_all
        /\ ~build.Cached => reg2_hold \/ reg2.op \notin Accesses
    BY <1>5, Starting, Zenon
  <2>2. dcache' \notin {"fill", "flush"}
    BY <1>1, <1>3, <2>1, Zenon DEF CacheEdge, dcache_req
  <2>3. ~build.Cached => ~lsu_cyc'
    <3>1. ~build.Cached => reg3' \in {reg3, "nop", "fence"}
      BY <1>2, <2>1, Zenon DEF StageEdge, reg2_hold
    <3>2. QED
      BY <2>1, <3>1, Zenon DEF lsu_cyc, lsu_we
  <2>4. QED
    BY <1>2, <2>2, <2>3, Zenon DEF BusOwned
<1>6. CASE ~ptw_busy /\ ~(ptw_start /\ ~ptw.done)
  <2>1. ~ptw_busy'
    BY <1>6, WalkerMoves, Zenon DEF ptw_busy
  <2>2. QED
    BY <1>2, <2>1, Zenon DEF BusOwned
<1>7. QED
  BY <1>4, <1>5, <1>6, Zenon

\* What the walker reads next is the next entry of the path.
LEMMA NextEntry ==
    ASSUME Typed, OnPath, ptw.state = "WAIT"
    PROVE  ptw_m_pte = Reached(ptw.page)[ptw.level]
<1>1. build \in Builds /\ ptw.page \in Page /\ ptw.level \in Levels
  BY Zenon DEF Typed, TypeOK, MmuTypeOK
<1>2. CASE ptw.level = build.Levels - 1
  BY <1>1, <1>2, ReachedUnfolds, Zenon DEF ptw_m_pte, Top
<1>3. CASE ptw.level # build.Levels - 1
  BY <1>1, <1>3, ReachedUnfolds, Zenon DEF ptw_m_pte, Below, OnPath
<1>4. QED
  BY <1>2, <1>3, Zenon

\* The walker's verdict is the tables'.
LEMMA DecodeRight ==
    ASSUME Typed, OnPath, ptw.state = "DECODE", ~ptw.done
    PROVE  \/ /\ Decode = [ptw EXCEPT !.state = "WAIT", !.level = @ - 1]
              /\ ptw.level # 0 /\ ptw.pte.v /\ ~Leaf(ptw.pte)
           \/ /\ Decode.state = "IDLE"
              /\ Decode.fault <=> ~Grants(ptw.page, ptw.access, ptw.is_u)
              /\ ~Decode.fault => /\ Decode.ppn = MappedPpn(ptw.page)
                                  /\ Decode.perm = MappedPerm(ptw.page)
<1>1. ptw \in [state : {"IDLE", "WAIT", "DECODE"}, level : Levels,
              page : Page, access : {"r", "w", "x"}, is_u : BOOLEAN,
              pte : Pte, done : BOOLEAN, fault : BOOLEAN, ppn : Frame,
              perm : Perms]
  BY Zenon DEF Typed, TypeOK, MmuTypeOK
<1>2. build \in Builds
  BY Zenon DEF Typed
<1>3. Above(ptw.page, ptw.level) /\ ptw.pte = Reached(ptw.page)[ptw.level]
  BY Zenon DEF OnPath, ptw_busy
<1>4. ASSUME NEW fault \in BOOLEAN
      PROVE  /\ Conclude(fault).state = "IDLE" /\ Conclude(fault).fault = fault
             /\ ~fault => /\ Conclude(fault).ppn = PpnOf(ptw.pte, ptw.level, ptw.page)
                          /\ Conclude(fault).perm = ptw.pte.perm
  BY <1>1, Zenon DEF Conclude
<1>5. CASE ~ptw.pte.v \/ Leaf(ptw.pte) \/ ptw.level = 0
  <2> DEFINE good == /\ ptw.pte.v /\ Leaf(ptw.pte) /\ ptw.pte.ppn % (2 ^ ptw.level) = 0
                     /\ Permits(ptw.pte.perm, ptw.access, ptw.is_u)
  <2>1. ptw.page \in Page /\ ptw.level \in Levels
    BY <1>1, Zenon
  <2>2. /\ Mapped(ptw.page) <=> ptw.pte.v /\ Leaf(ptw.pte)
                                  /\ ptw.pte.ppn % (2 ^ ptw.level) = 0
        /\ MappedPpn(ptw.page) = PpnOf(ptw.pte, ptw.level, ptw.page)
        /\ MappedPerm(ptw.page) = ptw.pte.perm
    BY <1>2, <1>3, <1>5, <2>1, Verdict, Zenon
  <2>3. Grants(ptw.page, ptw.access, ptw.is_u) <=> good
    BY ONLY <2>2, Zenon DEF Grants
  <2>4. MappedPpn(ptw.page) = PpnOf(ptw.pte, ptw.level, ptw.page)
        /\ MappedPerm(ptw.page) = ptw.pte.perm
    BY ONLY <2>2, Zenon
  <2>5. ptw.pte.v \in BOOLEAN
    BY <1>1, Zenon DEF Pte
  <2>6. Decode = Conclude(~good)
    BY <1>5, <2>5, Zenon DEF Decode
  <2> HIDE DEF good
  <2>7. QED
    BY <1>4, <2>3, <2>4, <2>6, Zenon
<1>6. CASE ptw.pte.v /\ ~Leaf(ptw.pte) /\ ptw.level # 0
  BY <1>6, Zenon DEF Decode
<1>7. QED
  BY <1>5, <1>6, Zenon

(* An edge keeps OnPath: the walker is at the entry that the tables have for
   its page at its level. *)
LEMMA OnPathStep ==
    ASSUME Typed, Orderly, Next
    PROVE  OnPath'
<1>1. BusEdge /\ build' = build
  BY Zenon DEF Next
<1>2. build \in Builds /\ ptw.level \in Levels /\ ptw.page \in Page
      /\ ptw.state \in {"IDLE", "WAIT", "DECODE"}
  BY Zenon DEF Typed, TypeOK, MmuTypeOK
<1>3. ptw \in [state : {"IDLE", "WAIT", "DECODE"}, level : Levels,
              page : Page, access : {"r", "w", "x"}, is_u : BOOLEAN,
              pte : Pte, done : BOOLEAN, fault : BOOLEAN, ppn : Frame,
              perm : Perms]
  BY Zenon DEF Typed, TypeOK, MmuTypeOK
<1>4. OnPath
  BY Zenon DEF Orderly
<1>5. ASSUME ptw_busy
      PROVE  /\ table' = table /\ ~ptw.done
             /\ bus'.pending = (ptw.state = "WAIT")
             /\ bus'.pending => bus'.data = ptw_m_pte
  <2>1. ~wb_m_we /\ ~ptw.done
    BY <1>5, Busy, Zenon
  <2>2. QED
    BY <1>1, <1>5, <2>1, Zenon DEF BusEdge, wb_m_read, ptw_m_cyc
<1>6. ASSUME table' = table, NEW page, NEW level
      PROVE  Above(page, level)' <=> Above(page, level)
  BY <1>1, <1>6, TablesKept, Zenon DEF Above
<1>7. CASE ptw.state = "WAIT" /\ ~lsu_ack
  <2>1. ptw' = ptw
    BY <1>7, WalkerMoves, Zenon
  <2>2. ptw_busy /\ table' = table /\ ~ptw.done /\ bus'.data = ptw_m_pte
    BY <1>5, <1>7, Zenon DEF ptw_busy
  <2>3. ptw_m_pte' = ptw_m_pte
    BY <1>1, <2>1, <2>2, Zenon DEF ptw_m_pte
  <2>4. Above(ptw.page, ptw.level)'
    BY <1>4, <1>6, <2>1, <2>2, Zenon DEF OnPath
  <2>5. (ptw.level # build.Levels - 1 => ptw.pte = Reached(ptw.page)[ptw.level + 1])'
    BY <1>1, <1>4, <1>7, <2>1, <2>2, TablesKept, Zenon DEF OnPath
  <2>6. QED
    BY <1>7, <2>1, <2>2, <2>3, <2>4, <2>5, Zenon DEF OnPath
<1>8. CASE ptw.state = "WAIT" /\ lsu_ack
  <2>1. ptw' = [ptw EXCEPT !.state = "DECODE", !.pte = bus.data]
    BY <1>8, WalkerMoves, Zenon
  <2>2. ptw_busy /\ table' = table /\ ~ptw.done
    BY <1>5, <1>8, Zenon DEF ptw_busy
  <2>3. bus.data = Reached(ptw.page)[ptw.level]
    BY <1>4, <1>8, <2>2, NextEntry, Busy, Zenon DEF OnPath
  <2>4. /\ ptw'.state = "DECODE" /\ ptw'.pte = bus.data /\ ptw'.page = ptw.page
        /\ ptw'.level = ptw.level /\ ~ptw'.done
    BY <1>3, <2>1, <2>2, Zenon
  <2>5. Above(ptw.page, ptw.level)'
    BY <1>4, <1>6, <2>2, <2>4, Zenon DEF OnPath
  <2>6. (ptw.pte = Reached(ptw.page)[ptw.level])'
    BY <1>1, <2>2, <2>3, <2>4, TablesKept, Zenon
  <2>7. QED
    BY <2>4, <2>5, <2>6, Zenon DEF OnPath
<1>9. CASE ptw.state = "DECODE"
  <2>1. ptw' = Decode
    BY <1>9, WalkerMoves, Zenon
  <2>2. ptw_busy /\ table' = table /\ ~ptw.done /\ ~bus'.pending
    BY <1>5, <1>9, Zenon DEF ptw_busy
  <2>3. CASE /\ Decode = [ptw EXCEPT !.state = "WAIT", !.level = @ - 1]
             /\ ptw.level # 0 /\ ptw.pte.v /\ ~Leaf(ptw.pte)
    <3>1. /\ ptw'.state = "WAIT" /\ ptw'.level = ptw.level - 1 /\ ptw'.page = ptw.page
          /\ ptw'.pte = ptw.pte /\ ~ptw'.done
      BY <1>3, <2>1, <2>2, <2>3, Zenon
    <3>2. ptw.level \in Nat /\ Levels \subseteq Nat
      BY <1>2, Shape
    <3>3. ptw.pte = Reached(ptw.page)[ptw.level] /\ Above(ptw.page, ptw.level)
      BY <1>4, <1>9, <2>2, Zenon DEF OnPath
    <3>4. Above(ptw.page, ptw.level - 1)
      BY <2>3, <3>2, <3>3 DEF Above
    <3>5. Above(ptw.page, ptw.level)'
      BY <1>6, <2>2, <3>1, <3>4, Zenon
    <3>6. (ptw.pte = Reached(ptw.page)[ptw.level + 1])'
      <4>1. ptw'.level + 1 = ptw.level
        BY <3>1, <3>2
      <4>2. QED
        BY <1>1, <2>2, <3>1, <3>3, <4>1, TablesKept, Zenon
    <3>7. QED
      BY <2>2, <3>1, <3>5, <3>6, Zenon DEF OnPath
  <2>4. CASE /\ Decode.state = "IDLE"
             /\ Decode.fault <=> ~Grants(ptw.page, ptw.access, ptw.is_u)
             /\ ~Decode.fault => /\ Decode.ppn = MappedPpn(ptw.page)
                                 /\ Decode.perm = MappedPerm(ptw.page)
    <3>1. ptw'.page = ptw.page /\ ptw'.access = ptw.access /\ ptw'.is_u = ptw.is_u
      BY <2>2, WalkerMoves, Zenon
    <3>2. Grants(ptw.page, ptw.access, ptw.is_u)'
          <=> Grants(ptw.page, ptw.access, ptw.is_u)
      BY <1>1, <2>2, <3>1, TablesKept, Zenon DEF Grants, Permits
    <3>3. MappedPpn(ptw.page)' = MappedPpn(ptw.page)
          /\ MappedPerm(ptw.page)' = MappedPerm(ptw.page)
      BY <1>1, <2>2, <3>1, TablesKept, Zenon
    <3>4. QED
      BY <2>1, <2>4, <3>2, <3>3, Zenon DEF OnPath, ptw_busy
  <2>5. QED
    BY <1>4, <1>9, <2>2, <2>3, <2>4, DecodeRight, Zenon
<1>10. CASE ~ptw_busy /\ ptw_start /\ ~ptw.done
  <2>1. ptw' = Start(ptw_vaddr, ptw_access, priv_is_u) /\ ~wb_m_read
    BY <1>10, WalkerMoves, Starting, Zenon
  <2>2. ptw'.state = "WAIT" /\ ptw'.level = build.Levels - 1 /\ ~ptw'.done
    BY <1>3, <2>1, Zenon DEF Start
  <2>3. ~bus'.pending
    BY <1>1, <2>1, Zenon DEF BusEdge
  <2>4. Above(ptw.page, ptw.level)'
    <3>1. Levels' = 0 .. build.Levels - 1 /\ build.Levels \in Nat
      BY <1>1, <1>2, Shape DEF Levels
    <3>2. QED
      BY <2>2, <3>1 DEF Above
  <2>5. QED
    BY <1>1, <2>2, <2>3, <2>4, Zenon DEF OnPath
<1>11. CASE ~ptw_busy /\ ~(ptw_start /\ ~ptw.done)
  <2>1. ptw'.state = "IDLE" /\ ~ptw'.done
    BY <1>11, WalkerMoves, Zenon
  <2>2. QED
    BY <2>1, Zenon DEF OnPath, ptw_busy
<1>12. QED
  BY <1>2, <1>7, <1>8, <1>9, <1>10, <1>11, Zenon DEF ptw_busy

(* An edge keeps TlbFaithful, fills, flushes and remappings included. *)
LEMMA TlbFaithfulStep ==
    ASSUME Typed, Orderly, Next, ~Misfiled
    PROVE  TlbFaithful'
<1> SUFFICES ASSUME synced', NEW e \in {0, 1}, tlb'[e].valid
             PROVE  (/\ Mapped(tlb[e].tag)
                     /\ tlb[e].ppn = MappedPpn(tlb[e].tag)
                     /\ tlb[e].perm = MappedPerm(tlb[e].tag))'
  BY Zenon DEF TlbFaithful
<1>1. WalkEdge /\ BusEdge /\ build' = build
  BY Zenon DEF Next
<1>2. tlb \in [{0, 1} -> [valid : BOOLEAN, tag : Page, ppn : Frame, perm : Perms]]
  BY Zenon DEF Typed, TypeOK, MmuTypeOK
<1>3. ~tlb_flush
  <2> SUFFICES ASSUME tlb_flush PROVE FALSE
    BY Zenon
  <2>1. tlb' = Flushed
    BY <1>1, Zenon DEF WalkEdge, TlbEdge
  <2>2. QED
    BY <1>2, <2>1, Zenon DEF Flushed
<1>4. synced /\ table' = table
  BY <1>1, <1>3, Zenon DEF BusEdge
<1>5. CASE tlb'[e] = tlb[e]
  <2>1. /\ Mapped(tlb[e].tag)
        /\ tlb[e].ppn = MappedPpn(tlb[e].tag)
        /\ tlb[e].perm = MappedPerm(tlb[e].tag)
    BY <1>4, <1>5, Zenon DEF Orderly, TlbFaithful
  <2>2. QED
    BY <1>1, <1>4, <1>5, <2>1, TablesKept, Zenon
<1>6. CASE tlb'[e] # tlb[e]
  <2>1. ptw_fill_valid /\ tlb' = Filled(ptw_fill_vaddr)
    BY <1>1, <1>3, <1>6, Zenon DEF WalkEdge, TlbEdge
  <2>2. ptw.done /\ ~ptw.fault
    BY <2>1, Zenon DEF ptw_fill_valid
  <2>3. /\ Mapped(ptw.page) /\ ptw.ppn = MappedPpn(ptw.page)
        /\ ptw.perm = MappedPerm(ptw.page)
    BY <2>2, Zenon DEF Orderly, OnPath, Grants
  <2>4. ptw_fill_vaddr = ptw.page
    BY <2>2, AccessPage, Zenon
       DEF Orderly, Requester, Walking, Awaited, Misfiled, ptw_fill_vaddr
  <2>5. tlb'[e] = [valid |-> TRUE, tag |-> ptw.page, ppn |-> ptw.ppn, perm |-> ptw.perm]
    BY <1>2, <1>6, <2>1, <2>4, Zenon DEF Filled
  <2>6. QED
    BY <1>1, <1>4, <2>3, <2>5, TablesKept
<1>7. QED
  BY <1>5, <1>6, Zenon

(* A step that changes nothing keeps the types and the invariant. *)
LEMMA TypedStutters ==
    ASSUME Typed, UNCHANGED vars PROVE Typed'
<1> USE DEF vars, regs, fence_regs, mmu_regs
<1>1. Levels' = Levels /\ Page' = Page /\ Frame' = Frame /\ Pte' = Pte
  BY Zenon DEF Levels, Page, Frame, Pte
<1>2. MmuTypeOK'
  BY <1>1, Zenon DEF Typed, TypeOK, MmuTypeOK
<1>3. TypeOK'
  BY <1>1, <1>2, Zenon DEF Typed, TypeOK
<1>4. QED
  BY <1>3, Zenon DEF Typed

LEMMA Stuttering ==
    ASSUME IInv, UNCHANGED vars PROVE IInv'
<1>1. Levels' = Levels /\ Page' = Page /\ Frame' = Frame /\ Pte' = Pte
  BY Zenon DEF Levels, Page, Frame, Pte, vars
<1>2. Typed'
  BY TypedStutters, Zenon DEF IInv
<1> USE DEF vars, regs, fence_regs, mmu_regs
<1>3. ASSUME ~build.Overlap PROVE Orderly'
  <2>1. Orderly
    BY <1>3, Zenon DEF IInv
  <2>2. \A page : /\ Mapped(page)' <=> Mapped(page)
                  /\ MappedPpn(page)' = MappedPpn(page)
                  /\ MappedPerm(page)' = MappedPerm(page)
                  /\ Reached(page)' = Reached(page)
    BY TablesKept, Zenon
  <2>3. FenceOrder' /\ OperandKept'
    BY <2>1, Zenon DEF Orderly, FenceOrder, OperandKept, lsu_cyc, lsu_we
  <2>4. TlbFaithful'
    BY <2>1, <2>2, Zenon DEF Orderly, TlbFaithful
  <2>5. Requester'
    BY <2>1, Zenon
       DEF Orderly, Requester, Walking, Awaited, ptw_busy, translate_enable, priv_is_u,
       TlbHit, TlbIndex, access_regde, memWrite_regde, sfence_priv_violation
  <2>6. OnPath'
    BY <1>1, <2>1, <2>2, Zenon
       DEF Orderly, OnPath, ptw_busy, Above, Grants, ptw_m_pte
  <2>7. BusOwned'
    <3>1. Overlaps' <=> Overlaps
      BY Zenon
         DEF Overlaps, ptw_start, ptw_busy, ptw_req_d, ptw_req_i, dtlb_miss,
             itlb_miss,
         dtlb_needed, TlbHit, TlbIndex, dtlb_vaddr, branch_taken, exception_taken,
         dtlb_page_fault, dtlb_hit_fault, TlbEntry, ptw_done_d, ptw_done_i,
         sfence_priv_violation, priv_is_u, translate_enable, access_regde,
         memRead_regde, memWrite_regde, lsu_cyc, lsu_we, dcache_flush_busy, reg2_hold,
         mem_stall, mem_trigger, flush_all, lsu_ack, dcache_m_cyc, wb_m_we, wb_m_read,
         ptw_m_cyc
    <3>2. QED
      BY <2>1, <3>1, Zenon DEF Orderly, BusOwned, ptw_busy, lsu_cyc, lsu_we
  <2>8. QED
    BY <2>3, <2>4, <2>5, <2>6, <2>7, Zenon DEF Orderly
<1>4. QED
  BY <1>2, <1>3, Zenon DEF IInv

(* Types are kept in every build and whatever becomes of abandoned walks. *)
THEOREM TypesKept == Spec => []Typed
<1>1. Init => Typed
  BY Initially, Zenon DEF IInv
<1>2. Typed /\ [Next]_vars => Typed'
  BY TypedStep, TypedStutters, Zenon
<1>3. QED
  BY <1>1, <1>2, PTL DEF Spec

(* The inductive invariant holds in every reachable state, as long as no
   abandoned walk is misfiled: the types always, and the orderly use of
   walker, bus and TLBs in every build whose walks never overlap an access of
   the data port (riscvpipeline.v:2888-2944). *)
THEOREM Invariant == Spec /\ []~Misfiled => []IInv
<1>1. ASSUME IInv, Next, ~Misfiled PROVE IInv'
  <2>1. Typed'
    BY <1>1, TypedStep, Zenon DEF IInv
  <2>2. ASSUME ~build.Overlap PROVE Orderly'
    <3>1. Typed /\ Orderly
      BY <1>1, <2>2, Zenon DEF IInv
    <3>2. QED
      BY <1>1, <2>2, <3>1, FenceOrderStep, OperandKeptStep, RequesterStep,
         BusOwnedStep, OnPathStep, TlbFaithfulStep, Zenon DEF Orderly
  <2>3. build' = build
    BY <1>1, Zenon DEF Next
  <2>4. QED
    BY <2>1, <2>2, <2>3, Zenon DEF IInv
<1>2. IInv /\ ~Misfiled /\ [Next]_vars => IInv'
  BY <1>1, Stuttering, Zenon
<1>3. QED
  BY <1>2, Initially, PTL DEF Spec

(***************************************************************************)
(* The theorems.                                                           *)
(***************************************************************************)
\* Registers keep their widths, in every build.
THEOREM TypeCorrect == Spec => []TypeOK
<1>1. Typed => TypeOK
  BY Zenon DEF Typed
<1>2. QED
  BY <1>1, TypesKept, PTL

\* The bus multiplexer of riscvpipeline.v needs no arbiter between the walker
\* and the data cache, and without a cache none between the walker and the
\* LSU as long as the walk is not abandoned.
THEOREM OneBusOwner ==
  Spec /\ []~Misfiled =>
    [](~build.Overlap /\ (build.Cached \/ ~ptw_abandoned_r) => BusExclusive)
<1>1. IInv => (~build.Overlap /\ (build.Cached \/ ~ptw_abandoned_r) => BusExclusive)
  BY Zenon
     DEF IInv, Orderly, BusOwned, BusExclusive, ptw_m_cyc, ptw_busy,
         dcache_m_cyc
<1>2. QED
  BY <1>1, Invariant, PTL

\* A walk that is not marked abandoned still has the requester it was started
\* for, at the page it was started for.
THEOREM WalksAwaited == Spec /\ []~Misfiled => [](~build.Overlap => WalkAwaited)
<1>1. ASSUME IInv, ~build.Overlap, ptw_busy \/ ptw.done, ~ptw_abandoned_r
      PROVE  /\ translate_enable /\ ptw.is_u = priv_is_u
             /\ IF ptw_servicing_d_r
                THEN /\ dtlb_needed /\ ptw.page = dtlb_vaddr
                     /\ ptw.access = access_regde
                ELSE ptw.page = pc /\ ptw.access = "x"
  <2>1. Typed /\ Orderly /\ Awaited
    BY <1>1, Zenon DEF IInv, Orderly, Requester, Walking
  <2>2. QED
    BY <2>1, NeedsAccess, AccessPage, Zenon DEF Awaited, Orderly
<1>2. IInv => (~build.Overlap => WalkAwaited)
  BY <1>1, Zenon DEF WalkAwaited
<1>3. QED
  BY <1>2, Invariant, PTL

\* No walk leaves a stale entry in the TLB behind an sfence.vma.
THEOREM TlbTellsTruth == Spec /\ []~Misfiled => [](~build.Overlap => TlbFaithful)
<1>1. IInv => (~build.Overlap => TlbFaithful)
  BY Zenon DEF IInv, Orderly
<1>2. QED
  BY <1>1, Invariant, PTL

\* What a hit in the TLB or a walk that faulted says is what iss.py says.
LEMMA HitRight ==
    ASSUME Typed, Orderly, synced, translate_enable, NEW page \in Page,
           TlbHit(page), NEW access
    PROVE  IssPage(page, access, priv_mode) =
             IF Permits(TlbEntry(page).perm, access, priv_is_u)
             THEN [fault |-> FALSE, ppn |-> TlbEntry(page).ppn]
             ELSE [fault |-> TRUE, ppn |-> 0]
<1>1. TlbIndex(page) \in {0, 1}
  <2>1. page \in Nat
    BY Shape DEF Typed
  <2>2. QED
    BY <2>1 DEF TlbIndex
<1>2. /\ Mapped(page) /\ TlbEntry(page).ppn = MappedPpn(page)
      /\ TlbEntry(page).perm = MappedPerm(page)
  BY <1>1, Zenon DEF Orderly, TlbFaithful, TlbHit, TlbEntry
<1>3. priv_mode \in {"S", "U"}
  BY Zenon DEF translate_enable, Typed, TypeOK
<1>4. IssPage(page, access, priv_mode) =
         IF Grants(page, access, priv_mode = "U")
         THEN [fault |-> FALSE, ppn |-> MappedPpn(page)]
         ELSE [fault |-> TRUE, ppn |-> 0]
  BY <1>3, SimulatorAgrees, Zenon DEF Typed
<1>5. QED
  BY <1>2, <1>4, Zenon DEF Grants, priv_is_u

(* A walk that ends with a fault is for a page that iss.py faults on too. *)
LEMMA FaultRight ==
    ASSUME Typed, Orderly, ptw.done, ptw.fault, ~ptw_abandoned_r
    PROVE  IssPage(ptw.page, ptw.access, priv_mode).fault
<1>1. translate_enable /\ ptw.is_u = priv_is_u
      /\ ~Grants(ptw.page, ptw.access, ptw.is_u)
  BY Zenon DEF Orderly, Requester, Walking, Awaited, OnPath
<1>2. priv_mode \in {"S", "U"} /\ ptw.page \in Page
  BY <1>1, Zenon DEF translate_enable, Typed, TypeOK, MmuTypeOK
<1>3. IssPage(ptw.page, ptw.access, priv_mode) =
         IF Grants(ptw.page, ptw.access, priv_mode = "U")
         THEN [fault |-> FALSE, ppn |-> MappedPpn(ptw.page)]
         ELSE [fault |-> TRUE, ppn |-> 0]
  BY <1>2, SimulatorAgrees, Zenon DEF Typed
<1>4. QED
  BY <1>1, <1>3 DEF priv_is_u

\* An instruction is fetched from the frame that iss.py's translate computes,
\* and is marked as faulting exactly when translate faults, also in the
\* handler of a fault while the abandoned walk behind it is still on.
THEOREM FetchesRight == Spec /\ []~Misfiled => [](~build.Overlap => FetchRight)
<1>1. ASSUME IInv, ~Misfiled, ~build.Overlap, synced, ~pc_stall, ~branch_taken
      PROVE  LET iss == IssPage(pc, "x", priv_mode)
             IN  IF ifetch_fault_if THEN iss.fault
                 ELSE ~iss.fault /\ imem_phys_addr = iss.ppn
  <2>1. Typed /\ Orderly /\ pc \in Page
    BY <1>1, Zenon DEF IInv, Typed, TypeOK
  <2>2. ~itlb_miss /\ (ptw_abandoned_r /\ ptw.done /\ ptw.fault => ~translate_enable)
    BY <1>1, Zenon DEF Misfiled, pc_stall
  <2>3. CASE ~translate_enable
    <3>1. ~ifetch_fault_if /\ imem_phys_addr = pc
      BY <2>1, <2>3, Zenon
         DEF ifetch_fault_if, itlb_hit_fault, ptw_done_i, imem_phys_addr,
             Orderly, Requester, Walking, Awaited
    <3>2. IssPage(pc, "x", priv_mode) = [fault |-> FALSE, ppn |-> pc]
      BY <2>3, Zenon
         DEF IssPage, Iss!translate, Iss!Physical, translate_enable
    <3>3. QED
      BY <3>1, <3>2
  <2>4. CASE translate_enable /\ ptw_done_i /\ ptw.fault
    <3>1. ptw.done /\ ~ptw_servicing_d_r /\ ~ptw_abandoned_r
      BY <2>2, <2>4, Zenon DEF ptw_done_i
    <3>2. ptw.page = pc /\ ptw.access = "x"
      BY <2>1, <3>1, Zenon DEF Orderly, Requester, Walking, Awaited
    <3>3. ifetch_fault_if
      BY <2>4, <3>1, Zenon DEF ifetch_fault_if
    <3>4. QED
      BY <2>1, <2>4, <3>1, <3>2, <3>3, FaultRight, Zenon
  <2>5. CASE translate_enable /\ ~(ptw_done_i /\ ptw.fault)
    <3>1. TlbHit(pc)
      BY <1>1, <2>2, <2>5, Zenon DEF itlb_miss
    <3>2. ifetch_fault_if <=> ~Permits(TlbEntry(pc).perm, "x", priv_is_u)
      BY <2>5, <3>1, Zenon DEF ifetch_fault_if, itlb_hit_fault
    <3>3. imem_phys_addr = TlbEntry(pc).ppn
      BY <2>5, <3>1, Zenon DEF imem_phys_addr
    <3>4. IssPage(pc, "x", priv_mode) =
            IF Permits(TlbEntry(pc).perm, "x", priv_is_u)
            THEN [fault |-> FALSE, ppn |-> TlbEntry(pc).ppn]
            ELSE [fault |-> TRUE, ppn |-> 0]
      BY <1>1, <2>1, <2>5, <3>1, HitRight, Zenon
    <3>5. CASE ifetch_fault_if
      <4>1. IssPage(pc, "x", priv_mode) = [fault |-> TRUE, ppn |-> 0]
        BY <3>2, <3>4, <3>5, Zenon
      <4>2. IssPage(pc, "x", priv_mode).fault
        BY <4>1
      <4>3. QED
        BY <3>5, <4>2, Zenon
    <3>6. CASE ~ifetch_fault_if
      BY <3>2, <3>3, <3>4, <3>6
    <3>7. QED
      BY <3>5, <3>6, Zenon
  <2>6. QED
    BY <2>3, <2>4, <2>5, Zenon
<1>2. IInv /\ ~Misfiled => (~build.Overlap => FetchRight)
  BY <1>1, Zenon DEF FetchRight
<1>3. QED
  BY <1>2, Invariant, PTL

\* A load or store accesses the frame that iss.py's translate computes for
\* the page it asked for, and faults exactly when translate does.
THEOREM AccessesRight == Spec /\ []~Misfiled => [](~build.Overlap => AccessRight)
<1>1. ASSUME IInv, ~build.Overlap, synced, dtlb_needed, ~reg2_hold
      PROVE  LET iss == IssPage(reg2.page, access_regde, priv_mode)
             IN  IF dtlb_page_fault THEN iss.fault
                 ELSE ~iss.fault /\ mem_paddr = iss.ppn
  <2>1. Typed /\ Orderly /\ reg2.page \in Page
    BY <1>1, Zenon DEF IInv, Typed, TypeOK
  <2>2. ~dtlb_miss /\ (ptw_done_d => ~ptw_abandoned_r)
    BY <1>1, <2>1, Zenon DEF Orderly, Requester, ptw_done_d, reg2_hold
  <2>3. translate_enable /\ reg2.op \in Accesses
    BY <1>1, <2>1, NeedsAccess, Zenon
  <2>4. dtlb_vaddr = reg2.page
    BY <2>1, <2>3, AccessPage, Zenon DEF Orderly
  <2>5. CASE ptw_done_d /\ ptw.fault
    <3>1. ptw.done /\ ptw_servicing_d_r
      BY <2>5, Zenon DEF ptw_done_d
    <3>2. ptw.page = reg2.page /\ ptw.access = access_regde
      BY <2>1, <2>2, <2>5, <3>1, Zenon DEF Orderly, Requester, Walking, Awaited
    <3>3. dtlb_page_fault
      BY <2>2, <2>5, Zenon DEF dtlb_page_fault
    <3>4. QED
      BY <2>1, <2>2, <2>5, <3>1, <3>2, <3>3, FaultRight, Zenon
  <2>6. CASE ~(ptw_done_d /\ ptw.fault)
    <3>1. TlbHit(reg2.page)
      <4> SUFFICES ASSUME ~TlbHit(reg2.page) PROVE FALSE
        BY Zenon
      <4>1. ~dtlb_page_fault
        BY <2>4, <2>6, Zenon DEF dtlb_page_fault, dtlb_hit_fault
      <4>2. ~branch_taken
        BY <2>3, <4>1, Zenon
           DEF branch_taken, exception_taken, sfence_priv_violation, Accesses
      <4>3. QED
        BY <1>1, <2>2, <2>4, <2>6, <4>2, Zenon DEF dtlb_miss
    <3>2. dtlb_page_fault <=> ~Permits(TlbEntry(reg2.page).perm, access_regde, priv_is_u)
      BY <1>1, <2>4, <2>6, <3>1, Zenon DEF dtlb_page_fault, dtlb_hit_fault
    <3>3. mem_paddr = TlbEntry(reg2.page).ppn
      BY <2>3, <2>4, <3>1, Zenon DEF mem_paddr
    <3>4. IssPage(reg2.page, access_regde, priv_mode) =
            IF Permits(TlbEntry(reg2.page).perm, access_regde, priv_is_u)
            THEN [fault |-> FALSE, ppn |-> TlbEntry(reg2.page).ppn]
            ELSE [fault |-> TRUE, ppn |-> 0]
      BY <1>1, <2>1, <2>3, <3>1, HitRight, Zenon
    <3>5. CASE dtlb_page_fault
      <4>1. IssPage(reg2.page, access_regde, priv_mode) = [fault |-> TRUE, ppn |-> 0]
        BY <3>2, <3>4, <3>5, Zenon
      <4>2. IssPage(reg2.page, access_regde, priv_mode).fault
        BY <4>1
      <4>3. QED
        BY <3>5, <4>2, Zenon
    <3>6. CASE ~dtlb_page_fault
      BY <3>2, <3>3, <3>4, <3>6
    <3>7. QED
      BY <3>5, <3>6, Zenon
  <2>7. QED
    BY <2>5, <2>6, Zenon
<1>2. IInv => (~build.Overlap => AccessRight)
  BY <1>1, Zenon DEF AccessRight
<1>3. QED
  BY <1>2, Invariant, PTL

=============================================================================
