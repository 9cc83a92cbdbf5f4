------------------------------- MODULE CSRProofs -------------------------------
(***************************************************************************)
(* Proofs about module CSR, for every set of builds: any software, any     *)
(* interrupt lines, with and without the two cycles Allowed keeps out.     *)
(***************************************************************************)
EXTENDS IssPrivilege, TLAPS

----------------------------------------------------------------------------
(* The fields of mstatus.                                                  *)

\* MPP holds any two-bit privilege, and reads back as it was saved.
LEMMA MppField ==
    /\ \A m : MppOf(m) \in 0..3
    /\ \A p \in 0..3 : MppBits(p) \subseteq MPP
    /\ \A p \in 0..3 : \A m : m \cap MPP = {} => MppOf(m \cup MppBits(p)) = p
BY DEF MppOf, MppBits, MPP

\* Entering M saves MIE and the privilege, clears MIE, and leaves S's half.
LEMMA EnterMField ==
    ASSUME NEW m \in SUBSET MSTATUS_BITS, priv_mode \in 0..3
    PROVE  /\ EnterM(m) \subseteq MSTATUS_BITS
           /\ MIE \notin EnterM(m)
           /\ (MPIE \in EnterM(m)) = (MIE \in m)
           /\ MppOf(EnterM(m)) = priv_mode
           /\ \A b \in SSTATUS_BITS : (b \in EnterM(m)) = (b \in m)
<1>1. /\ MppBits(priv_mode) \subseteq MPP
      /\ \A n : n \cap MPP = {} => MppOf(n \cup MppBits(priv_mode)) = priv_mode
  BY MppField, Zenon
<1>2. (Put(m, MPIE, MIE \in m) \ ({MIE} \cup MPP)) \cap MPP = {}
  BY Zenon DEF Put, MPP
<1>3. MppOf(EnterM(m)) = priv_mode
  BY <1>1, <1>2, Zenon DEF EnterM
<1>4. MppBits(priv_mode) \subseteq {11, 12}
  BY <1>1, Zenon DEF MPP
<1>5. \A b : b \in EnterM(m) <=>
          \/ b \in MppBits(priv_mode)
          \/ b = 7 /\ 3 \in m
          \/ b \in m /\ b \notin {3, 7, 11, 12}
  BY DEF EnterM, Put, MPP, MIE, MPIE
<1>6. EnterM(m) \subseteq MSTATUS_BITS
  BY <1>4, <1>5, Zenon DEF MSTATUS_BITS, MPP, MIE, MPIE
<1>7. MIE \notin EnterM(m) /\ (MPIE \in EnterM(m)) = (MIE \in m)
  BY <1>4, <1>5 DEF MIE, MPIE
<1>8. \A b \in SSTATUS_BITS : (b \in EnterM(m)) = (b \in m)
  BY <1>4, <1>5 DEF SSTATUS_BITS, SIE, SPIE, SPP
<1>9. QED
  BY <1>3, <1>6, <1>7, <1>8, Zenon

\* Entering S saves SIE and the privilege's low bit, clears SIE, and leaves
\* M's half.
LEMMA EnterSField ==
    ASSUME NEW m \in SUBSET MSTATUS_BITS, priv_mode \in 0..3
    PROVE  /\ EnterS(m) \subseteq MSTATUS_BITS
           /\ SIE \notin EnterS(m)
           /\ (SPIE \in EnterS(m)) = (SIE \in m)
           /\ (SPP \in EnterS(m)) = (priv_mode % 2 = 1)
           /\ EnterS(m) \ SSTATUS_BITS = m \ SSTATUS_BITS
BY DEF EnterS, Put, MSTATUS_BITS, SSTATUS_BITS, MPP, MIE, MPIE, SIE, SPIE, SPP

\* mret and sret each leave the other level's half alone.
LEMMA LeaveField ==
    ASSUME NEW m \in SUBSET MSTATUS_BITS
    PROVE  /\ LeaveM(m) \subseteq MSTATUS_BITS
           /\ \A b \in SSTATUS_BITS : (b \in LeaveM(m)) = (b \in m)
           /\ LeaveS(m) \subseteq MSTATUS_BITS
           /\ LeaveS(m) \ SSTATUS_BITS = m \ SSTATUS_BITS
BY DEF LeaveM, LeaveS, Put, MSTATUS_BITS, SSTATUS_BITS, MPP, MIE, MPIE, SIE,
   SPIE, SPP

\* MPP is read from M's half only.
LEMMA MppLocal ==
    ASSUME NEW m, NEW n, n \ SSTATUS_BITS = m \ SSTATUS_BITS
    PROVE  /\ MppOf(n) = MppOf(m)
           /\ (MPIE \in n) = (MPIE \in m)
           /\ (MIE \in n) = (MIE \in m)
<1>1. \A b \in {MIE, MPIE, 11, 12} : (b \in n) = (b \in m)
  BY DEF SSTATUS_BITS, MIE, MPIE, SIE, SPIE, SPP
<1>2. QED
  BY <1>1, Zenon DEF MppOf

----------------------------------------------------------------------------
(* What a csrrX write and a trap leave in a register.                      *)

\* A write leaves only implemented bits, whatever register it goes to.
LEMMA WrittenTyped ==
    ASSUME TypeOK, NEW x \in Exec, NEW lines \in SUBSET Bit, NEW r \in Stored
    PROVE  /\ Written(r, x, lines) \subseteq Bit
           /\ r = "mstatus" => Written(r, x, lines) \subseteq MSTATUS_BITS
<1>1. csr[r] \subseteq Bit /\ x.wdata \subseteq Bit
  BY Zenon DEF TypeOK, Exec
<1>2. MSTATUS_BITS \subseteq Bit /\ MIE_BITS \subseteq Bit /\ SIE_BITS \subseteq Bit
      /\ MEDELEG_BITS \subseteq Bit /\ SSTATUS_BITS \subseteq MSTATUS_BITS
  BY DEF MSTATUS_BITS, SSTATUS_BITS, MPP, MIE_BITS, SIE_BITS, MEDELEG_BITS,
     Bit,
     MIE, MPIE, SIE, SPIE, SPP, MSI, MTI, MEI, SSI, STI, SEI
<1>3. x.addr = r => new_val(x, lines) \subseteq Bit
  BY <1>1, Zenon
     DEF new_val, csr_rdata, Stored, MachineRegs, SupervisorRegs, FpRegs
<1>4. ASSUME NEW v, x.addr = r => v \subseteq Bit
      PROVE  /\ Masked(r, x.addr, v) \subseteq Bit
             /\ r = "mstatus" => Masked(r, x.addr, v) \subseteq MSTATUS_BITS
  <2>1. {b - 5 : b \in v \cap 5..7} \subseteq Bit
    BY DEF Bit
  <2>2. r = "mstatus" => csr[r] \subseteq MSTATUS_BITS
    BY Zenon DEF TypeOK
  <2>3. (v \cap 0..4) \subseteq Bit /\ (v \cap 0..2) \subseteq Bit
    BY DEF Bit
  <2>4. Masked(r, x.addr, v) \subseteq Bit
    BY <1>1, <1>2, <1>4, <2>1, <2>3, Zenon DEF Masked
  <2>5. ASSUME r = "mstatus"
        PROVE  Masked(r, x.addr, v) \subseteq MSTATUS_BITS
    BY <1>2, <2>2, <2>5, Zenon DEF Masked
  <2>6. QED
    BY <2>4, <2>5, Zenon
<1>5. r = "mstatus" => csr[r] \subseteq MSTATUS_BITS
  BY Zenon DEF TypeOK
<1>6. QED
  BY <1>1, <1>3, <1>4, <1>5, Zenon DEF Written

\* A register other than the ones a write names keeps its value.
LEMMA WrittenElsewhere ==
    ASSUME NEW x \in Exec, NEW lines, NEW r \in Stored \ {"fflags"},
           \/ ~csr_write_en(x)
           \/ /\ x.addr # r
              /\ r = "mstatus" => x.addr # "sstatus"
              /\ r = "mie" => x.addr # "sie"
              /\ r = "mip" => x.addr # "sip"
              /\ r = "frm" => x.addr # "fcsr"
    PROVE  Written(r, x, lines) = csr[r]
<1>1. ~csr_write_en(x) => Written(r, x, lines) = csr[r]
  BY Zenon DEF Written
<1>2. ASSUME csr_write_en(x)
      PROVE  Masked(r, x.addr, new_val(x, lines)) = csr[r]
  <2> DEFINE v == new_val(x, lines)
  <2> HIDE DEF v
  <2>1. Masked(r, x.addr, v) = csr[r]
    BY <1>2, Zenon DEF Masked
  <2>2. QED
    BY <2>1, Zenon DEF v
<1>3. QED
  BY <1>1, <1>2, Zenon DEF Written

\* Below M, a write reaches no machine register, and mstatus and mie only
\* through the windows sstatus and sie.
LEMMA WrittenBelowM ==
    ASSUME TypeOK, NEW x \in Exec, NEW lines, csr_write_en(x), priv_mode # M
    PROVE  x.addr \notin MachineRegs
<1>1. x.addr \in MachineRegs => RequiredPriv(x.addr) = 3
  BY Zenon DEF RequiredPriv, M, MachineRegs, FpRegs
<1>2. ~(priv_mode < RequiredPriv(x.addr)) /\ priv_mode \in 0..3 /\ priv_mode # 3
  BY Zenon DEF csr_write_en, csr_priv_violation, TypeOK, M
<1>3. QED
  BY <1>1, <1>2

\* A write through sstatus leaves M's half of mstatus.
LEMMA WrittenWindow ==
    ASSUME NEW x \in Exec, NEW lines, x.addr # "mstatus"
    PROVE  Written("mstatus", x, lines) \ SSTATUS_BITS = csr["mstatus"] \ SSTATUS_BITS
<1> DEFINE v == new_val(x, lines)
<1> HIDE DEF v
<1>1. Masked("mstatus", x.addr, v) \ SSTATUS_BITS = csr["mstatus"] \ SSTATUS_BITS
  BY Zenon DEF Masked
<1>2. QED
  BY <1>1, Zenon DEF Written, v

\* A write through sie leaves the machine's half of mie.
LEMMA WrittenSie ==
    ASSUME NEW x \in Exec, NEW lines, x.addr # "mie"
    PROVE  Written("mie", x, lines) \ SIE_BITS = csr["mie"] \ SIE_BITS
<1> DEFINE v == new_val(x, lines)
<1> HIDE DEF v
<1>1. Masked("mie", x.addr, v) \ SIE_BITS = csr["mie"] \ SIE_BITS
  BY Zenon DEF Masked
<1>2. QED
  BY <1>1, Zenon DEF Written, v

----------------------------------------------------------------------------
(* The inductive invariant.  FramesIntact says what a frame saved; that    *)
(* its level's enable bit stays clear while the frame is live is what      *)
(* keeps a second interrupt from entering the level.                       *)
EnablesClear ==
    /\ frames[M].live => MIE \notin csr["mstatus"]
    /\ frames[S].live => SIE \notin csr["mstatus"]

IInv == TypeOK /\ FramesIntact /\ EnablesClear

\* The initial state satisfies the invariant.
LEMMA InitIInv == Init => IInv
BY DEF Init, IInv, TypeOK, FramesIntact, EnablesClear, NoFrame, U, M, S,
   Stored,
   MachineRegs, SupervisorRegs, FpRegs

\* The codes and register values a trap records fit their registers.
LEMMA TrapValues ==
    /\ Pc \subseteq Bit /\ NextPc \subseteq Bit
    /\ \A x : trap_value(x) \subseteq Bit
    /\ \A c, i : CauseBits(c, i) \subseteq Bit
<1>1. Pc \subseteq Bit /\ NextPc \subseteq Bit /\ DataAddr \subseteq Bit
  BY DEF Pc, NextPc, DataAddr, Bit
<1>2. \A x : trap_value(x) \subseteq Bit
  BY <1>1, Zenon DEF trap_value
<1>3. \A c, i : CauseBits(c, i) \subseteq Bit
  BY DEF CauseBits, Bit
<1>4. QED
  BY <1>1, <1>2, <1>3, Zenon

\* A frame, live or not.
Frame == [live : BOOLEAN, priv : 0..3, ie : BOOLEAN, pc : SUBSET Bit]

\* The frame a trap records is one.
LEMMA FrameTyped ==
    /\ NoFrame \in Frame /\ ~NoFrame.live
    /\ \A p \in 0..3, i \in BOOLEAN, pc \in SUBSET Bit :
          LET f == [live |-> TRUE, priv |-> p, ie |-> i, pc |-> pc]
          IN f \in Frame /\ f.priv = p /\ f.ie = i /\ f.pc = pc
BY DEF NoFrame, Frame, U

\* A trap into either level keeps the invariant, whatever instruction it
\* lands on and whatever that instruction writes at the same edge.
LEMMA TrapStep ==
    ASSUME IInv, NEW x \in Exec, NEW lines \in SUBSET Bit, NEW to_s \in BOOLEAN,
           NEW pc \in SUBSET Bit, NEW cause \in SUBSET Bit,
           NEW tval \in SUBSET Bit,
           to_s => priv_mode # M,
           priv_mode' = IF to_s THEN S ELSE M,
           csr' = Trapped(x, lines, to_s, pc, cause, tval),
           frames' = FramesTrapped(x, to_s, pc), build' = build
    PROVE  IInv'
<1> DEFINE m == csr["mstatus"]
<1>1. m \in SUBSET MSTATUS_BITS /\ priv_mode \in 0..3 /\ MSTATUS_BITS \subseteq Bit
  BY DEF IInv, TypeOK, MSTATUS_BITS, SSTATUS_BITS, MPP, Bit, MIE, MPIE, SIE,
     SPIE, SPP
<1>2. csr'["mstatus"] = IF to_s THEN EnterS(m) ELSE EnterM(m)
  BY Zenon DEF Trapped, Stored, MachineRegs
<1>3. csr' \in [Stored -> SUBSET Bit]
  <2>1. \A r \in Stored : Written(r, x, lines) \subseteq Bit
    BY WrittenTyped, Zenon DEF IInv
  <2>2. EnterS(m) \subseteq Bit /\ EnterM(m) \subseteq Bit
    BY <1>1, EnterMField, EnterSField, Zenon
  <2>3. QED
    BY <2>1, <2>2, Zenon DEF Trapped
<1>4. csr'["mepc"] = IF to_s THEN csr["mepc"] ELSE pc
  <2>1. CASE to_s
    <3>1. csr_write_en(x) => x.addr # "mepc"
      BY <2>1, WrittenBelowM, Zenon DEF IInv, MachineRegs
    <3>2. Written("mepc", x, lines) = csr["mepc"]
      BY <3>1, WrittenElsewhere, Zenon DEF Stored, MachineRegs
    <3>3. QED
      BY <2>1, <3>2, Zenon DEF Trapped, Stored, MachineRegs
  <2>2. CASE ~to_s
    BY <2>2, Zenon DEF Trapped, Stored, MachineRegs
  <2>3. QED
    BY <2>1, <2>2, Zenon
<1>5. /\ to_s => csr'["sepc"] = pc
      /\ ~to_s /\ ~(csr_write_en(x) /\ x.addr = "sepc") => csr'["sepc"] = csr["sepc"]
  <2>1. CASE to_s
    BY <2>1, Zenon DEF Trapped, Stored, SupervisorRegs
  <2>2. CASE ~to_s
    <3>1. ~(csr_write_en(x) /\ x.addr = "sepc") =>
              Written("sepc", x, lines) = csr["sepc"]
      BY WrittenElsewhere, Zenon DEF Stored, SupervisorRegs
    <3>2. QED
      BY <2>2, <3>1, Zenon DEF Trapped, Stored, SupervisorRegs
  <2>3. QED
    BY <2>1, <2>2, Zenon
<1> DEFINE si == SIE \in m
           mi == MIE \in m
<1>b. si \in BOOLEAN /\ mi \in BOOLEAN
  OBVIOUS
<1>6. CASE to_s
  <2>1. /\ frames'[M] = frames[M]
        /\ frames'[S] = [live |-> TRUE, priv |-> priv_mode, ie |-> si, pc |-> pc]
    BY <1>6, WrittenBelowM DEF FramesTrapped, Forget, IInv, TypeOK, M, S
  <2>2. frames' = [frames EXCEPT ![S] = frames'[S]]
    BY <1>6, <2>1, Zenon DEF FramesTrapped, Forget, IInv, TypeOK, M, S
  <2>3. TypeOK'
    <3> HIDE DEF si
    <3>2. frames'[S] \in Frame
      BY <1>1, <1>b, <2>1, FrameTyped
    <3>3. frames \in [{M, S} -> Frame]
      BY Zenon DEF IInv, TypeOK, Frame
    <3>4. frames' \in [{M, S} -> Frame]
      BY <2>2, <3>2, <3>3, Zenon
    <3>5. csr'["mstatus"] \subseteq MSTATUS_BITS
      BY <1>1, <1>2, <1>6, EnterSField
    <3>6. priv_mode' \in 0..3 /\ build' \in Builds
      BY <1>6 DEF IInv, TypeOK, S
    <3>7. QED
      BY <1>3, <3>4, <3>5, <3>6, Zenon DEF TypeOK, Frame
  <2>4. /\ SIE \notin csr'["mstatus"]
        /\ (SPIE \in csr'["mstatus"]) = si
        /\ (SPP \in csr'["mstatus"]) = (priv_mode % 2 = 1)
        /\ csr'["mstatus"] \ SSTATUS_BITS = m \ SSTATUS_BITS
    BY <1>1, <1>2, <1>6, EnterSField, Zenon
  <2>5. /\ MppOf(csr'["mstatus"]) = MppOf(m)
        /\ (MPIE \in csr'["mstatus"]) = (MPIE \in m)
        /\ (MIE \in csr'["mstatus"]) = (MIE \in m)
    <3> DEFINE n == csr'["mstatus"]
    <3>1. n \ SSTATUS_BITS = m \ SSTATUS_BITS
      BY <2>4, Zenon
    <3> HIDE DEF n, m
    <3>2. MppOf(n) = MppOf(m) /\ (MPIE \in n) = (MPIE \in m)
          /\ (MIE \in n) = (MIE \in m)
      BY <3>1, MppLocal, Zenon
    <3>3. QED
      BY <3>2, Zenon DEF n
  <2>6. FramesIntact'
    <3> HIDE DEF si
    <3>1. frames'[S].priv = priv_mode /\ frames'[S].ie = si /\ frames'[S].pc = pc
      BY <2>1
    <3>2. frames'[M].live =>
            /\ MppOf(csr'["mstatus"]) = frames'[M].priv
            /\ (MPIE \in csr'["mstatus"]) = frames'[M].ie
            /\ csr'["mepc"] = frames'[M].pc
      BY <1>4, <1>6, <2>1, <2>5, Zenon DEF FramesIntact, IInv
    <3>3. QED
      BY <1>5, <1>6, <2>4, <3>1, <3>2, Zenon DEF FramesIntact, MppOf
  <2>7. EnablesClear'
    BY <2>1, <2>4, <2>5, Zenon DEF EnablesClear, IInv
  <2>8. QED
    BY <2>3, <2>6, <2>7, Zenon DEF IInv
<1>7. CASE ~to_s
  <2>1. /\ frames'[M] = [live |-> TRUE, priv |-> priv_mode, ie |-> mi, pc |-> pc]
        /\ frames'[S] = IF csr_write_en(x) /\ x.addr = "sepc"
                        THEN NoFrame ELSE frames[S]
    BY <1>7 DEF FramesTrapped, Forget, IInv, TypeOK, M, S
  <2>2. frames' = [l \in {M, S} |-> frames'[l]]
    BY <1>7, Zenon DEF FramesTrapped, Forget
  <2>3. TypeOK'
    <3> HIDE DEF mi
    <3>2. frames[S] \in Frame
      BY Zenon DEF IInv, TypeOK, Frame
    <3>3. frames'[M] \in Frame /\ frames'[S] \in Frame
      BY <1>1, <1>b, <2>1, <3>2, FrameTyped
    <3>4. frames' \in [{M, S} -> Frame]
      BY <2>2, <3>3, Zenon
    <3>5. csr'["mstatus"] \subseteq MSTATUS_BITS
      BY <1>1, <1>2, <1>7, EnterMField, Zenon
    <3>6. QED
      BY <1>3, <1>7, <3>4, <3>5 DEF IInv, TypeOK, Frame, M
  <2>4. /\ MIE \notin csr'["mstatus"]
        /\ (MPIE \in csr'["mstatus"]) = mi
        /\ MppOf(csr'["mstatus"]) = priv_mode
        /\ \A b \in SSTATUS_BITS : (b \in csr'["mstatus"]) = (b \in m)
    BY <1>1, <1>2, <1>7, EnterMField
  <2>5. SIE \in SSTATUS_BITS /\ SPIE \in SSTATUS_BITS /\ SPP \in SSTATUS_BITS
    BY Zenon DEF SSTATUS_BITS
  <2>6. ~NoFrame.live
    BY FrameTyped, Zenon
  <2>7. FramesIntact'
    BY <1>4, <1>5, <1>7, <2>1, <2>4, <2>5, <2>6 DEF FramesIntact, IInv, MppOf
  <2>8. EnablesClear'
    BY <2>1, <2>4, <2>5, <2>6, Zenon DEF EnablesClear, IInv
  <2>9. QED
    BY <2>3, <2>7, <2>8, Zenon DEF IInv
<1>8. QED
  BY <1>6, <1>7, Zenon

\* A cycle without a trap keeps the invariant: a return ends its own level's
\* frame and leaves the other's, and a write that reaches neither the fields
\* nor the pc of a frame leaves it intact.
LEMMA RetireStep ==
    ASSUME IInv, NEW x \in Exec, NEW lines \in SUBSET Bit,
           priv_mode' = PrivAfter(x), csr' = Untrapped(x, lines),
           frames' = FramesAfter(x), build' = build
    PROVE  IInv'
<1> DEFINE m == csr["mstatus"]
           n == csr'["mstatus"]
<1>1. m \in SUBSET MSTATUS_BITS /\ MSTATUS_BITS \subseteq Bit
  BY DEF IInv, TypeOK, MSTATUS_BITS, SSTATUS_BITS, MPP, Bit, MIE, MPIE, SIE,
     SPIE, SPP
<1>2. n = IF mret_real(x) THEN LeaveM(m) ELSE IF sret_real(x) THEN LeaveS(m)
          ELSE Written("mstatus", x, lines)
  BY Zenon DEF Untrapped, Stored, MachineRegs, mret_real, sret_real
<1>3. /\ csr'["mepc"] = Written("mepc", x, lines)
      /\ csr'["sepc"] = Written("sepc", x, lines)
  BY Zenon DEF Untrapped, Stored, MachineRegs, SupervisorRegs
<1>4. n \subseteq MSTATUS_BITS
  BY <1>1, <1>2, LeaveField, WrittenTyped DEF IInv, Stored, MachineRegs
<1>5. TypeOK'
  <2>1. csr' \in [Stored -> SUBSET Bit]
    <3>1. \A r \in Stored : Written(r, x, lines) \subseteq Bit
      BY WrittenTyped, Zenon DEF IInv
    <3>2. LeaveM(m) \subseteq Bit /\ LeaveS(m) \subseteq Bit
      BY <1>1, LeaveField, Zenon
    <3>3. QED
      BY <3>1, <3>2, Zenon DEF Untrapped
  <2>2. priv_mode' \in 0..3
    <3>1. MppOf(m) \in 0..3 /\ priv_mode \in 0..3
      BY MppField, Zenon DEF IInv, TypeOK
    <3>2. QED
      BY <3>1 DEF PrivAfter, S, U
  <2>3. frames' \in [{M, S} -> Frame]
    BY FrameTyped, Zenon DEF FramesAfter, Forget, IInv, TypeOK, Frame
  <2>4. build' \in Builds
    BY Zenon DEF IInv, TypeOK
  <2>5. QED
    BY <1>4, <2>1, <2>2, <2>3, <2>4, Zenon DEF TypeOK, Frame
<1>6. ASSUME frames'[M].live
      PROVE  /\ frames'[M] = frames[M]
             /\ ~mret_real(x)
             /\ csr_write_en(x) => x.addr \notin {"mstatus", "mepc"}
  BY <1>6, FrameTyped, Zenon
     DEF FramesAfter, Forget, M, S, mret_real, sret_real,
     csr_write_en
<1>7. ASSUME frames'[S].live
      PROVE  /\ frames'[S] = frames[S]
             /\ ~sret_real(x)
             /\ csr_write_en(x) => x.addr \notin {"mstatus", "sstatus", "sepc"}
  BY <1>7, FrameTyped, Zenon
     DEF FramesAfter, Forget, M, S, mret_real, sret_real,
     csr_write_en
<1>8. ASSUME frames'[M].live
      PROVE  /\ MppOf(n) = frames'[M].priv
             /\ (MPIE \in n) = frames'[M].ie
             /\ csr'["mepc"] = frames'[M].pc
             /\ MIE \notin n
  <2>1. n \ SSTATUS_BITS = m \ SSTATUS_BITS
    <3>1. ~csr_write_en(x) => Written("mstatus", x, lines) = m
      BY WrittenElsewhere, Zenon DEF Stored, MachineRegs
    <3>2. csr_write_en(x) =>
            Written("mstatus", x, lines) \ SSTATUS_BITS = m \ SSTATUS_BITS
      BY <1>6, <1>8, WrittenWindow, Zenon
    <3>3. QED
      BY <1>1, <1>2, <1>6, <1>8, <3>1, <3>2, LeaveField, Zenon
  <2>2. csr'["mepc"] = csr["mepc"]
    BY <1>3, <1>6, <1>8, WrittenElsewhere, Zenon DEF Stored, MachineRegs
  <2>3. MppOf(n) = MppOf(m) /\ (MPIE \in n) = (MPIE \in m)
        /\ (MIE \in n) = (MIE \in m)
    <3> HIDE DEF n, m
    <3>1. QED
      BY <2>1, MppLocal, Zenon
  <2>4. QED
    BY <1>6, <1>8, <2>2, <2>3, Zenon DEF IInv, FramesIntact, EnablesClear
<1>9. ASSUME frames'[S].live
      PROVE  /\ (SPP \in n) = (frames'[S].priv % 2 = 1)
             /\ (SPIE \in n) = frames'[S].ie
             /\ csr'["sepc"] = frames'[S].pc
             /\ SIE \notin n
  <2>1. Written("mstatus", x, lines) = m
    BY <1>7, <1>9, WrittenElsewhere, Zenon DEF Stored, MachineRegs
  <2>2. \A b \in SSTATUS_BITS : (b \in n) = (b \in m)
    BY <1>1, <1>2, <1>7, <1>9, <2>1, LeaveField
  <2>3. csr'["sepc"] = csr["sepc"]
    BY <1>3, <1>7, <1>9, WrittenElsewhere, Zenon DEF Stored, SupervisorRegs
  <2>4. SIE \in SSTATUS_BITS /\ SPIE \in SSTATUS_BITS /\ SPP \in SSTATUS_BITS
    BY Zenon DEF SSTATUS_BITS
  <2>5. QED
    BY <1>7, <1>9, <2>2, <2>3, <2>4, Zenon DEF IInv, FramesIntact, EnablesClear
<1>10. FramesIntact' /\ EnablesClear'
  BY <1>8, <1>9, Zenon DEF FramesIntact, EnablesClear, MppOf
<1>11. QED
  BY <1>5, <1>10, Zenon DEF IInv

----------------------------------------------------------------------------
(* The theorems.                                                           *)

\* A trap goes to S only from below M.
LEMMA TargetBelowM ==
    ASSUME NEW c, NEW i \in BOOLEAN
    PROVE  target_is_s(c, i) \in BOOLEAN /\ (target_is_s(c, i) => priv_mode # M)
BY Zenon DEF target_is_s

\* What software and the devices may do, read off the build.
LEMMA BuildTyped ==
    ASSUME TypeOK
    PROVE  /\ build.execs \subseteq Exec
           /\ \A lines \in SUBSET build.lines :
                 lines \in SUBSET Bit /\ lines \subseteq {MSI, MTI, MEI}
BY BuildsAssumption DEF TypeOK, Bit, MSI, MTI, MEI

\* Every clock edge keeps the invariant.
LEMMA NextIInv == IInv /\ [Next]_vars => IInv'
<1> SUFFICES ASSUME IInv, [Next]_vars PROVE IInv'
  BY Zenon
<1>1. CASE Next
  <2>1. PICK x \in build.execs, lines \in SUBSET build.lines :
           \/ Exception(x, lines)
           \/ Interrupt(x, lines)
           \/ Retire(x, lines)
    BY <1>1, Zenon DEF Next
  <2>2. x \in Exec /\ lines \in SUBSET Bit /\ build' = build
    BY <1>1, BuildTyped, Zenon DEF IInv, Next
  <2>3. CASE Exception(x, lines)
    <3> DEFINE to_s == target_is_s(trap_cause(x), FALSE)
    <3>1. to_s \in BOOLEAN /\ (to_s => priv_mode # M)
      BY TargetBelowM, Zenon
    <3>2. /\ priv_mode' = IF to_s THEN S ELSE M
          /\ csr' = Trapped(x, lines, to_s, Pc, CauseBits(trap_cause(x), FALSE),
                            trap_value(x))
          /\ frames' = FramesTrapped(x, to_s, Pc)
      BY <2>3, Zenon DEF Exception, Becomes, AfterException, AfterTrap
    <3> HIDE DEF to_s
    <3>3. QED
      BY <2>2, <3>1, <3>2, TrapValues, TrapStep, Zenon
  <2>4. CASE Interrupt(x, lines)
    <3> DEFINE to_s == target_is_s(interrupt_cause(lines), TRUE)
    <3>1. to_s \in BOOLEAN /\ (to_s => priv_mode # M)
      BY TargetBelowM, Zenon
    <3>2. /\ priv_mode' = IF to_s THEN S ELSE M
          /\ csr' = Trapped(x, lines, to_s, NextPc,
                            CauseBits(interrupt_cause(lines), TRUE), {})
          /\ frames' = FramesTrapped(x, to_s, NextPc)
      BY <2>4, Zenon DEF Interrupt, Becomes, AfterInterrupt, AfterTrap
    <3> HIDE DEF to_s
    <3>3. /\ {} \in SUBSET Bit /\ NextPc \in SUBSET Bit
          /\ CauseBits(interrupt_cause(lines), TRUE) \in SUBSET Bit
      BY TrapValues, Zenon
    <3>4. QED
      BY <2>2, <3>1, <3>2, <3>3, TrapStep, Zenon
  <2>5. CASE Retire(x, lines)
    BY <2>2, <2>5, RetireStep, Zenon DEF Retire, Becomes, AfterRetire
  <2>6. QED
    BY <2>1, <2>3, <2>4, <2>5, Zenon
<1>2. CASE UNCHANGED vars
  BY <1>2, Zenon DEF vars, IInv, TypeOK, FramesIntact, EnablesClear, MppOf
<1>3. QED
  BY <1>1, <1>2, Zenon

\* The invariant holds in every reachable state.
THEOREM Invariant == Spec => []IInv
BY InitIInv, NextIInv, PTL DEF Spec

\* Every register of CSR.v holds only bits it implements.
THEOREM TypeCorrect == Spec => []TypeOK
<1>1. IInv => TypeOK
  BY Zenon DEF IInv
<1>2. QED
  BY <1>1, Invariant, PTL

\* What a trap saved is what the matching return restores, with traps,
\* returns and writes at the other level in between.
THEOREM Intact == Spec => []FramesIntact
<1>1. IInv => FramesIntact
  BY Zenon DEF IInv
<1>2. QED
  BY <1>1, Invariant, PTL

\* No interrupt enters a handler's own level while its frame is live.
THEOREM NotReentered == Spec => []HandlerNotReentered
<1>1. IInv => HandlerNotReentered
  <2> SUFFICES ASSUME IInv,
                      NEW x \in build.execs, NEW lines \in SUBSET build.lines,
                      interrupt_taken(x, lines)
               PROVE  LET cause == interrupt_cause(lines)
                          target == IF target_is_s(cause, TRUE) THEN S ELSE M
                      IN \/ ~frames[target].live
                         \/ priv_mode # target
                         \/ target = S /\ cause \in {MSI, MTI, MEI}
    BY Zenon DEF HandlerNotReentered
  <2>1. m_pending(lines) \subseteq {MSI, MTI, MEI}
    BY BuildTyped, Zenon DEF IInv, m_pending
  <2>2. m_pending(lines) # {} => interrupt_cause(lines) \in {MSI, MTI, MEI}
    BY <2>1, Zenon DEF interrupt_cause
  <2>3. \/ m_pending(lines) # {} /\ MIE \in csr["mstatus"]
        \/ priv_mode = S /\ SIE \in csr["mstatus"]
    BY Zenon DEF interrupt_taken, s_pending
  <2>4. QED
    BY <2>2, <2>3, Zenon DEF IInv, EnablesClear, M, S
<1>2. QED
  BY <1>1, Invariant, PTL

\* Below M no instruction changes what belongs to M.
THEOREM Protected == Spec => MachineStateProtected
<1> DEFINE A == priv_mode # M =>
          /\ \A r \in {"mideleg", "medeleg", "mtvec", "mscratch"} :
                csr'[r] = csr[r]
          /\ csr'["mie"] \ SIE_BITS = csr["mie"] \ SIE_BITS
          /\ \/ priv_mode' = M
             \/ /\ \A r \in {"mepc", "mcause", "mtval"} : csr'[r] = csr[r]
                /\ csr'["mstatus"] \ SSTATUS_BITS = csr["mstatus"] \ SSTATUS_BITS
<1>1. IInv /\ [Next]_vars => [A]_vars
  <2> SUFFICES ASSUME IInv, Next, priv_mode # M PROVE A
    BY Zenon
  <2>1. PICK x \in build.execs, lines \in SUBSET build.lines :
           \/ Exception(x, lines)
           \/ Interrupt(x, lines)
           \/ Retire(x, lines)
    BY Zenon DEF Next
  <2>2. x \in Exec
    BY BuildTyped, Zenon DEF IInv
  <2>3. csr_write_en(x) => x.addr \notin MachineRegs
    BY <2>2, WrittenBelowM, Zenon DEF IInv
  <2>4. \A r \in {"mideleg", "medeleg", "mtvec", "mscratch", "mepc", "mcause",
                  "mtval"} : Written(r, x, lines) = csr[r]
    BY <2>2, <2>3, WrittenElsewhere, Zenon DEF Stored, MachineRegs
  <2>5. Written("mie", x, lines) \ SIE_BITS = csr["mie"] \ SIE_BITS
    <3>1. ~csr_write_en(x) => Written("mie", x, lines) = csr["mie"]
      BY <2>2, WrittenElsewhere, Zenon DEF Stored, MachineRegs
    <3>2. QED
      BY <2>2, <2>3, <3>1, WrittenSie, Zenon DEF MachineRegs
  <2>6. Written("mstatus", x, lines) \ SSTATUS_BITS = csr["mstatus"] \ SSTATUS_BITS
    <3>1. ~csr_write_en(x) => Written("mstatus", x, lines) = csr["mstatus"]
      BY <2>2, WrittenElsewhere, Zenon DEF Stored, MachineRegs
    <3>2. QED
      BY <2>2, <2>3, <3>1, WrittenWindow, Zenon DEF MachineRegs
  <2>7. /\ csr["mstatus"] \in SUBSET MSTATUS_BITS
        /\ priv_mode \in 0..3
    BY Zenon DEF IInv, TypeOK
  <2>8. ASSUME NEW to_s \in BOOLEAN, NEW pc, NEW cause, NEW tval,
               priv_mode' = IF to_s THEN S ELSE M,
               csr' = Trapped(x, lines, to_s, pc, cause, tval)
        PROVE  A
    <3>1. CASE to_s
      <4>1. csr'["mstatus"] = EnterS(csr["mstatus"])
        BY <2>8, <3>1, Zenon DEF Trapped, Stored, MachineRegs
      <4>2. \A r \in {"mideleg", "medeleg", "mtvec", "mscratch", "mepc",
                      "mcause", "mtval", "mie"} : csr'[r] = Written(r, x, lines)
        BY <2>8, <3>1, Zenon DEF Trapped, Stored, MachineRegs
      <4>3. QED
        BY <2>4, <2>5, <2>7, <4>1, <4>2, EnterSField
    <3>2. CASE ~to_s
      <4>1. \A r \in {"mideleg", "medeleg", "mtvec", "mscratch", "mie"} :
               csr'[r] = Written(r, x, lines)
        BY <2>8, <3>2, Zenon DEF Trapped, Stored, MachineRegs
      <4>2. QED
        BY <2>4, <2>5, <2>8, <3>2, <4>1, Zenon
    <3>3. QED
      BY <3>1, <3>2, Zenon
  <2>9. CASE Exception(x, lines)
    <3> DEFINE to_s == target_is_s(trap_cause(x), FALSE)
    <3>1. /\ priv_mode' = IF to_s THEN S ELSE M
          /\ csr' = Trapped(x, lines, to_s, Pc, CauseBits(trap_cause(x), FALSE),
                            trap_value(x))
      BY <2>9, Zenon DEF Exception, Becomes, AfterException, AfterTrap
    <3>2. to_s \in BOOLEAN
      BY TargetBelowM, Zenon
    <3> HIDE DEF to_s, A
    <3>3. QED
      BY <2>8, <3>1, <3>2, Zenon
  <2>10. CASE Interrupt(x, lines)
    <3> DEFINE to_s == target_is_s(interrupt_cause(lines), TRUE)
    <3>1. /\ priv_mode' = IF to_s THEN S ELSE M
          /\ csr' = Trapped(x, lines, to_s, NextPc,
                            CauseBits(interrupt_cause(lines), TRUE), {})
      BY <2>10, Zenon DEF Interrupt, Becomes, AfterInterrupt, AfterTrap
    <3>2. to_s \in BOOLEAN
      BY TargetBelowM, Zenon
    <3> HIDE DEF to_s, A
    <3>3. QED
      BY <2>8, <3>1, <3>2, Zenon
  <2>11. CASE Retire(x, lines)
    <3>1. csr' = Untrapped(x, lines)
      BY <2>11, Zenon DEF Retire, Becomes, AfterRetire
    <3>2. ~mret_real(x)
      BY Zenon DEF mret_real, mret_priv_violation
    <3>3. \A r \in {"mideleg", "medeleg", "mtvec", "mscratch", "mepc", "mcause",
                    "mtval", "mie"} : csr'[r] = Written(r, x, lines)
      BY <3>1, Zenon DEF Untrapped, Stored, MachineRegs
    <3>4. csr'["mstatus"] \ SSTATUS_BITS = csr["mstatus"] \ SSTATUS_BITS
      BY <2>6, <2>7, <3>1, <3>2, LeaveField, Zenon
         DEF Untrapped, Stored, MachineRegs
    <3>5. QED
      BY <2>4, <2>5, <3>3, <3>4, Zenon
  <2>12. QED
    BY <2>1, <2>9, <2>10, <2>11, Zenon
<1>2. QED
  BY <1>1, Invariant, PTL DEF Spec, MachineStateProtected

----------------------------------------------------------------------------
(* The core against the simulator.                                         *)

\* The simulator's masks are the core's.
LEMMA Masks ==
    /\ IssMstatusMask = MSTATUS_BITS /\ IssSstatusMask = SSTATUS_BITS
    /\ IssMieMask = MIE_BITS /\ IssSieMask = SIE_BITS
BY Zenon
   DEF IssMstatusMask, MSTATUS_BITS, IssSstatusMask, SSTATUS_BITS, IssMieMask,
   MIE_BITS, IssSieMask, SIE_BITS, MPP, MIE, MPIE, SIE, SPIE, SPP, MSI, MTI,
   MEI,
   SSI, STI, SEI

\* Trap entry stacks the enable bits alike.
LEMMA StacksAgree ==
    ASSUME NEW m, priv_mode \in 0..3
    PROVE  /\ EnterS(m) = (m \ {1, 5, 8}) \cup (IF 1 \in m THEN {5} ELSE {})
                             \cup (IF priv_mode % 2 = 1 THEN {8} ELSE {})
           /\ EnterM(m) = (m \ {3, 7, 11, 12}) \cup (IF 3 \in m THEN {7} ELSE {})
                             \cup MppBits(priv_mode)
           /\ LeaveM(m) = (m \ {3, 7, 11, 12}) \cup {7} \cup
                             (IF 7 \in m THEN {3} ELSE {})
           /\ LeaveS(m) = (m \ {1, 5, 8}) \cup {5} \cup (IF 5 \in m THEN {1} ELSE {})
BY DEF EnterS, EnterM, LeaveM, LeaveS, Put, SIE, SPIE, SPP, MIE, MPIE, MPP


\* Set, on a state of the simulator.
LEMMA SetRegister ==
    ASSUME NEW p, NEW c \in [Stored -> SUBSET Int], NEW r0 \in Stored, NEW v
    PROVE  Set([priv |-> p, csr |-> c], r0, v) =
             [priv |-> p, csr |-> [r \in Stored |-> IF r = r0 THEN v ELSE c[r]]]
<1>1. [c EXCEPT ![r0] = v] = [r \in Stored |-> IF r = r0 THEN v ELSE c[r]]
  BY Zenon
<1>2. Set([priv |-> p, csr |-> c], r0, v) = [priv |-> p, csr |-> [c EXCEPT ![r0] = v]]
  BY DEF Set
<1>3. QED
  BY <1>1, <1>2, Zenon

\* One write: each register's own chain against csr_write's one branch.
LEMMA WriteAgrees ==
    ASSUME TypeOK, NEW addr \in Addr, NEW v
    PROVE  IssWrite(Here, addr, v) =
             [priv |-> priv_mode, csr |-> [r \in Stored |-> Masked(r, addr, v)]]
<1>1. csr \in [Stored -> SUBSET Int]
  BY DEF TypeOK, Bit
<1>2. {"fflags", "frm", "mstatus", "mie", "mip", "medeleg", "mideleg"} \subseteq Stored
      /\ Stored \cap {"sstatus", "sie", "sip", "fcsr"} = {}
  BY Zenon DEF Stored, MachineRegs, SupervisorRegs, FpRegs
<1>3. ASSUME NEW r0 \in Stored, NEW w
      PROVE  Set(Here, r0, w) =
               [priv |-> priv_mode, csr |-> [r \in Stored |-> IF r = r0 THEN w ELSE csr[r]]]
  BY <1>1, SetRegister, Zenon DEF Here
<1>4. Here.csr = csr
  BY Zenon DEF Here
<1> DEFINE low == v \cap 0..4
           mode == v \cap 0..2
           high == {b - 5 : b \in v \cap 5..7}
<1>5. \A r \in Stored : Masked(r, addr, v) =
        CASE r = "mstatus" /\ addr = "mstatus" -> v \cap MSTATUS_BITS
      [] r = "mstatus" /\ addr = "sstatus" ->
            (csr["mstatus"] \ SSTATUS_BITS) \cup (v \cap SSTATUS_BITS)
      [] r = "mie" /\ addr = "mie" -> v \cap MIE_BITS
      [] r = "mie" /\ addr = "sie" ->
            (csr["mie"] \ SIE_BITS) \cup (v \cap SIE_BITS)
      [] r = "mip" /\ addr \in {"mip", "sip"} -> v \cap SIE_BITS
      [] r = "mideleg" /\ addr = r -> v \cap MIE_BITS
      [] r = "medeleg" /\ addr = r -> v \cap MEDELEG_BITS
      [] r = "fflags" /\ addr \in {"fflags", "fcsr"} -> low
      [] r = "frm" /\ addr = "frm" -> mode
      [] r = "frm" /\ addr = "fcsr" -> high
      [] OTHER -> IF addr = r THEN v ELSE csr[r]
  BY Zenon DEF Masked
<1>6. ASSUME NEW r0 \in Stored, NEW w, IssWrite(Here, addr, v) = Set(Here, r0, w),
             \A r \in Stored : Masked(r, addr, v) = IF r = r0 THEN w ELSE csr[r]
      PROVE  IssWrite(Here, addr, v) =
               [priv |-> priv_mode, csr |-> [r \in Stored |-> Masked(r, addr, v)]]
  BY <1>3, <1>6
<1>7. CASE addr \in {"mstatus", "sstatus"}
  <2> DEFINE w == IF addr = "mstatus" THEN v \cap MSTATUS_BITS
                  ELSE (csr["mstatus"] \ SSTATUS_BITS) \cup (v \cap SSTATUS_BITS)
  <2>1. IssWrite(Here, addr, v) = Set(Here, "mstatus", w)
    BY <1>4, <1>7, Masks, Zenon DEF IssWrite
  <2>2. \A r \in Stored : Masked(r, addr, v) = IF r = "mstatus" THEN w ELSE csr[r]
    <3> HIDE DEF low, mode, high
    <3>1. QED
      BY <1>2, <1>5, <1>7, Zenon
  <2> HIDE DEF w
  <2>3. QED
    BY <1>2, <1>6, <2>1, <2>2, Zenon
<1>8. CASE addr \in {"mie", "sie"}
  <2> DEFINE w == IF addr = "mie" THEN v \cap MIE_BITS
                  ELSE (csr["mie"] \ SIE_BITS) \cup (v \cap SIE_BITS)
  <2>1. IssWrite(Here, addr, v) = Set(Here, "mie", w)
    BY <1>4, <1>8, Masks, Zenon DEF IssWrite
  <2>2. \A r \in Stored : Masked(r, addr, v) = IF r = "mie" THEN w ELSE csr[r]
    <3> HIDE DEF low, mode, high
    <3>1. QED
      BY <1>2, <1>5, <1>8, Zenon
  <2> HIDE DEF w
  <2>3. QED
    BY <1>2, <1>6, <2>1, <2>2, Zenon
<1>9. CASE addr \in {"mip", "sip"}
  <2> DEFINE w == v \cap SIE_BITS
  <2>1. IssWrite(Here, addr, v) = Set(Here, "mip", w)
    BY <1>9, Masks, Zenon DEF IssWrite
  <2>2. \A r \in Stored : Masked(r, addr, v) = IF r = "mip" THEN w ELSE csr[r]
    <3> HIDE DEF low, mode, high
    <3>1. QED
      BY <1>2, <1>5, <1>9, Zenon
  <2> HIDE DEF w
  <2>3. QED
    BY <1>2, <1>6, <2>1, <2>2, Zenon
<1>10. CASE addr \in {"medeleg", "mideleg", "fflags", "frm"}
  <2> DEFINE w == CASE addr = "medeleg" -> v \cap MEDELEG_BITS
                    [] addr = "mideleg" -> v \cap MIE_BITS
                    [] addr = "frm" -> mode
                    [] OTHER -> low
  <2>1. IssWrite(Here, addr, v) = Set(Here, addr, w)
    BY <1>10, Masks, Zenon DEF IssWrite, MEDELEG_BITS
  <2>2. \A r \in Stored : Masked(r, addr, v) = IF r = addr THEN w ELSE csr[r]
    <3> HIDE DEF low, mode, high
    <3>1. QED
      BY <1>2, <1>5, <1>10, Zenon
  <2> HIDE DEF w
  <2>3. QED
    BY <1>2, <1>6, <1>10, <2>1, <2>2, Zenon
<1>11. CASE addr = "fcsr"
  <2>1. IssWrite(Here, addr, v) = Set(Set(Here, "frm", high), "fflags", low)
    BY <1>11, Zenon DEF IssWrite
  <2> HIDE DEF low, mode, high
  <2> DEFINE c == [r \in Stored |-> IF r = "frm" THEN high ELSE csr[r]]
  <2>2. Set(Here, "frm", high) = [priv |-> priv_mode, csr |-> c]
    BY <1>2, <1>3, Zenon
  <2>3. Set([priv |-> priv_mode, csr |-> c], "fflags", low) =
          [priv |-> priv_mode, csr |-> [r \in Stored |-> IF r = "fflags" THEN low ELSE c[r]]]
    <3>1. c \in [Stored -> SUBSET Int]
      BY <1>1 DEF high
    <3>2. "fflags" \in Stored
      BY <1>2, Zenon
    <3> HIDE DEF c
    <3>3. QED
      BY <3>1, <3>2, SetRegister, Zenon
  <2>4. [r \in Stored |-> IF r = "fflags" THEN low ELSE c[r]] =
          [r \in Stored |-> Masked(r, addr, v)]
    <3>1. \A r \in Stored : Masked(r, addr, v) = IF r = "fflags" THEN low ELSE c[r]
      BY <1>2, <1>5, <1>11, Zenon
    <3>2. QED
      BY <3>1, Zenon
  <2>5. QED
    BY <2>1, <2>2, <2>3, <2>4, Zenon
<1>12. CASE addr \in Stored \ {"mstatus", "mie", "mip", "medeleg", "mideleg", "fflags", "frm"}
  <2>1. IssWrite(Here, addr, v) = Set(Here, addr, v)
    BY <1>12, Zenon DEF IssWrite, Stored, MachineRegs, SupervisorRegs, FpRegs
  <2>2. \A r \in Stored : Masked(r, addr, v) = IF r = addr THEN v ELSE csr[r]
    <3> HIDE DEF low, mode, high
    <3>1. QED
      BY <1>5, <1>12 DEF Stored, MachineRegs, SupervisorRegs, FpRegs
  <2>3. QED
    BY <1>6, <1>12, <2>1, <2>2, Zenon
<1>13. QED
  BY <1>7, <1>8, <1>9, <1>10, <1>11, <1>12, Zenon
     DEF Addr, Stored, MachineRegs, SupervisorRegs, FpRegs

\* The simulator's state with the instruction's own writes done.
Executed(x, lines) ==
    [priv |-> priv_mode, csr |-> [r \in Stored |-> Written(r, x, lines)]]

\* One trap into S or M, taken from the state a csrrX write has left.
LEMMA TrapAgrees ==
    ASSUME TypeOK, NEW x, NEW lines, NEW code, NEW is_interrupt \in BOOLEAN,
           NEW pc, NEW tval,
           Written("mstatus", x, lines) = csr["mstatus"],
           priv_mode # M => /\ Written("mideleg", x, lines) = csr["mideleg"]
                            /\ Written("medeleg", x, lines) = csr["medeleg"]
    PROVE  AfterTrap(x, lines, code, is_interrupt, pc, tval) =
             IssTrap(Executed(x, lines), code, is_interrupt, tval, pc)
<1> DEFINE w == [r \in Stored |-> Written(r, x, lines)]
           to_s == target_is_s(code, is_interrupt)
           cause == CauseBits(code, is_interrupt)
           m == csr["mstatus"]
<1>1. {"mstatus", "mideleg", "medeleg", "mepc", "mcause", "mtval", "sepc", "scause",
       "stval"} \subseteq Stored
  BY Zenon DEF Stored, MachineRegs, SupervisorRegs
<1>2. /\ w["mstatus"] = m
      /\ priv_mode # M => w["mideleg"] = csr["mideleg"] /\ w["medeleg"] = csr["medeleg"]
  BY <1>1, Zenon
<1>3. priv_mode \in 0..3
  BY Zenon DEF TypeOK
<1>4. AfterTrap(x, lines, code, is_interrupt, pc, tval) =
        [priv |-> IF to_s THEN S ELSE M,
         csr |-> Trapped(x, lines, to_s, pc, cause, tval)]
  BY Zenon DEF AfterTrap
<1>5. IssTrap([priv |-> priv_mode, csr |-> w], code, is_interrupt, tval, pc) =
        IF to_s
        THEN [priv |-> S, csr |-> [w EXCEPT !["sepc"] = pc, !["scause"] = cause,
                                            !["stval"] = tval, !["mstatus"] = EnterS(m)]]
        ELSE [priv |-> M, csr |-> [w EXCEPT !["mepc"] = pc, !["mcause"] = cause,
                                            !["mtval"] = tval, !["mstatus"] = EnterM(m)]]
  <2>1. to_s <=> priv_mode # M /\ code \in w[IF is_interrupt THEN "mideleg" ELSE "medeleg"]
    BY <1>2, Zenon DEF target_is_s
  <2> HIDE DEF w, to_s, cause, m
  <2>2. QED
    BY <1>2, <1>3, <2>1, StacksAgree, Zenon DEF IssTrap, cause
<1>6. Trapped(x, lines, to_s, pc, cause, tval) =
        [r \in Stored |->
           CASE r = "mstatus" -> IF to_s THEN EnterS(m) ELSE EnterM(m)
             [] r = (IF to_s THEN "sepc" ELSE "mepc") -> pc
             [] r = (IF to_s THEN "scause" ELSE "mcause") -> cause
             [] r = (IF to_s THEN "stval" ELSE "mtval") -> tval
             [] OTHER -> w[r]]
  <2> HIDE DEF to_s, cause
  <2>1. \A r \in Stored : w[r] = Written(r, x, lines)
    BY Zenon
  <2> HIDE DEF w
  <2>2. QED
    BY <1>1, <2>1, Zenon DEF Trapped
<1>7. w = [r \in Stored |-> w[r]]
  BY Zenon
<1>8. QED
  <2> HIDE DEF w, to_s, cause, m
  <2>1. CASE to_s
    <3>1. [w EXCEPT !["sepc"] = pc, !["scause"] = cause,
                    !["stval"] = tval, !["mstatus"] = EnterS(m)] =
            Trapped(x, lines, to_s, pc, cause, tval)
      BY <1>1, <1>6, <1>7, <2>1, Zenon
    <3>2. QED
      BY <1>4, <1>5, <2>1, <3>1, Zenon DEF w, Executed
  <2>2. CASE ~to_s
    <3>1. [w EXCEPT !["mepc"] = pc, !["mcause"] = cause,
                    !["mtval"] = tval, !["mstatus"] = EnterM(m)] =
            Trapped(x, lines, to_s, pc, cause, tval)
      BY <1>1, <1>6, <1>7, <2>2, Zenon
    <3>2. QED
      BY <1>4, <1>5, <2>2, <3>1, Zenon DEF w, Executed
  <2>3. QED
    BY <2>1, <2>2, Zenon

\* The cycles in which the core and the simulator are known to differ are
\* left out: an interrupt that meets a write to what it saves (agree), and an
\* instruction whose fetch faulted and whose bits decode as a CSR or
\* floating-point write.
Comparable ==
    /\ build.agree
    /\ \A x \in build.execs : x.fault # "none" => x.kind \notin {"csr", "fp"}

\* An instruction that writes no register leaves them all.
LEMMA Unwritten ==
    ASSUME TypeOK, NEW x \in Exec, NEW lines, ~csr_write_en(x), x.kind # "fp"
    PROVE  [r \in Stored |-> Written(r, x, lines)] = csr
<1>1. \A r \in Stored : Written(r, x, lines) = csr[r]
  BY Zenon DEF Written
<1>2. csr \in [Stored -> SUBSET Bit]
  BY Zenon DEF TypeOK
<1>3. QED
  BY <1>1, <1>2, Zenon

\* An exception: the core's parallel conditions name the trap that step
\* finds first.
LEMMA ExceptionAgrees ==
    ASSUME TypeOK, NEW x \in Exec, NEW lines, exception_taken(x),
           x.fault # "none" => x.kind \notin {"csr", "fp"}
    PROVE  AfterException(x, lines) = IssStep(Here, x)
<1>1. ~csr_write_en(x) /\ x.kind # "fp"
  BY Zenon
     DEF exception_taken, illegal_instruction, csr_write_en,
         csr_priv_violation,
     mret_priv_violation, sret_priv_violation, sfence_priv_violation
<1>2. [r \in Stored |-> Written(r, x, lines)] = csr
  BY <1>1, Unwritten, Zenon
<1>3. \A r \in Stored : Written(r, x, lines) = csr[r]
  BY <1>2, Zenon
<1>4. AfterException(x, lines) =
        IssTrap(Here, trap_cause(x), FALSE, trap_value(x), Pc)
  <2>1. {"mstatus", "mideleg", "medeleg"} \subseteq Stored
    BY Zenon DEF Stored, MachineRegs
  <2>2. /\ Written("mstatus", x, lines) = csr["mstatus"]
        /\ Written("mideleg", x, lines) = csr["mideleg"]
        /\ Written("medeleg", x, lines) = csr["medeleg"]
    BY <1>3, <2>1, Zenon
  <2>3. AfterTrap(x, lines, trap_cause(x), FALSE, Pc, trap_value(x)) =
          IssTrap(Executed(x, lines), trap_cause(x), FALSE, trap_value(x), Pc)
    BY <2>2, TrapAgrees, ZenonT(30)
  <2>4. QED
    BY <1>2, <2>3, Zenon DEF AfterException, Here, Executed
<1>5. Here.priv = priv_mode
  BY Zenon DEF Here
<1>6. CASE x.fault # "none"
  BY <1>4, <1>6, Zenon DEF IssStep, trap_cause, trap_value, Exec, Faults
<1>7. CASE x.fault = "none"
  <2>1. trap_value(x) = {}
    BY <1>7, Zenon DEF trap_value
  <2>2. x.kind \in {"illegal", "csr", "mret", "sret", "sfence"} =>
           illegal_instruction(x)
    BY <1>7, Zenon DEF exception_taken, illegal_instruction
  <2>3. CASE illegal_instruction(x)
    <3>1. trap_cause(x) = 2
      BY <1>7, <2>3, Zenon DEF trap_cause
    <3>2. IssStep(Here, x) = IssTrap(Here, 2, FALSE, {}, Pc)
      BY <1>5, <1>7, <2>3, Zenon
         DEF IssStep, illegal_instruction, csr_priv_violation,
         mret_priv_violation, sret_priv_violation, sfence_priv_violation
    <3>3. QED
      BY <1>4, <2>1, <3>1, <3>2, Zenon
  <2>4. CASE ~illegal_instruction(x)
    <3>1. x.kind \in {"ecall", "ebreak"}
      BY <1>7, <2>4, Zenon DEF exception_taken
    <3>2. CASE x.kind = "ecall"
      <4>1. IssStep(Here, x) =
              IssTrap(Here, CASE priv_mode = M -> 11 [] priv_mode = S -> 9 [] OTHER -> 8,
                      FALSE, {}, Pc)
        BY <1>5, <1>7, <3>2, Zenon DEF IssStep
      <4>2. trap_cause(x) = CASE priv_mode = M -> 11 [] priv_mode = S -> 9 [] OTHER -> 8
        BY <1>7, <2>4, <3>2, Zenon DEF trap_cause
      <4>3. QED
        BY <1>4, <2>1, <4>1, <4>2, Zenon
    <3>3. CASE x.kind = "ebreak"
      <4>1. IssStep(Here, x) = IssTrap(Here, 3, FALSE, {}, Pc)
        BY <1>7, <3>3, Zenon DEF IssStep
      <4>2. trap_cause(x) = 3
        BY <1>7, <2>4, <3>3, Zenon DEF trap_cause
      <4>3. QED
        BY <1>4, <2>1, <4>1, <4>2, Zenon
    <3>4. QED
      BY <3>1, <3>2, <3>3, Zenon
  <2>5. QED
    BY <2>3, <2>4, Zenon
<1>8. QED
  BY <1>6, <1>7, Zenon

\* An instruction that retires.
LEMMA RetireAgrees ==
    ASSUME TypeOK, NEW x \in Exec, NEW lines \in SUBSET {MSI, MTI, MEI},
           ~exception_taken(x)
    PROVE  AfterRetire(x, lines) = IssStep(Here, x)
<1>1. x.fault = "none" /\ ~illegal_instruction(x)
      /\ x.kind \in {"plain", "jump", "sfence", "mret", "sret", "fp", "csr"}
  BY Zenon DEF exception_taken, illegal_instruction, Exec, Kinds
<1>2. Here.priv = priv_mode /\ Here.csr = csr
  BY Zenon DEF Here
<1>3. csr \in [Stored -> SUBSET Bit]
  BY Zenon DEF TypeOK
<1>4. "mstatus" \in Stored /\ "fflags" \in Stored
  BY Zenon DEF Stored, MachineRegs, FpRegs
<1>5. ~mret_real(x) /\ ~sret_real(x) =>
        AfterRetire(x, lines) =
          [priv |-> priv_mode, csr |-> [r \in Stored |-> Written(r, x, lines)]]
  BY Zenon DEF AfterRetire, PrivAfter, Untrapped
<1>6. CASE x.kind \in {"plain", "jump", "sfence"}
  <2>1. ~mret_real(x) /\ ~sret_real(x) /\ ~csr_write_en(x)
    BY <1>6, Zenon DEF mret_real, sret_real, csr_write_en
  <2>2. IssStep(Here, x) = Here
    BY <1>1, <1>2, <1>6, Zenon
       DEF IssStep, illegal_instruction, sfence_priv_violation
  <2>3. QED
    BY <1>5, <1>6, <2>1, <2>2, Unwritten, Zenon DEF Here
<1>7. CASE x.kind \in {"mret", "sret"}
  <2>1. \A r \in Stored : Written(r, x, lines) = csr[r]
    BY <1>7, Unwritten, Zenon DEF csr_write_en, Written
  <2>2. IF x.kind = "mret" THEN mret_real(x) /\ ~sret_real(x)
        ELSE sret_real(x) /\ ~mret_real(x)
    BY <1>1, <1>7, Zenon DEF mret_real, sret_real, illegal_instruction
  <2> DEFINE m == csr["mstatus"]
             left == IF x.kind = "mret" THEN LeaveM(m) ELSE LeaveS(m)
  <2>3. Untrapped(x, lines) = [csr EXCEPT !["mstatus"] = left]
    BY <1>3, <1>4, <2>1, <2>2, Zenon DEF Untrapped
  <2>4. priv_mode \in 0..3
    BY Zenon DEF TypeOK
  <2>5. IssStep(Here, x) = IF x.kind = "mret" THEN IssMret(Here) ELSE IssSret(Here)
    BY <1>1, <1>2, <1>7, Zenon
       DEF IssStep, illegal_instruction, mret_priv_violation,
       sret_priv_violation
  <2>6. IssMret(Here) = [priv |-> MppOf(m), csr |-> [csr EXCEPT !["mstatus"] = LeaveM(m)]]
    BY <1>2, <2>4, StacksAgree, Zenon DEF IssMret
  <2>7. IssSret(Here) = [priv |-> IF SPP \in m THEN S ELSE U,
                         csr |-> [csr EXCEPT !["mstatus"] = LeaveS(m)]]
    BY <1>2, <2>4, StacksAgree, Zenon DEF IssSret, SPP
  <2>8. QED
    BY <1>7, <2>2, <2>3, <2>5, <2>6, <2>7, Zenon DEF AfterRetire, PrivAfter
<1>8. CASE x.kind = "fp"
  <2>1. ~mret_real(x) /\ ~sret_real(x) /\ ~csr_write_en(x)
    BY <1>8, Zenon DEF mret_real, sret_real, csr_write_en
  <2>2. IssStep(Here, x) = Set(Here, "fflags", csr["fflags"] \cup x.wdata)
    BY <1>1, <1>2, <1>8, Zenon DEF IssStep
  <2>3. Set(Here, "fflags", csr["fflags"] \cup x.wdata) =
          [priv |-> priv_mode,
           csr |-> [r \in Stored |-> IF r = "fflags" THEN csr["fflags"] \cup x.wdata
                                     ELSE csr[r]]]
    <3> DEFINE w == csr["fflags"] \cup x.wdata
    <3> HIDE DEF w
    <3>1. [csr EXCEPT !["fflags"] = w] =
             [r \in Stored |-> IF r = "fflags" THEN w ELSE csr[r]]
      BY <1>3, <1>4, Zenon
    <3>2. QED
      BY <3>1 DEF Set, Here, w
  <2>4. \A r \in Stored : Written(r, x, lines) =
           IF r = "fflags" THEN csr["fflags"] \cup x.wdata ELSE csr[r]
    BY <1>8, <2>1, Zenon DEF Written
  <2>5. QED
    BY <1>5, <2>1, <2>2, <2>3, <2>4, Zenon
<1>9. CASE x.kind = "csr"
  <2>1. ~mret_real(x) /\ ~sret_real(x) /\ csr_write_en(x)
    BY <1>1, <1>9, Zenon
       DEF mret_real, sret_real, csr_write_en, illegal_instruction
  <2> DEFINE old == IssRead(Here, x.addr)
             new == CASE x.op = "csrrw" -> x.wdata
                      [] x.op = "csrrs" -> old \cup x.wdata
                      [] OTHER -> old \ x.wdata
  <2>2. x.addr \in Addr /\ x.op \in {"csrrw", "csrrs", "csrrc"}
    BY Zenon DEF Exec
  <2>3. IssStep(Here, x) = IssWrite(Here, x.addr, new)
    BY <1>1, <1>2, <1>9, Zenon
       DEF IssStep, illegal_instruction, csr_priv_violation
  <2>4. IssWrite(Here, x.addr, new) =
          [priv |-> priv_mode, csr |-> [r \in Stored |-> Masked(r, x.addr, new)]]
    <3> HIDE DEF new
    <3>1. QED
      BY <2>2, WriteAgrees, Zenon
  <2>5. csr_rdata(x.addr, lines) = IF x.addr = "mip" THEN old \cup lines ELSE old
    <3> DEFINE high == {b + 5 : b \in csr["frm"]}
    <3>1. CASE x.addr = "fcsr"
      BY <1>2, <3>1, Zenon DEF csr_rdata, IssRead
    <3>2. CASE x.addr # "fcsr"
      BY <1>2, <3>2, Masks, Zenon DEF csr_rdata, IssRead
    <3>3. QED
      BY <3>1, <3>2, Zenon
  <2>6. ASSUME NEW r \in Stored
        PROVE  Masked(r, x.addr, new_val(x, lines)) = Masked(r, x.addr, new)
    <3>1. CASE x.addr # "mip"
      <4>1. new_val(x, lines) = new
        BY <2>2, <2>5, <3>1, Zenon DEF new_val
      <4>2. QED
        BY <4>1, Zenon
    <3>2. CASE x.addr = "mip"
      <4>1. new_val(x, lines) \cap SIE_BITS = new \cap SIE_BITS
        BY <2>2, <2>5, <3>2 DEF new_val, SIE_BITS, SSI, STI, SEI, MSI, MTI, MEI
      <4>2. ASSUME NEW v
            PROVE  Masked(r, "mip", v) = IF r = "mip" THEN v \cap SIE_BITS ELSE csr[r]
        BY Zenon DEF Masked
      <4> HIDE DEF new
      <4>3. QED
        BY <3>2, <4>1, <4>2, Zenon
    <3>3. QED
      BY <3>1, <3>2, Zenon
  <2>7. \A r \in Stored : Written(r, x, lines) = Masked(r, x.addr, new)
    BY <1>9, <2>1, <2>6, Zenon DEF Written
  <2> HIDE DEF new
  <2>8. QED
    BY <1>5, <2>1, <2>3, <2>4, <2>7, Zenon
<1>10. QED
  BY <1>1, <1>6, <1>7, <1>8, <1>9, Zenon

\* An instruction and an interrupt in one cycle: what CSR.v's chains leave is
\* what the instruction and then the trap leave.
LEMMA InterruptAgrees ==
    ASSUME TypeOK, NEW x \in Exec, NEW lines \in SUBSET {MSI, MTI, MEI},
           interrupt_taken(x, lines),
           ~Collision(x, lines), ~MaskedCause(lines)
    PROVE  \E c \in IssInterrupts(Here, lines) :
              AfterInterrupt(x, lines) =
                 IssTrap(IssStep(Here, x), c, TRUE, {}, NextPc)
<1> DEFINE c == interrupt_cause(lines)
<1>1. ~exception_taken(x) /\ ~mret_real(x) /\ ~sret_real(x)
  BY Zenon DEF interrupt_taken, other_redirect_taken
<1>2. IssStep(Here, x) =
        [priv |-> priv_mode, csr |-> [r \in Stored |-> Written(r, x, lines)]]
  <2>1. AfterRetire(x, lines) =
          [priv |-> priv_mode, csr |-> [r \in Stored |-> Written(r, x, lines)]]
    BY <1>1, Zenon DEF AfterRetire, PrivAfter, Untrapped
  <2>2. QED
    BY <1>1, <2>1, RetireAgrees, Zenon
<1>3. {"mstatus", "mideleg", "medeleg"} \subseteq Stored \ {"fflags"}
  BY Zenon DEF Stored, MachineRegs
<1>4. Written("mstatus", x, lines) = csr["mstatus"]
  BY <1>3, WrittenElsewhere, Zenon DEF Collision
<1>5. priv_mode # M => /\ Written("mideleg", x, lines) = csr["mideleg"]
                       /\ Written("medeleg", x, lines) = csr["medeleg"]
  BY <1>3, WrittenBelowM, WrittenElsewhere, Zenon DEF MachineRegs
<1>6. AfterInterrupt(x, lines) = IssTrap(IssStep(Here, x), c, TRUE, {}, NextPc)
  <2>1. AfterTrap(x, lines, c, TRUE, NextPc, {}) =
          IssTrap(Executed(x, lines), c, TRUE, {}, NextPc)
    BY <1>4, <1>5, TrapAgrees, ZenonT(30)
  <2>2. QED
    BY <1>2, <2>1, Zenon DEF AfterInterrupt, Executed
<1>7. c \in IssInterrupts(Here, lines)
  <2>1. Here.csr = csr
    BY Zenon DEF Here
  <2>2. m_pending(lines) \subseteq {MSI, MTI, MEI} /\ s_pending \subseteq {SSI, STI}
    BY Zenon DEF m_pending, s_pending
  <2>3. CASE m_pending(lines) # {}
    <3>1. c \in m_pending(lines)
      BY <2>2, <2>3, Zenon DEF interrupt_cause
    <3>2. 3 \in csr["mstatus"]
      BY <2>3, Zenon DEF MaskedCause, MIE
    <3>3. QED
      BY <2>1, <3>1, <3>2, Zenon DEF IssInterrupts, m_pending
  <2>4. CASE m_pending(lines) = {}
    <3>1. s_pending # {}
      BY <2>4, Zenon DEF interrupt_taken
    <3>2. c \in s_pending
      BY <2>2, <2>4, <3>1, Zenon DEF interrupt_cause
    <3>3. QED
      BY <3>2, Zenon DEF IssInterrupts
  <2>5. QED
    BY <2>3, <2>4, Zenon
<1>8. QED
  BY <1>6, <1>7, Zenon

\* Every cycle of the core is one instruction of the simulator, followed by
\* an interrupt when the core takes one, whatever the software, the devices
\* and the state of the registers.
THEOREM AgreesWithIss == Spec => [](Comparable => MatchesIss)
<1>1. IInv => (Comparable => MatchesIss)
  <2> SUFFICES ASSUME IInv, Comparable,
                      NEW x \in {e \in build.execs : Possible(e)},
                      NEW lines \in SUBSET build.lines
               PROVE  /\ exception_taken(x) => AfterException(x, lines) = IssStep(Here, x)
                      /\ ~exception_taken(x) => AfterRetire(x, lines) = IssStep(Here, x)
                      /\ interrupt_taken(x, lines) /\ Allowed(x, lines) =>
                            \E c \in IssInterrupts(Here, lines) :
                               AfterInterrupt(x, lines) =
                                  IssTrap(IssStep(Here, x), c, TRUE, {}, NextPc)
    BY Zenon DEF MatchesIss
  <2>1. x \in Exec /\ lines \in SUBSET {MSI, MTI, MEI} /\ TypeOK
    BY BuildTyped, Zenon DEF IInv
  <2>2. x.fault # "none" => x.kind \notin {"csr", "fp"}
    BY Zenon DEF Comparable
  <2>3. interrupt_taken(x, lines) /\ Allowed(x, lines) =>
           ~Collision(x, lines) /\ ~MaskedCause(lines)
    BY Zenon DEF Comparable, Allowed
  <2>4. QED
    BY <2>1, <2>2, <2>3, ExceptionAgrees, RetireAgrees, InterruptAgrees, Zenon
<1>2. QED
  BY <1>1, Invariant, PTL

=============================================================================
