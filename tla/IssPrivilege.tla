------------------------------ MODULE IssPrivilege ------------------------------
(***************************************************************************)
(* The reference for the CSRs: the instruction-set simulator               *)
(* (sim/tools/iss.py), which executes one instruction at a time.  st is    *)
(* [priv, csr]; an instruction x is as in module CSR.                      *)
(***************************************************************************)
EXTENDS CSR

IssMstatusMask == {3, 7, 1, 5, 8, 11, 12}
IssSstatusMask == {1, 5, 8}
IssMieMask == {3, 7, 11, 1, 5, 9}
IssSieMask == {1, 5, 9}

Set(st, r, v) == [st EXCEPT !.csr[r] = v]

\* csr_read
IssRead(st, addr) ==
    CASE addr = "fcsr" -> {b + 5 : b \in st.csr["frm"]} \cup st.csr["fflags"]
      [] addr = "sstatus" -> st.csr["mstatus"] \cap IssSstatusMask
      [] addr = "sie" -> st.csr["mie"] \cap IssSieMask
      [] addr = "sip" -> st.csr["mip"] \cap IssSieMask
      [] OTHER -> st.csr[addr]

\* csr_write
IssWrite(st, addr, v) ==
    CASE addr = "fflags" -> Set(st, "fflags", v \cap 0..4)
      [] addr = "frm" -> Set(st, "frm", v \cap 0..2)
      [] addr = "fcsr" ->
            Set(Set(st, "frm", {b - 5 : b \in v \cap 5..7}), "fflags", v \cap 0..4)
      [] addr = "mstatus" -> Set(st, addr, v \cap IssMstatusMask)
      [] addr = "sstatus" ->
            Set(st, "mstatus", (st.csr["mstatus"] \ IssSstatusMask) \cup
                               (v \cap IssSstatusMask))
      [] addr = "mie" -> Set(st, addr, v \cap IssMieMask)
      [] addr = "sie" -> Set(st, "mie", (st.csr["mie"] \ IssSieMask) \cup
                                        (v \cap IssSieMask))
      [] addr \in {"mip", "sip"} -> Set(st, "mip", v \cap IssSieMask)
      [] addr = "medeleg" -> Set(st, addr, v \cap {2, 3, 8, 9, 11, 12, 13, 15})
      [] addr = "mideleg" -> Set(st, addr, v \cap IssMieMask)
      [] OTHER -> Set(st, addr, v)

\* trap: code and is_interrupt are the two parts of the cause.
IssTrap(st, code, is_interrupt, tval, pc) ==
    LET m == st.csr["mstatus"]
        deleg == st.csr[IF is_interrupt THEN "mideleg" ELSE "medeleg"]
        cause == CauseBits(code, is_interrupt)
        to_s == st.priv # M /\ code \in deleg
        sstack == (m \ {1, 5, 8}) \cup (IF 1 \in m THEN {5} ELSE {})
                     \cup (IF st.priv % 2 = 1 THEN {8} ELSE {})
        mstack == (m \ {3, 7, 11, 12}) \cup (IF 3 \in m THEN {7} ELSE {})
                     \cup MppBits(st.priv)
    IN IF to_s
       THEN [priv |-> S, csr |-> [st.csr EXCEPT !["sepc"] = pc, !["scause"] = cause,
                                    !["stval"] = tval, !["mstatus"] = sstack]]
       ELSE [priv |-> M, csr |-> [st.csr EXCEPT !["mepc"] = pc, !["mcause"] = cause,
                                    !["mtval"] = tval, !["mstatus"] = mstack]]

IssMret(st) ==
    LET m == st.csr["mstatus"]
    IN [priv |-> MppOf(m),
        csr |-> [st.csr EXCEPT !["mstatus"] =
                   (m \ {3, 7, 11, 12}) \cup {7} \cup (IF 7 \in m THEN {3} ELSE {})]]

IssSret(st) ==
    LET m == st.csr["mstatus"]
    IN [priv |-> IF 8 \in m THEN S ELSE U,
        csr |-> [st.csr EXCEPT !["mstatus"] =
                   (m \ {1, 5, 8}) \cup {5} \cup (IF 5 \in m THEN {1} ELSE {})]]

\* step, with the translations that come first and may fault.
IssStep(st, x) ==
    LET illegal == IssTrap(st, 2, FALSE, {}, Pc)
        old == IssRead(st, x.addr)
        new == CASE x.op = "csrrw" -> x.wdata
                 [] x.op = "csrrs" -> old \cup x.wdata
                 [] OTHER -> old \ x.wdata
    IN IF x.fault = "fetch" THEN IssTrap(st, 12, FALSE, Pc, Pc)
       ELSE IF x.fault = "load" THEN IssTrap(st, 13, FALSE, DataAddr, Pc)
       ELSE IF x.fault = "store" THEN IssTrap(st, 15, FALSE, DataAddr, Pc)
       ELSE CASE x.kind = "illegal" -> illegal
         [] x.kind = "sfence" -> IF st.priv = U THEN illegal ELSE st
         [] x.kind = "ecall" ->
               IssTrap(st, CASE st.priv = M -> 11 [] st.priv = S -> 9 [] OTHER -> 8,
                       FALSE, {}, Pc)
         [] x.kind = "ebreak" -> IssTrap(st, 3, FALSE, {}, Pc)
         [] x.kind = "mret" -> IF st.priv # M THEN illegal ELSE IssMret(st)
         [] x.kind = "sret" -> IF st.priv = U THEN illegal ELSE IssSret(st)
         [] x.kind = "csr" -> IF st.priv < RequiredPriv(x.addr) THEN illegal
                              ELSE IssWrite(st, x.addr, new)
         [] x.kind = "fp" -> Set(st, "fflags", st.csr["fflags"] \cup x.wdata)
         [] OTHER -> st

\* The interrupts the reference may take: run() asks for mstatus.MIE, and it
\* knows no supervisor interrupts, which are taken as the core sees them.
IssInterrupts(st, lines) ==
    (IF 3 \in st.csr["mstatus"] THEN st.csr["mie"] \cap lines ELSE {}) \cup s_pending

----------------------------------------------------------------------------
\* Every cycle of the core is one instruction of the simulator, followed by
\* one enabled interrupt when the core takes one: the per-register chains of
\* CSR.v, fed by an interrupt and an instruction at once, lose nothing.
Here == [priv |-> priv_mode, csr |-> csr]

MatchesIss ==
    \A x \in {e \in build.execs : Possible(e)}, lines \in SUBSET build.lines :
       /\ exception_taken(x) => AfterException(x, lines) = IssStep(Here, x)
       /\ ~exception_taken(x) => AfterRetire(x, lines) = IssStep(Here, x)
       /\ interrupt_taken(x, lines) /\ Allowed(x, lines) =>
             \E c \in IssInterrupts(Here, lines) :
                AfterInterrupt(x, lines) =
                   IssTrap(IssStep(Here, x), c, TRUE, {}, NextPc)
=============================================================================
