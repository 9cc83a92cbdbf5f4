--------------------------------- MODULE MCCSR ---------------------------------
(***************************************************************************)
(* Builds of module CSR: what software executes and which interrupt lines  *)
(* the devices may raise.  MPP is always written as a pair of bits, so the *)
(* reserved level 2 is never restored.                                     *)
(***************************************************************************)
EXTENDS IssPrivilege

Other(kind) == [kind |-> kind, fault |-> "none", addr |-> "mscratch",
                op |-> "csrrw", wdata |-> {}]
Faulting(fault, x) == [x EXCEPT !.fault = fault]
Access(op, addr, wdata) == [kind |-> "csr", fault |-> "none", addr |-> addr,
                            op |-> op, wdata |-> wdata]
Flags(bits) == [Other("fp") EXCEPT !.wdata = bits]

All == {1, 3, 5, 7, 8, 9, 11, 12}
ToS == {11}
ToM == {11, 12}

\* The enable stacks: traps, delegation and returns through both levels,
\* with mstatus and sstatus rewritten in between.
Stacks ==
    [execs |-> {Other("plain"), Other("ecall"), Other("mret"), Other("sret"),
                Access("csrrw", "mstatus", {}), Access("csrrw", "mstatus", All \ {12}),
                Access("csrrs", "mstatus", {MIE}), Access("csrrs", "mstatus", ToS),
                Access("csrrc", "mstatus", ToM), Access("csrrw", "sstatus", All),
                Access("csrrc", "sstatus", {SIE, MIE}), Access("csrrw", "medeleg", {8, 9}),
                Access("csrrs", "mie", {MTI})},
     lines |-> {MTI}, agree |-> TRUE]

\* Interrupts of both levels, delegated or not, enabled and raised by software.
Levels ==
    [execs |-> {Other("plain"), Other("mret"), Other("sret"),
                Access("csrrw", "mstatus", {MIE, MPIE, SIE, 11}),
                Access("csrrs", "sstatus", {SIE}), Access("csrrw", "mideleg", {SSI, STI, MSI}),
                Access("csrrs", "mie", {MTI, MSI, STI}), Access("csrrw", "sie", {SSI, MTI}),
                Access("csrrc", "sie", All), Access("csrrs", "mip", {STI, MTI}),
                Access("csrrw", "sip", {SSI})},
     lines |-> {MSI, MTI}, agree |-> TRUE]

\* Every kind of instruction and fault, and the plain registers.
Registers ==
    [execs |-> {Other(k) : k \in Kinds \ {"csr"}} \cup
               {Faulting("fetch", Other(k)) : k \in {"plain", "mret", "ecall"}} \cup
               {Faulting(f, Other("plain")) : f \in {"load", "store"}} \cup
               {Flags({4}), Access("csrrw", "fcsr", {0, 6}), Access("csrrs", "frm", {0}),
                Access("csrrw", "medeleg", {2, 12}), Access("csrrw", "sepc", {3}),
                Access("csrrw", "mstatus", ToS), Access("csrrw", "satp", {31})},
     lines |-> {}, agree |-> TRUE]

PassBuilds == {Stacks, Levels, Registers}

\* A csrrX instruction that retires in the cycle an interrupt is taken.
CollisionBuilds ==
    {[execs |-> {Other("plain"), Access("csrrs", "mstatus", {MIE}),
                 Access("csrrc", "mstatus", {MIE}), Access("csrrs", "mie", {MTI})},
      lines |-> {MTI}, agree |-> FALSE]}
=============================================================================
