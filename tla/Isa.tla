--------------------------------- MODULE Isa ---------------------------------
(***************************************************************************)
(* The architecture the pipeline promises to implement: one instruction at *)
(* a time, each reading and writing the whole architectural state at once, *)
(* and interrupts taken between two instructions.  A clock cycle of the    *)
(* pipeline may execute an instruction and take an interrupt right behind  *)
(* it, so that pair is a step too.                                         *)
(***************************************************************************)
EXTENDS Instructions

VARIABLE arch

InterruptIn(s) == s.mie /\ arch' = Trap(s)

Execute(i) == arch' = Exec(i, arch)
Interrupt == InterruptIn(arch)
ExecuteInterrupted(i) == InterruptIn(Exec(i, arch))

Init == \E image \in [Val -> Val] :
          arch = [pc |-> 0, regs |-> ResetRegs,
                  mem |-> image, scratch |-> 0, mie |-> FALSE,
                  mpie |-> FALSE, mepc |-> 0, instret |-> 0]

Next == \/ Interrupt
        \/ \E i \in Inst : Execute(i) \/ ExecuteInterrupted(i)

Spec == Init /\ [][Next]_arch

=============================================================================
