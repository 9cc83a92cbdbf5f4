---------------------------- MODULE FirmwareProofs ----------------------------
(***************************************************************************)
(* Proofs about module Firmware, for every time bound, every set of timer  *)
(* targets, any order of calls, any number of data bits and any speed of   *)
(* the serial port.  First the traps and the timer (IInv), then the bytes  *)
(* on their way through the serial port (BInv).                            *)
(***************************************************************************)
EXTENDS Firmware, ArithmeticLemmas

----------------------------------------------------------------------------
(* The inductive invariant.                                                *)

\* All the general registers, with a number in a0.
Registers(r) ==
  /\ r = [x5 |-> r.x5, a0 |-> r.a0, a1 |-> r.a1, a7 |-> r.a7, s |-> r.s]
  /\ r.a0 \in Int

CsrNames == {"mie", "mpie", "sie", "spie", "mtie", "stie", "stip", "ssip",
             "mcause", "mepc", "sepc", "mscratch"}

Shape ==
  /\ build \in Builds /\ mtime \in 0..TMAX
  /\ cpu = [mode |-> cpu.mode, at |-> cpu.at]
  /\ DOMAIN csr = CsrNames
  /\ DOMAIN mem = {"saved", "stack", "err", "val", "frame"}
  /\ mem.err \in Int
  /\ armed = [target |-> armed.target, forwards |-> armed.forwards,
              ticks |-> armed.ticks]
  /\ Registers(regs) /\ Registers(mem.saved) /\ Registers(mem.frame)
  /\ Registers(ctx.regs)

\* The places of the machine-mode code behind a trap: between the save of
\* the registers and their return, and up to the write of mip.
Serving == {"dispatch", "mtimecmp", "mip", "lsr", "lsr_end", "rbr", "rbr_end",
            "thr", "return"}
Arming == {"swap", "save", "dispatch", "mtimecmp", "mip"}

InTrap == cpu.mode = "M" /\ cpu.at # "boot"
AtM(place) == cpu.mode = "M" /\ cpu.at = place
Causes == InTrap => csr.mcause \in {"ecall", "timer"}

\* Where the supervisor's registers are.  x5 and mscratch take turns in
\* holding trap_scratch's address; outside trap_entry.S mscratch has it.
Resume == IF csr.mcause = "ecall" THEN Skip4(ctx.at) ELSE ctx.at
Answered ==
  mem.saved = IF csr.mcause = "ecall"
              THEN [ctx.regs EXCEPT !.a0 = mem.saved.a0, !.a1 = mem.saved.a1]
              ELSE ctx.regs
Saved ==
  /\ cpu.mode = "S" => csr.mscratch = "base"
  /\ AtM("swap") =>
       /\ csr.mscratch = "base" /\ csr.mepc = ctx.at
       /\ regs = ctx.regs
  /\ AtM("save") =>
       /\ csr.mscratch = ctx.regs.x5 /\ csr.mepc = ctx.at
       /\ regs = [ctx.regs EXCEPT !.x5 = "base"]
  /\ cpu.mode = "M" /\ cpu.at \in Serving =>
       /\ csr.mscratch = "base" /\ csr.mepc = ctx.at
       /\ mem.saved = ctx.regs /\ mem.stack = "base"
  /\ AtM("restore") =>
       /\ csr.mscratch = "base" /\ csr.mepc = Resume
       /\ Answered /\ regs.x5 = "base"
  /\ AtM("mret") =>
       /\ csr.mscratch = "base" /\ csr.mepc = Resume
       /\ Answered /\ regs = mem.saved

\* The target the supervisor asked for is past.
Due == armed.target = BOOT \/ armed.target <= mtime

\* set_timer is on its way to mtimecmp and mip.
SettingTimer ==
  /\ cpu.mode = "M" /\ cpu.at \in Arming /\ csr.mcause = "ecall"
  /\ ctx.regs.a7 = "set_timer"
Forwarding == cpu.mode = "M" /\ cpu.at \in Arming /\ csr.mcause = "timer"

\* Where the timer asked for is: in mtimecmp until it is forwarded, then in
\* mip.STIP, with mtimecmp parked.
Tracked ==
  /\ armed.target \in Int /\ armed.forwards \in {0, 1}
  /\ armed.forwards = 1 => mtimecmp = NEVER
  /\ armed.forwards = 0 /\ armed.target # BOOT /\ ~SettingTimer /\ ~Forwarding
       => mtimecmp = armed.target
  /\ SettingTimer => armed.forwards = 0 /\ armed.target = ctx.regs.a0
  /\ SettingTimer /\ cpu.at = "mip" => mtimecmp = armed.target
  /\ Forwarding => armed.forwards = 0 /\ Due
  /\ Forwarding /\ cpu.at = "mip" => mtimecmp = NEVER
  /\ cpu.mode = "M" /\ cpu.at \in {"mtimecmp", "mip"} =>
       SettingTimer \/ Forwarding
  /\ csr.stip /\ ~SettingTimer => Due

IInv == Shape /\ Causes /\ Saved /\ Tracked

----------------------------------------------------------------------------
(* A clock of the devices, as the processor sees it.                       *)

\* Without a write to it mtimecmp stays; mtime never goes back.
LEMMA Tick ==
    ASSUME Shape, Clock(NoBus)
    PROVE  /\ build' = build /\ mtimecmp' = mtimecmp
           /\ mtime' \in 0..TMAX /\ mtime' >= mtime
<1>1. PICK dt \in build.Ticks : TimerEdge(NoBus, dt)
  BY Zenon DEF Clock
<1>2. dt \in Nat
  BY BuildsAssumption, Zenon DEF Shape
<1>3. mtime \in 0..TMAX /\ TMAX \in Nat
  BY TmaxAssumption, Zenon DEF Shape
<1>4. QED
  BY <1>1, <1>2, <1>3 DEF TimerEdge, NoBus, Clock

\* The same with the firmware's own access on the bus.
LEMMA TickBus ==
    ASSUME Shape, Clock(Bus)
    PROVE  /\ build' = build
           /\ mtimecmp' = IF cpu.at # "mtimecmp" THEN mtimecmp
                          ELSE IF csr.mcause = "ecall" THEN mem.saved.a0
                          ELSE NEVER
           /\ mtime' \in 0..TMAX /\ mtime' >= mtime
<1>1. PICK dt \in build.Ticks : TimerEdge(Bus, dt)
  BY Zenon DEF Clock
<1>2. dt \in Nat
  BY BuildsAssumption, Zenon DEF Shape
<1>3. mtime \in 0..TMAX /\ TMAX \in Nat
  BY TmaxAssumption, Zenon DEF Shape
<1>4. mtimecmp' = IF cpu.at # "mtimecmp" THEN mtimecmp
                  ELSE IF csr.mcause = "ecall" THEN mem.saved.a0 ELSE NEVER
  BY <1>1, Zenon DEF TimerEdge, Bus, NoBus
<1>5. QED
  BY <1>1, <1>2, <1>3, <1>4 DEF TimerEdge, Clock

----------------------------------------------------------------------------
(* The invariant, action by action.                                        *)

\* boot.S leaves trap_scratch's address in mscratch.
LEMMA BootStep ==
    ASSUME IInv, Boot
    PROVE  IInv'
<1>1. /\ AtM("boot") /\ cpu' = [mode |-> "S", at |-> "run"]
      /\ DOMAIN csr' = CsrNames /\ csr'.mscratch = "base" /\ csr'.stip = csr.stip
      /\ Registers(regs') /\ mem' = mem /\ ctx' = ctx /\ armed' = armed
  BY DEF IInv, Shape, Registers, CsrNames, AtM, history, Boot, BootCsrs, At
<1>2. /\ build' = build /\ mtimecmp' = mtimecmp
      /\ mtime' \in 0..TMAX /\ mtime' >= mtime
  BY Tick, Zenon DEF IInv, Boot
<1>3. Shape'
  BY <1>1, <1>2, Zenon DEF IInv, Shape, Registers
<1>4. Causes'
  BY <1>1, Zenon DEF IInv, Causes, InTrap, AtM
<1>5. Saved'
  BY <1>1, Zenon DEF IInv, Shape, Registers, Saved, AtM, Serving
<1>6. Tracked'
  BY <1>1, <1>2 DEF IInv, Shape, Tracked, SettingTimer, Forwarding, Due,
     Arming, AtM
<1>7. QED
  BY <1>3, <1>4, <1>5, <1>6, Zenon DEF IInv

\* x5 and mscratch trade places.
LEMMA SwapStep ==
    ASSUME IInv, Swap
    PROVE  IInv'
<1>1. /\ AtM("swap") /\ cpu' = [mode |-> "M", at |-> "save"]
      /\ DOMAIN csr' = CsrNames /\ csr'.mscratch = regs.x5
      /\ csr'.mepc = csr.mepc /\ csr'.mcause = csr.mcause /\ csr'.stip = csr.stip
      /\ Registers(regs') /\ regs' = [regs EXCEPT !.x5 = csr.mscratch]
      /\ mem' = mem /\ ctx' = ctx /\ armed' = armed
  BY Zenon DEF IInv, Shape, Registers, CsrNames, AtM, history, Swap, At, Goto
<1>2. /\ build' = build /\ mtimecmp' = mtimecmp
      /\ mtime' \in 0..TMAX /\ mtime' >= mtime
  BY Tick, Zenon DEF IInv, Swap
<1>3. Shape'
  BY <1>1, <1>2, Zenon DEF IInv, Shape, Registers
<1>4. Causes'
  BY <1>1, Zenon DEF IInv, Causes, InTrap, AtM
<1>5. Saved'
  BY <1>1, Zenon DEF IInv, Shape, Registers, Saved, AtM, Serving
<1>6. Tracked'
  BY <1>1, <1>2 DEF IInv, Shape, Tracked, SettingTimer, Forwarding, Due,
     Arming, AtM
<1>7. QED
  BY <1>3, <1>4, <1>5, <1>6, Zenon DEF IInv

\* trap_scratch gets the registers, the x5 that mscratch held included, and
\* mscratch its address back.
LEMMA SaveStep ==
    ASSUME IInv, Save
    PROVE  IInv'
<1>1. /\ AtM("save") /\ cpu' = [mode |-> "M", at |-> "dispatch"]
      /\ DOMAIN csr' = CsrNames /\ csr'.mscratch = "base"
      /\ csr'.mepc = csr.mepc /\ csr'.mcause = csr.mcause /\ csr'.stip = csr.stip
      /\ DOMAIN mem' = DOMAIN mem /\ mem'.stack = "base" /\ mem'.saved = ctx.regs
      /\ mem'.err = mem.err /\ mem'.frame = mem.frame
      /\ regs' = regs /\ ctx' = ctx /\ armed' = armed
  BY Zenon
     DEF IInv, Shape, Registers, CsrNames, AtM, history, Save, At, Goto, Saved
<1>2. /\ build' = build /\ mtimecmp' = mtimecmp
      /\ mtime' \in 0..TMAX /\ mtime' >= mtime
  BY Tick, Zenon DEF IInv, Save
<1>3. Shape'
  BY <1>1, <1>2, Zenon DEF IInv, Shape, Registers
<1>4. Causes'
  BY <1>1, Zenon DEF IInv, Causes, InTrap, AtM
<1>5. Saved'
  BY <1>1, Zenon DEF IInv, Shape, Registers, Saved, AtM, Serving
<1>6. Tracked'
  BY <1>1, <1>2 DEF IInv, Shape, Tracked, SettingTimer, Forwarding, Due,
     Arming, AtM
<1>7. QED
  BY <1>3, <1>4, <1>5, <1>6, Zenon DEF IInv

\* sbi_dispatch turns to the timer for set_timer and for the timer interrupt
\* only.
LEMMA DispatchStep ==
    ASSUME IInv, Dispatch
    PROVE  IInv'
<1>1. /\ AtM("dispatch") /\ cpu'.mode = "M"
      /\ cpu' = [mode |-> "M", at |-> cpu'.at]
      /\ cpu'.at \in {"mtimecmp", "lsr", "halt", "return"}
      /\ cpu'.at = "mtimecmp" <=>
              csr.mcause = "timer" \/ mem.saved.a7 = "set_timer"
      /\ DOMAIN csr' = CsrNames /\ csr'.mscratch = csr.mscratch
      /\ csr'.mepc = csr.mepc /\ csr'.mcause = csr.mcause /\ csr'.stip = csr.stip
      /\ DOMAIN mem' = DOMAIN mem /\ mem'.stack = mem.stack /\ mem'.saved = mem.saved
      /\ mem'.err \in Int /\ mem'.frame = mem.frame
      /\ Registers(regs') /\ ctx' = ctx /\ armed' = armed
  <2>1. AtM("dispatch") /\ DOMAIN csr = CsrNames
        /\ DOMAIN mem = {"saved", "stack", "err", "val", "frame"}
        /\ mem.err \in Int /\ csr.mcause \in {"ecall", "timer"}
    BY Zenon DEF IInv, Shape, Causes, InTrap, AtM, Dispatch, At
  <2>2. Registers(regs') /\ ctx' = ctx /\ armed' = armed
    BY DEF Dispatch, Clobbered, Registers, history
  <2>3. CASE csr.mcause = "timer"
    <3>1. cpu' = [cpu EXCEPT !.at = "mtimecmp"]
      BY <2>3, Zenon DEF Dispatch, Goto
    <3>2. cpu' = [mode |-> "M", at |-> "mtimecmp"]
      BY <3>1, <2>1, Zenon DEF IInv, Shape, AtM
    <3>3. csr' = csr /\ mem' = mem
      BY <2>3, Zenon DEF Dispatch
    <3>4. QED
      BY <2>1, <2>2, <2>3, <3>2, <3>3, Zenon
  <2>4. CASE csr.mcause = "ecall"
    <3>1. cpu' = [cpu EXCEPT !.at = DispatchTo(mem.saved.a7)]
      BY <2>4, Zenon DEF Dispatch, Goto
    <3>2. cpu' = [mode |-> "M", at |-> DispatchTo(mem.saved.a7)]
      BY <3>1, <2>1, Zenon DEF IInv, Shape, AtM
    <3>3. /\ DispatchTo(mem.saved.a7) \in {"mtimecmp", "lsr", "halt", "return"}
          /\ DispatchTo(mem.saved.a7) = "mtimecmp" <=> mem.saved.a7 = "set_timer"
      BY Zenon DEF DispatchTo
    <3>4. /\ DOMAIN csr' = CsrNames /\ csr'.mscratch = csr.mscratch
          /\ csr'.mepc = csr.mepc /\ csr'.mcause = csr.mcause
          /\ csr'.stip = csr.stip
      BY <2>1, <2>4, Zenon DEF Dispatch, CsrNames
    <3>5. PICK err \in Int : mem' = [mem EXCEPT !.val = 0, !.err = err]
      <4>1. SBI_SUCCESS \in Int /\ SBI_ERR_NOT_SUPP \in Int
        BY DEF SBI_SUCCESS, SBI_ERR_NOT_SUPP
      <4>2. mem' = [mem EXCEPT !.val = 0,
                               !.err = IF mem.saved.a7 = "unknown"
                                       THEN SBI_ERR_NOT_SUPP ELSE SBI_SUCCESS]
        BY <2>4, Zenon DEF Dispatch
      <4>3. QED
        BY <4>1, <4>2, Zenon
    <3>6. QED
      BY <2>1, <2>2, <2>4, <3>2, <3>3, <3>4, <3>5, Zenon
  <2>5. QED
    BY <2>1, <2>3, <2>4, Zenon
<1>2. /\ build' = build /\ mtimecmp' = mtimecmp
      /\ mtime' \in 0..TMAX /\ mtime' >= mtime
  BY Tick, Zenon DEF IInv, Dispatch
<1>3. Shape'
  BY <1>1, <1>2, Zenon DEF IInv, Shape, Registers
<1>4. Causes'
  BY <1>1, Zenon DEF IInv, Causes, InTrap, AtM
<1>5. Saved'
  BY <1>1, Zenon DEF IInv, Shape, Registers, Saved, AtM, Serving
<1>6. Tracked'
  BY <1>1, <1>2 DEF IInv, Shape, Tracked, SettingTimer, Forwarding, Due,
     Arming, AtM, Causes, InTrap, Saved, Serving
<1>7. QED
  BY <1>3, <1>4, <1>5, <1>6, Zenon DEF IInv

\* mtimecmp gets the target asked for, or is parked.
LEMMA WriteMtimecmpStep ==
    ASSUME IInv, WriteMtimecmp
    PROVE  IInv'
<1>1. /\ AtM("mtimecmp") /\ cpu' = [mode |-> "M", at |-> "mip"]
      /\ regs' = regs /\ csr' = csr /\ mem' = mem /\ ctx' = ctx /\ armed' = armed
  BY Zenon
     DEF IInv, Shape, Registers, CsrNames, AtM, history, WriteMtimecmp, At,
         Goto
<1>2. /\ build' = build /\ mtime' \in 0..TMAX /\ mtime' >= mtime
      /\ mtimecmp' = IF csr.mcause = "ecall" THEN mem.saved.a0 ELSE NEVER
  BY TickBus, Zenon DEF IInv, WriteMtimecmp, At
<1>3. Shape'
  BY <1>1, <1>2, Zenon DEF IInv, Shape, Registers
<1>4. Causes'
  BY <1>1, Zenon DEF IInv, Causes, InTrap, AtM
<1>5. Saved'
  BY <1>1, Zenon DEF IInv, Shape, Registers, Saved, AtM, Serving
<1>6. Tracked'
  BY <1>1, <1>2 DEF IInv, Shape, Tracked, SettingTimer, Forwarding, Due,
     Arming, AtM, Causes, InTrap, Saved, Serving
<1>7. QED
  BY <1>3, <1>4, <1>5, <1>6, Zenon DEF IInv

\* mip.STIP is set only where the target is past.
LEMMA WriteMipStep ==
    ASSUME IInv, WriteMip
    PROVE  IInv'
<1>1. /\ AtM("mip") /\ cpu' = [mode |-> "M", at |-> "return"]
      /\ DOMAIN csr' = CsrNames /\ csr'.mscratch = csr.mscratch
      /\ csr'.mepc = csr.mepc /\ csr'.mcause = csr.mcause
      /\ csr'.stip = (csr.mcause = "timer")
      /\ regs' = regs /\ mem' = mem /\ ctx' = ctx
      /\ armed' = IF csr.mcause = "timer" /\ armed.forwards < 2
                    THEN [armed EXCEPT !.forwards = @ + 1] ELSE armed
  BY Zenon
     DEF IInv, Shape, Registers, CsrNames, AtM, history, WriteMip, At, Goto,
         Stip
<1>2. /\ build' = build /\ mtimecmp' = mtimecmp
      /\ mtime' \in 0..TMAX /\ mtime' >= mtime
  BY Tick, Zenon DEF IInv, WriteMip
<1>3. Shape'
  BY <1>1, <1>2, Zenon DEF IInv, Shape, Registers
<1>4. Causes'
  BY <1>1, Zenon DEF IInv, Causes, InTrap, AtM
<1>5. Saved'
  BY <1>1, Zenon DEF IInv, Shape, Registers, Saved, AtM, Serving
<1>6. Tracked'
  <2>1. csr.mcause \in {"ecall", "timer"}
    BY <1>1, Zenon DEF IInv, Causes, InTrap, AtM
  <2>2. CASE csr.mcause = "timer"
    <3>1. Forwarding /\ armed.forwards = 0 /\ Due /\ mtimecmp = NEVER
          /\ armed.target \in Int
      BY <1>1, <2>2, Zenon DEF IInv, Tracked, Forwarding, Arming, AtM
    <3>2. armed' = [target |-> armed.target, forwards |-> 1,
                    ticks |-> armed.ticks]
      BY <1>1, <2>2, <3>1 DEF IInv, Shape
    <3>3. Due'
      BY <1>2, <3>1, <3>2 DEF Due, IInv, Shape
    <3>4. ~SettingTimer' /\ ~Forwarding'
      BY <1>1, Zenon DEF SettingTimer, Forwarding, Arming
    <3>5. QED
      BY <1>1, <1>2, <3>1, <3>2, <3>3, <3>4 DEF Tracked, NEVER
  <2>3. CASE csr.mcause = "ecall"
    <3>1. SettingTimer /\ armed.forwards = 0 /\ mtimecmp = armed.target
          /\ armed.target \in Int
      BY <1>1, <2>3, Zenon DEF IInv, Tracked, Forwarding, Arming, AtM
    <3>2. armed' = armed /\ ~csr'.stip
      BY <1>1, <2>3, Zenon
    <3>3. ~SettingTimer' /\ ~Forwarding'
      BY <1>1, Zenon DEF SettingTimer, Forwarding, Arming
    <3>4. cpu' = [mode |-> "M", at |-> "return"] /\ mtimecmp' = mtimecmp
      BY <1>1, <1>2, Zenon
    <3>5. QED
      BY <3>1, <3>2, <3>3, <3>4 DEF Tracked
  <2>4. QED
    BY <2>1, <2>2, <2>3, Zenon
<1>7. QED
  BY <1>3, <1>4, <1>5, <1>6, Zenon DEF IInv

\* The console calls touch neither the saved registers nor the timer.
LEMMA ConsoleStep ==
    ASSUME IInv, LoadStart \/ LsrEnd \/ RbrEnd \/ WriteThr
    PROVE  IInv'
<1>1. /\ cpu.mode = "M" /\ cpu.at \in {"lsr", "lsr_end", "rbr", "rbr_end", "thr"}
      /\ cpu' = [mode |-> "M", at |-> cpu'.at]
      /\ cpu'.at \in {"lsr", "lsr_end", "rbr", "rbr_end", "thr", "return"}
      /\ DOMAIN mem' = DOMAIN mem /\ mem'.stack = mem.stack /\ mem'.saved = mem.saved
      /\ mem'.err = mem.err /\ mem'.frame = mem.frame
      /\ regs' = regs /\ csr' = csr /\ ctx' = ctx /\ armed' = armed
  BY DEF IInv, Shape, Registers, CsrNames, AtM, history, LoadStart, LsrEnd,
     RbrEnd, WriteThr, At, Goto
<1>2. /\ build' = build /\ mtimecmp' = mtimecmp
      /\ mtime' \in 0..TMAX /\ mtime' >= mtime
  BY <1>1, TickBus, Zenon DEF IInv, LoadStart, LsrEnd, RbrEnd, WriteThr, At
<1>3. Shape'
  BY <1>1, <1>2, Zenon DEF IInv, Shape, Registers
<1>4. Causes'
  BY <1>1, Zenon DEF IInv, Causes, InTrap, AtM
<1>5. Saved'
  BY <1>1, Zenon DEF IInv, Shape, Registers, Saved, AtM, Serving
<1>6. Tracked'
  BY <1>1, <1>2 DEF IInv, Shape, Tracked, SettingTimer, Forwarding, Due,
     Arming, AtM
<1>7. QED
  BY <1>3, <1>4, <1>5, <1>6, Zenon DEF IInv

\* The results go to the saved a0 and a1, and mepc past an ecall.
LEMMA ReturnStep ==
    ASSUME IInv, Return
    PROVE  IInv'
<1>1. /\ AtM("return") /\ cpu' = [mode |-> "M", at |-> "restore"]
      /\ DOMAIN csr' = CsrNames /\ csr'.mscratch = csr.mscratch
      /\ csr'.mepc = IF csr.mcause = "ecall" THEN Skip4(csr.mepc) ELSE csr.mepc
      /\ csr'.mcause = csr.mcause /\ csr'.stip = csr.stip
      /\ DOMAIN mem' = DOMAIN mem /\ mem'.frame = mem.frame /\ mem'.err = mem.err
      /\ mem'.saved = IF csr.mcause = "ecall"
                        THEN [mem.saved EXCEPT !.a0 = mem.err, !.a1 = mem.val]
                        ELSE mem.saved
      /\ Registers(mem'.saved) /\ Registers(regs') /\ regs'.x5 = mem.stack
      /\ ctx' = ctx /\ armed' = armed
  BY Zenon
     DEF IInv, Shape, Registers, CsrNames, AtM, history, Return, At, Goto,
         ReturnCsrs
<1>2. /\ build' = build /\ mtimecmp' = mtimecmp
      /\ mtime' \in 0..TMAX /\ mtime' >= mtime
  BY Tick, Zenon DEF IInv, Return
<1>3. Shape'
  BY <1>1, <1>2, Zenon DEF IInv, Shape, Registers
<1>4. Causes'
  BY <1>1, Zenon DEF IInv, Causes, InTrap, AtM
<1>5. Saved'
  <2>1. /\ csr.mscratch = "base" /\ csr.mepc = ctx.at /\ mem.saved = ctx.regs
        /\ mem.stack = "base" /\ DOMAIN mem.saved = DOMAIN ctx.regs
    BY <1>1, Zenon DEF IInv, Saved, Serving, AtM
  <2>2. csr'.mepc = Resume'
    BY <1>1, <2>1, Zenon DEF Resume
  <2>3. Answered'
    BY <1>1, <2>1, Zenon DEF IInv, Shape, Registers, Answered
  <2>4. QED
    BY <1>1, <2>1, <2>2, <2>3, Zenon DEF Saved, AtM, Serving
<1>6. Tracked'
  BY <1>1, <1>2 DEF IInv, Shape, Tracked, SettingTimer, Forwarding, Due,
     Arming, AtM
<1>7. QED
  BY <1>3, <1>4, <1>5, <1>6, Zenon DEF IInv

\* The registers come back from trap_scratch.
LEMMA RestoreStep ==
    ASSUME IInv, Restore
    PROVE  IInv'
<1>1. /\ AtM("restore") /\ cpu' = [mode |-> "M", at |-> "mret"]
      /\ regs' = mem.saved
      /\ csr' = csr /\ mem' = mem /\ ctx' = ctx /\ armed' = armed
  BY Zenon
     DEF IInv, Shape, Registers, CsrNames, AtM, history, Restore, At, Goto,
         Saved
<1>2. /\ build' = build /\ mtimecmp' = mtimecmp
      /\ mtime' \in 0..TMAX /\ mtime' >= mtime
  BY Tick, Zenon DEF IInv, Restore
<1>3. Shape'
  BY <1>1, <1>2, Zenon DEF IInv, Shape, Registers
<1>4. Causes'
  BY <1>1, Zenon DEF IInv, Causes, InTrap, AtM
<1>5. Saved'
  BY <1>1, Zenon DEF IInv, Shape, Registers, Saved, AtM, Serving,
     Resume, Answered
<1>6. Tracked'
  BY <1>1, <1>2 DEF IInv, Shape, Tracked, SettingTimer, Forwarding, Due,
     Arming, AtM
<1>7. QED
  BY <1>3, <1>4, <1>5, <1>6, Zenon DEF IInv

\* mret leaves mscratch ready for the next trap.
LEMMA MretStep ==
    ASSUME IInv, Mret
    PROVE  IInv'
<1>1. /\ AtM("mret") /\ cpu' = [mode |-> "S", at |-> cpu'.at]
      /\ DOMAIN csr' = CsrNames /\ csr'.mscratch = csr.mscratch
      /\ csr'.stip = csr.stip
      /\ regs' = regs /\ mem' = mem /\ ctx' = ctx /\ armed' = armed
  BY Zenon DEF IInv, Shape, Registers, CsrNames, AtM, history, Mret, At
<1>2. /\ build' = build /\ mtimecmp' = mtimecmp
      /\ mtime' \in 0..TMAX /\ mtime' >= mtime
  BY Tick, Zenon DEF IInv, Mret
<1>3. Shape'
  BY <1>1, <1>2, Zenon DEF IInv, Shape, Registers
<1>4. Causes'
  BY <1>1 DEF IInv, Causes, InTrap, AtM
<1>5. Saved'
  BY <1>1 DEF IInv, Shape, Registers, Saved, AtM, Serving
<1>6. Tracked'
  BY <1>1, <1>2 DEF IInv, Shape, Tracked, SettingTimer, Forwarding, Due,
     Arming, AtM
<1>7. QED
  BY <1>3, <1>4, <1>5, <1>6, Zenon DEF IInv

\* A timer interrupt finds the target past: a parked mtimecmp raises none.
LEMMA TimerInterruptStep ==
    ASSUME IInv, TimerInterrupt
    PROVE  IInv'
<1>1. /\ cpu.mode = "S" /\ cpu' = [mode |-> "M", at |-> "swap"]
      /\ DOMAIN csr' = CsrNames /\ csr'.mscratch = csr.mscratch
      /\ csr'.mepc = cpu.at /\ csr'.mcause = "timer" /\ csr'.stip = csr.stip
      /\ ctx' = [at |-> cpu.at, regs |-> regs]
      /\ mtime >= mtimecmp
      /\ regs' = regs /\ mem' = mem /\ armed' = armed
  BY Zenon
     DEF IInv, Shape, Registers, CsrNames, AtM, history, TimerInterrupt,
         EnterM,
     mti_pending, pending
<1>2. /\ build' = build /\ mtimecmp' = mtimecmp
      /\ mtime' \in 0..TMAX /\ mtime' >= mtime
  BY Tick, Zenon DEF IInv, TimerInterrupt
<1>3. Shape'
  BY <1>1, <1>2, Zenon DEF IInv, Shape, Registers
<1>4. Causes'
  BY <1>1, Zenon DEF IInv, Causes, InTrap, AtM
<1>5. Saved'
  BY <1>1, Zenon DEF IInv, Shape, Registers, Saved, AtM, Serving
<1>6. Tracked'
  BY <1>1, <1>2, TmaxAssumption
     DEF IInv, Shape, Tracked, SettingTimer, Forwarding, Due,
     Arming, AtM, NEVER
<1>7. QED
  BY <1>3, <1>4, <1>5, <1>6, Zenon DEF IInv

\* A call of set_timer starts over.
LEMMA EcallStep ==
    ASSUME IInv, Ecall
    PROVE  IInv'
<1>1. /\ cpu.mode = "S" /\ cpu' = [mode |-> "M", at |-> "swap"]
      /\ DOMAIN csr' = CsrNames /\ csr'.mscratch = csr.mscratch
      /\ csr'.mepc = cpu.at /\ csr'.mcause = "ecall" /\ csr'.stip = csr.stip
      /\ ctx' = [at |-> cpu.at, regs |-> regs]
      /\ armed' = IF regs.a7 = "set_timer"
                    THEN [target |-> regs.a0, forwards |-> 0, ticks |-> 0] ELSE armed
      /\ regs' = regs /\ mem' = mem
  BY Zenon DEF IInv, Shape, Registers, CsrNames, AtM, history, Ecall, EnterM
<1>2. /\ build' = build /\ mtimecmp' = mtimecmp
      /\ mtime' \in 0..TMAX /\ mtime' >= mtime
  BY Tick, Zenon DEF IInv, Ecall
<1>3. Shape'
  BY <1>1, <1>2, Zenon DEF IInv, Shape, Registers
<1>4. Causes'
  BY <1>1, Zenon DEF IInv, Causes, InTrap, AtM
<1>5. Saved'
  BY <1>1, Zenon DEF IInv, Shape, Registers, Saved, AtM, Serving
<1>6. Tracked'
  <2>1. ~SettingTimer /\ ~Forwarding /\ ~Forwarding'
    BY <1>1, Zenon DEF SettingTimer, Forwarding
  <2>2. CASE regs.a7 = "set_timer"
    <3>1. armed' = [target |-> regs.a0, forwards |-> 0, ticks |-> 0]
          /\ ctx'.regs = regs
      BY <1>1, <2>2, Zenon
    <3>2. SettingTimer' /\ regs.a0 \in Int
      BY <1>1, <2>2, Zenon DEF SettingTimer, Arming, IInv, Shape, Registers
    <3>3. QED
      BY <1>1, <2>1, <3>1, <3>2 DEF Tracked
  <2>3. CASE regs.a7 # "set_timer"
    <3>1. armed' = armed /\ ctx'.regs = regs
      BY <1>1, <2>3, Zenon
    <3>2. ~SettingTimer'
      BY <1>1, <2>3, Zenon DEF SettingTimer
    <3>3. QED
      BY <1>1, <1>2, <2>1, <3>1, <3>2 DEF IInv, Shape, Tracked, Due
  <2>4. QED
    BY <2>2, <2>3, Zenon
<1>7. QED
  BY <1>3, <1>4, <1>5, <1>6, Zenon DEF IInv

\* In S-mode nothing else touches mscratch, the timer or the saved state.
LEMMA SupervisorStep ==
    ASSUME IInv, SupervisorTimerInterrupt \/ Call \/ HandlerCall \/ EnableTimer \/ Sret
    PROVE  IInv'
<1>1. /\ cpu.mode = "S" /\ cpu' = [mode |-> "S", at |-> cpu'.at]
      /\ DOMAIN csr' = CsrNames /\ csr'.mscratch = csr.mscratch
      /\ csr'.stip = csr.stip
      /\ DOMAIN mem' = DOMAIN mem /\ mem'.saved = mem.saved /\ mem'.err = mem.err
      /\ Registers(mem'.frame) /\ Registers(regs') /\ ctx' = ctx
      /\ armed' = [armed EXCEPT !.ticks = armed'.ticks]
  <2>1. CASE SupervisorTimerInterrupt
    BY <2>1, Zenon
       DEF IInv, Shape, Registers, CsrNames, SupervisorTimerInterrupt, Goto
  <2>2. CASE EnableTimer
    BY <2>2, Zenon
       DEF IInv, Shape, Registers, CsrNames, EnableTimer, At, history
  <2>3. CASE Sret
    BY <2>3, Zenon
       DEF IInv, Shape, Registers, CsrNames, Sret, At, Goto, history
  <2>4. CASE Call \/ HandlerCall
    <3>1. PICK call, from, to : Prepare(call, from, to)
      BY <2>4, Zenon DEF Call, HandlerCall
    <3>2. Arguments(call) \subseteq Int
      <4>1. build.Targets \subseteq 0..NEVER
        BY BuildsAssumption, Zenon DEF IInv, Shape
      <4>2. QED
        BY <4>1 DEF Arguments, Byte
    <3>3. PICK a \in Int : regs' = [regs EXCEPT !.a0 = a, !.a1 = 0, !.a7 = call]
      BY <3>1, <3>2, Zenon DEF Prepare
    <3>4. Registers(regs')
      BY <3>3, Zenon DEF IInv, Shape, Registers
    <3>5. QED
      BY <3>1, <3>4, Zenon
         DEF IInv, Shape, CsrNames, Prepare, At, Goto, history
  <2>5. QED
    BY <2>1, <2>2, <2>3, <2>4, Zenon
<1>2. /\ build' = build /\ mtimecmp' = mtimecmp
      /\ mtime' \in 0..TMAX /\ mtime' >= mtime
  BY Tick, Zenon
     DEF IInv, SupervisorTimerInterrupt, Call, HandlerCall, EnableTimer,
     Sret, Prepare
<1>3. Shape'
  BY <1>1, <1>2, Zenon DEF IInv, Shape, Registers
<1>4. Causes'
  BY <1>1 DEF IInv, Causes, InTrap, AtM
<1>5. Saved'
  BY <1>1 DEF IInv, Shape, Registers, Saved, AtM, Serving
<1>6. Tracked'
  BY <1>1, <1>2 DEF IInv, Shape, Tracked, SettingTimer, Forwarding, Due,
     Arming, AtM
<1>7. QED
  BY <1>3, <1>4, <1>5, <1>6, Zenon DEF IInv

\* A clock without progress changes nothing but the time.
LEMMA BusyStep ==
    ASSUME IInv, Busy
    PROVE  IInv'
<1>1. /\ cpu' = cpu /\ regs' = regs /\ csr' = csr /\ mem' = mem
      /\ ctx' = ctx /\ armed' = armed
  BY Zenon DEF IInv, Shape, Registers, CsrNames, AtM, history, Busy
<1>2. /\ build' = build /\ mtimecmp' = mtimecmp
      /\ mtime' \in 0..TMAX /\ mtime' >= mtime
  BY Tick, Zenon DEF IInv, Busy
<1>3. Shape'
  BY <1>1, <1>2, Zenon DEF IInv, Shape, Registers
<1>4. Causes'
  BY <1>1, Zenon DEF IInv, Causes, InTrap, AtM
<1>5. Saved'
  BY <1>1, Zenon DEF IInv, Shape, Registers, Saved, AtM, Serving,
     Resume, Answered
<1>6. Tracked'
  BY <1>1, <1>2 DEF IInv, Shape, Tracked, SettingTimer, Forwarding, Due,
     Arming, AtM
<1>7. QED
  BY <1>3, <1>4, <1>5, <1>6, Zenon DEF IInv

----------------------------------------------------------------------------
(* The theorems.                                                           *)

\* The system starts in boot.S, before any timer was asked for.
LEMMA Start ==
    ASSUME Init
    PROVE  IInv
<1>1. /\ AtM("boot") /\ csr.stip = FALSE
      /\ armed = [target |-> BOOT, forwards |-> 0, ticks |-> 0]
  BY Zenon DEF Init, AtM
<1>2. Shape
  BY TmaxAssumption DEF Init, Shape, Registers, CsrNames, TimerReset
<1>3. Causes /\ Saved
  BY <1>1, Zenon DEF Causes, InTrap, Saved, AtM, Serving
<1>4. Tracked
  BY <1>1 DEF Tracked, SettingTimer, Forwarding, Arming, AtM, BOOT
<1>5. QED
  BY <1>2, <1>3, <1>4, Zenon DEF IInv

\* IInv holds in every state: mscratch holds trap_scratch's address whenever
\* trap_entry.S may be entered, the supervisor's registers are where it will
\* look for them, and the last target asked for is in mtimecmp or, once past,
\* in mip.STIP.
THEOREM Invariant == Spec => []IInv
<1>1. Init => IInv
  BY Start, Zenon
<1>2. IInv /\ [Next]_vars => IInv'
  <2> SUFFICES ASSUME IInv, [Next]_vars PROVE IInv'
    BY Zenon
  <2>1. CASE Machine
    BY <2>1, BootStep, SwapStep, SaveStep, DispatchStep, WriteMtimecmpStep,
       WriteMipStep, ConsoleStep, ReturnStep, RestoreStep, MretStep, Zenon
       DEF Machine
  <2>2. CASE TimerInterrupt \/ Ecall
    BY <2>2, TimerInterruptStep, EcallStep, Zenon
  <2>3. CASE SupervisorTimerInterrupt \/ Call \/ HandlerCall \/ EnableTimer
             \/ Sret
    BY <2>3, SupervisorStep, Zenon
  <2>4. CASE Busy
    BY <2>4, BusyStep, Zenon
  <2>5. CASE UNCHANGED vars
    BY <2>5 DEF vars, IInv, Shape, Registers, Causes, InTrap, Saved, AtM,
                Resume, Answered, Tracked, SettingTimer, Forwarding, Due
  <2>6. QED
    BY <2>1, <2>2, <2>3, <2>4, <2>5, Zenon DEF Next, Forced
<1>3. QED
  BY <1>1, <1>2, PTL DEF Spec

\* trap_entry.S gives the supervisor its registers back, at every nesting of
\* calls and timer interrupts.
THEOREM Restores == Spec => ContextRestored
<1>1. IInv /\ [Next]_vars => [Mret => Resumed]_vars
  <2> SUFFICES ASSUME IInv, Mret PROVE Resumed
    BY Zenon
  <2>1. AtM("mret") /\ cpu'.at = csr.mepc /\ regs' = regs
    BY Zenon DEF Mret, At, AtM
  <2>2. csr.mepc = Resume /\ Answered /\ regs = mem.saved
    BY <2>1, Zenon DEF IInv, Saved
  <2>3. QED
    BY <2>1, <2>2, Zenon DEF Resumed, Resume, Answered
<1>2. QED
  BY <1>1, Invariant, PTL DEF Spec, ContextRestored

\* s_trap_handler is entered only when the last target asked for is past,
\* whatever was asked for before and whenever it was replaced.
THEOREM Timely == Spec => TickTimely
<1>1. IInv /\ [Next]_vars =>
        [SupervisorTimerInterrupt =>
           (armed.target = BOOT \/ armed.target <= mtime)]_vars
  <2> SUFFICES ASSUME IInv, SupervisorTimerInterrupt PROVE Due
    BY Zenon DEF Due
  <2>1. csr.stip /\ ~SettingTimer
    BY Zenon DEF SupervisorTimerInterrupt, sti_pending, SettingTimer
  <2>2. QED
    BY <2>1, Zenon DEF IInv, Tracked
<1>2. QED
  BY <1>1, Invariant, PTL DEF Spec, TickTimely

\* One call of set_timer interrupts the machine at most once: forwarding
\* parks mtimecmp before the supervisor runs again.
THEOREM Once == Spec => []ForwardedOnce
<1>1. IInv => ForwardedOnce
  BY DEF IInv, Tracked, ForwardedOnce
<1>2. QED
  BY <1>1, Invariant, PTL

----------------------------------------------------------------------------
(* The bits of a byte.                                                     *)

\* The laws of powers of two that the lemmas on the serial port start from.
\* Module PowerLemmas proves them; the theorems on the bytes bring it in.
Exponents ==
  /\ \A n \in Nat : 2^n \in Nat \ {0}
  /\ \A m, n \in Nat : 2^(m + n) = 2^m * 2^n

\* The powers a bit's place gives.
LEMMA Places ==
    ASSUME Exponents, NEW i \in 0..BITS - 1
    PROVE  /\ i \in Nat /\ 2^i \in Nat \ {0} /\ 2^(i + 1) = 2 * 2^i
           /\ 2^BITS \in Nat \ {0}
           /\ \E m \in Nat \ {0} : 2^BITS = m * (2 * 2^i)
<1>1. i \in Nat /\ BITS \in Nat /\ BITS - (i + 1) \in Nat /\ i + 1 \in Nat
  BY BitsAssumption
<1>2. 2^i \in Nat \ {0} /\ 2^BITS \in Nat \ {0} /\ 2^(BITS - (i + 1)) \in Nat \ {0}
  BY <1>1, Zenon DEF Exponents
<1>3. 2^1 = 2
  OBVIOUS
<1>4. 2^(i + 1) = 2 * 2^i
  <2>1. 2^(i + 1) = 2^i * 2^1
    BY <1>1, 1 \in Nat, Zenon DEF Exponents
  <2>2. QED
    BY <1>2, <1>3, <2>1
<1>5. 2^((BITS - (i + 1)) + (i + 1)) = 2^(BITS - (i + 1)) * 2^(i + 1)
  BY <1>1, Zenon DEF Exponents
<1>6. (BITS - (i + 1)) + (i + 1) = BITS
  BY <1>1
<1>7. QED
  BY <1>1, <1>2, <1>4, <1>5, <1>6, Zenon

\* A number is made of the bits above i, bit i and the bits below it.
LEMMA Split ==
    ASSUME Exponents, NEW x \in Nat, NEW i \in 0..BITS - 1
    PROVE  \E e \in Nat : /\ Bit(x, i) \in {0, 1} /\ x % 2^i \in 0..2^i - 1
                          /\ x = e * (2 * 2^i) + Bit(x, i) * 2^i + (x % 2^i)
<1> DEFINE p == 2^i
           q == x \div p
           r == x % p
           e == q \div 2
           t == q % 2
<1>1. p \in Nat \ {0}
  BY Places, Zenon
<1> HIDE DEF p
<1>2. q \in Nat /\ r \in 0..p - 1 /\ x = q * p + r
  BY <1>1, DivisionLaw, Zenon
<1> HIDE DEF q, r
<1>3. e \in Nat /\ t \in 0..1 /\ q = e * 2 + t
  BY <1>2, DivisionLaw
<1>4. Bit(x, i) = t
  BY Zenon DEF Bit, p, q
<1> HIDE DEF e, t
<1>5. q * p = e * (2 * p) + t * p
  BY <1>1, <1>3
<1>6. x = e * (2 * p) + t * p + r
  <2>1. e * (2 * p) \in Int /\ t * p \in Int
    BY <1>1, <1>3
  <2>2. QED
    BY <1>2, <1>5, <2>1, Zenon
<1>7. /\ Bit(x, i) \in {0, 1} /\ r \in 0..p - 1
      /\ x = e * (2 * p) + Bit(x, i) * p + r
  <2>1. t \in {0, 1}
    BY <1>3
  <2>2. QED
    BY <1>2, <1>4, <1>6, <2>1, Zenon
<1>8. QED
  BY <1>3, <1>7, Zenon DEF p, r

\* Writing bit i of d over bit i of b, below which b agrees with d, makes b
\* agree with d in one bit more.
LEMMA OneBitMore ==
    ASSUME Exponents, NEW b \in Byte, NEW d \in Byte, NEW i \in 0..BITS - 1,
           b % 2^i = d % 2^i
    PROVE  /\ WithBit(b, i, Bit(d, i)) \in Byte
           /\ WithBit(b, i, Bit(d, i)) % 2^(i + 1) = d % 2^(i + 1)
<1> DEFINE p == 2^i
           r == d % p
           v == Bit(d, i)
           t == Bit(b, i)
           w == WithBit(b, i, v)
<1>1. /\ p \in Nat \ {0} /\ 2^(i + 1) = 2 * p /\ 2^BITS \in Nat \ {0}
      /\ \E m \in Nat \ {0} : 2^BITS = m * (2 * p)
  BY Places, Zenon
<1>2. b \in Nat /\ d \in Nat /\ b < 2^BITS
  BY <1>1 DEF Byte
<1>3. PICK e \in Nat : t \in {0, 1} /\ r \in 0..p - 1 /\ b = e * (2 * p) + t * p + r
  BY <1>2, Split, Zenon
<1>4. PICK f \in Nat : v \in {0, 1} /\ d = f * (2 * p) + v * p + r
  BY <1>2, Split, Zenon
<1>5. w = b + (v - t) * p
  BY Zenon DEF WithBit
<1>6. PICK m \in Nat \ {0} : 2^BITS = m * (2 * p)
  BY <1>1, Zenon
<1> HIDE DEF p, r, v, t, w
<1>7. /\ 2 * p \in Nat \ {0} /\ v * p + r \in 0..2 * p - 1
      /\ t * p + r \in 0..2 * p - 1 /\ v * p \in Nat /\ t * p \in Nat
      /\ (v - t) * p = v * p - t * p
  BY <1>1, <1>3, <1>4
<1>8. e * (2 * p) \in Nat /\ f * (2 * p) \in Nat
  BY <1>1
<1>9. w = e * (2 * p) + (v * p + r) /\ d = f * (2 * p) + (v * p + r)
  BY <1>1, <1>3, <1>4, <1>5, <1>7, <1>8
<1>10. w % (2 * p) = v * p + r /\ d % (2 * p) = v * p + r
  BY <1>7, <1>9, QuotientOf, Zenon
<1>11. w \in Byte
  <2>1. e < m
    <3>1. SUFFICES ASSUME ~(e < m) PROVE FALSE
      BY Zenon
    <3>2. m * (2 * p) <= e * (2 * p)
      <4>1. CASE m = e
        BY <4>1, <1>8
      <4>2. CASE m < e
        BY <4>2, <1>7, <1>8, ProductGap
      <4>3. QED
        BY <3>1, <4>1, <4>2
    <3>3. QED
      BY <1>2, <1>3, <1>6, <1>7, <1>8, <3>2
  <2>2. e * (2 * p) + 2 * p <= m * (2 * p)
    BY <1>7, <2>1, ProductGap
  <2>3. w \in Nat /\ w < 2^BITS
    BY <1>1, <1>6, <1>7, <1>8, <1>9, <2>2
  <2>4. QED
    BY <1>1, <2>3 DEF Byte
<1>12. QED
  BY <1>1, <1>10, <1>11, Zenon DEF p, v, w

\* Agreeing in all bits is being equal.
LEMMA AllBits ==
    ASSUME Exponents, NEW b \in Byte, NEW d \in Byte, b % 2^BITS = d % 2^BITS
    PROVE  b = d
<1>1. 2^BITS \in Nat \ {0}
  BY BitsAssumption, Zenon DEF Exponents
<1>2. b % 2^BITS = b /\ d % 2^BITS = d
  BY <1>1, NearRemainder, Zenon DEF Byte
<1>3. QED
  BY <1>2, Zenon

----------------------------------------------------------------------------
(* A frame on the line.                                                    *)

\* The bit periods of a frame: start bit, data bits, stop bit, then rest.
Segment(u) ==
  CASE u.tx_state = "START" -> 0
    [] u.tx_state = "DATA" -> u.tx_bit_index + 1
    [] u.tx_state = "STOP" -> BITS + 1
    [] OTHER -> BITS + 2

\* The line follows the transmitter's state by a clock.
Level(u) ==
  IF u.tx_clk_count > 0 THEN TxLine(u)
  ELSE IF u.tx_state \in {"START", "IDLE"} THEN 1
  ELSE IF Segment(u) = 1 THEN 0
  ELSE Bit(u.tx_shift_reg, Segment(u) - 2)

\* The transmitter is k clocks past the beginning of segment n.
Reached(u, c, n, k) ==
  \/ Segment(u) = n /\ u.tx_clk_count = k
  \/ Segment(u) = n + 1 /\ u.tx_clk_count + c = k
  \/ Segment(u) = n + 2 /\ u.tx_clk_count + c + c = k

\* Nothing is on the line, though its stop bit may not be over.
Quiet(u) ==
  /\ u.tx_state \in {"IDLE", "STOP"} /\ u.rx_state = "IDLE"
  /\ u.tx = 1 /\ u.rx_prev = 1

\* The receiver has not yet seen the start bit.
Starting(u) ==
  /\ u.tx_state = "START" /\ u.rx_state = "IDLE"
  /\ u.tx_clk_count \in {0, 1} /\ u.rx_prev = 1

\* It follows half a bit and two clocks behind, with the bits so far.
Confirming(u, c) ==
  /\ u.rx_state = "START" /\ u.rx_clk_count < c \div 2
  /\ Reached(u, c, 0, u.rx_clk_count + 2)
Collecting(u, c) ==
  /\ u.rx_state = "DATA"
  /\ Reached(u, c, u.rx_bit_index, (c \div 2) + u.rx_clk_count + 2)
  /\ u.rx_shift_reg % 2^u.rx_bit_index = u.tx_shift_reg % 2^u.rx_bit_index
Finishing(u, c) ==
  /\ u.rx_state = "STOP"
  /\ Reached(u, c, BITS, (c \div 2) + u.rx_clk_count + 2)
  /\ u.rx_shift_reg = u.tx_shift_reg

Receiving(u, c) == Confirming(u, c) \/ Collecting(u, c) \/ Finishing(u, c)

Driven(u) == u.tx = Level(u) /\ (u.tx_state = "IDLE" => u.tx_clk_count = 0)

\* The byte on the line is the one written to THR and not yet received.
Framed(u, l, c) ==
  /\ Driven(u)
  /\ \/ Quiet(u) /\ l = <<>>
     \/ (Starting(u) \/ Receiving(u, c)) /\ l = <<u.tx_shift_reg>>

----------------------------------------------------------------------------
(* The transmitter.                                                        *)

RxSame(u, w) ==
  /\ w.rx_state = u.rx_state /\ w.rx_clk_count = u.rx_clk_count
  /\ w.rx_bit_index = u.rx_bit_index /\ w.rx_shift_reg = u.rx_shift_reg
  /\ w.rx_data_reg = u.rx_data_reg /\ w.rx_ready = u.rx_ready
  /\ w.rx_prev = u.rx_prev
TxSame(u, w) ==
  /\ w.tx = u.tx /\ w.tx_state = u.tx_state /\ w.tx_clk_count = u.tx_clk_count
  /\ w.tx_bit_index = u.tx_bit_index /\ w.tx_shift_reg = u.tx_shift_reg

\* The level of the line is a bit.
LEMMA Levels ==
    ASSUME Exponents, NEW c \in Nat \ {0, 1}, NEW u \in UartRegisters(c)
    PROVE  TxLine(u) \in {0, 1}
<1>1. u.tx_shift_reg \in Nat /\ u.tx_bit_index \in 0..BITS - 1
  <2>1. 2^BITS \in Nat
    BY BitsAssumption, Zenon DEF Exponents
  <2>2. QED
    BY <2>1 DEF UartRegisters, Byte
<1>2. Bit(u.tx_shift_reg, u.tx_bit_index) \in {0, 1}
  BY <1>1, Split, Zenon
<1>3. QED
  BY <1>2, Zenon DEF TxLine

\* It sends on its own and never touches the receiver.
LEMMA Transmits ==
    ASSUME Exponents,
           NEW c \in Nat \ {0, 1}, NEW u \in UartRegisters(c), NEW bus,
           Writes(bus, "THR") => u.tx_state = "IDLE" /\ bus.data \in Byte,
           NEW w, w = TxEdge(u, bus, c)
    PROVE  w \in UartRegisters(c) /\ RxSame(u, w)
<1>1. TxLine(u) \in {0, 1}
  BY Levels, Zenon
<1>2. /\ BITS \in Nat \ {0} /\ c \in Nat /\ c > 1
  BY BitsAssumption
<1>3. /\ 0 \in 0..c - 1 /\ 1 \in {0, 1} /\ "START" \in States
      /\ u.tx_clk_count \in 0..c - 1 /\ u.tx_bit_index \in 0..BITS - 1
      /\ 0 \in 0..BITS - 1 /\ TxNext(u) \in States
  BY <1>2 DEF UartRegisters, States, TxNext
<1>4. CASE ~tx_busy(u) /\ ~Writes(bus, "THR")
  <2>1. w = [u EXCEPT !.tx = 1]
    BY <1>4, Zenon DEF TxEdge
  <2>2. QED
    BY <1>3, <2>1, Zenon DEF UartRegisters, RxSame
<1>5. CASE ~tx_busy(u) /\ Writes(bus, "THR")
  <2>1. w = [u EXCEPT !.tx = 1, !.tx_shift_reg = bus.data,
                      !.tx_state = "START", !.tx_clk_count = 0]
    BY <1>5, Zenon DEF TxEdge
  <2>2. bus.data \in Byte
    BY <1>5, Zenon
  <2>3. QED
    BY <1>3, <2>1, <2>2, Zenon DEF UartRegisters, RxSame
<1>6. CASE tx_busy(u) /\ TxBitOver(u, c)
  <2>1. PICK i : i = IF u.tx_state = "START" THEN 0
                     ELSE IF TxNext(u) = "DATA" THEN u.tx_bit_index + 1
                     ELSE u.tx_bit_index
    BY Zenon
  <2>2. i \in 0..BITS - 1
    BY <1>2, <1>3, <2>1 DEF TxNext
  <2>3. w = [u EXCEPT !.tx = TxLine(u), !.tx_clk_count = 0,
                      !.tx_state = TxNext(u), !.tx_bit_index = i]
    BY <1>6, <2>1, Zenon DEF TxEdge
  <2>4. QED
    BY <1>1, <1>3, <2>2, <2>3, Zenon DEF UartRegisters, RxSame
<1>7. CASE tx_busy(u) /\ ~TxBitOver(u, c)
  <2>1. PICK k : k = u.tx_clk_count + 1
    BY Zenon
  <2>2. k \in 0..c - 1
    BY <1>2, <1>3, <1>7, <2>1 DEF TxBitOver
  <2>3. w = [u EXCEPT !.tx = TxLine(u), !.tx_clk_count = k]
    BY <1>7, <2>1, Zenon DEF TxEdge
  <2>4. QED
    BY <1>1, <2>2, <2>3, Zenon DEF UartRegisters, RxSame
<1>8. QED
  BY <1>4, <1>5, <1>6, <1>7, Zenon

\* While it is busy every clock brings it a clock further.
LEMMA Advances ==
    ASSUME NEW c \in Nat \ {0, 1}, NEW u \in UartRegisters(c), NEW bus,
           NEW w, w = TxEdge(u, bus, c), tx_busy(u)
    PROVE  /\ w.tx_shift_reg = u.tx_shift_reg /\ w.tx = TxLine(u)
           /\ \/ /\ u.tx_clk_count < c - 1 /\ w.tx_clk_count = u.tx_clk_count + 1
                 /\ w.tx_state = u.tx_state /\ w.tx_bit_index = u.tx_bit_index
                 /\ Segment(w) = Segment(u)
              \/ /\ u.tx_clk_count = c - 1 /\ w.tx_clk_count = 0
                 /\ w.tx_state = TxNext(u)
                 /\ Segment(w) = Segment(u) + 1
<1>1. /\ u.tx_clk_count \in 0..c - 1 /\ u.tx_bit_index \in 0..BITS - 1
      /\ BITS \in Nat \ {0} /\ u.tx_state \in States
      /\ DOMAIN u = {"tx", "tx_state", "tx_clk_count", "tx_bit_index",
           "tx_shift_reg", "rx_state", "rx_clk_count", "rx_bit_index",
           "rx_shift_reg", "rx_data_reg", "rx_ready", "rx_prev"}
  BY BitsAssumption, Zenon DEF UartRegisters
<1>2. CASE TxBitOver(u, c)
  <2>1. /\ w.tx_shift_reg = u.tx_shift_reg /\ w.tx = TxLine(u)
        /\ w.tx_clk_count = 0 /\ w.tx_state = TxNext(u)
        /\ w.tx_bit_index = IF u.tx_state = "START" THEN 0
                            ELSE IF TxNext(u) = "DATA" THEN u.tx_bit_index + 1
                            ELSE u.tx_bit_index
    BY <1>1, <1>2, Zenon DEF TxEdge
  <2>2. Segment(w) = Segment(u) + 1
    BY <1>1, <2>1 DEF Segment, TxNext, States, tx_busy
  <2>3. QED
    BY <1>2, <2>1, <2>2, Zenon DEF TxBitOver
<1>3. CASE ~TxBitOver(u, c)
  <2>1. /\ w.tx_shift_reg = u.tx_shift_reg /\ w.tx = TxLine(u)
        /\ w.tx_clk_count = u.tx_clk_count + 1 /\ w.tx_state = u.tx_state
        /\ w.tx_bit_index = u.tx_bit_index
    BY <1>1, <1>3, Zenon DEF TxEdge
  <2>2. QED
    BY <1>1, <1>3, <2>1 DEF TxBitOver, Segment
<1>4. QED
  BY <1>2, <1>3, Zenon

\* The line is the level of the transmitter's last clock.
LEMMA Drives ==
    ASSUME NEW c \in Nat \ {0, 1}, NEW u \in UartRegisters(c), NEW bus,
           NEW w, w = TxEdge(u, bus, c), Driven(u)
    PROVE  Driven(w)
<1>1. /\ u.tx_clk_count \in 0..c - 1 /\ u.tx_bit_index \in 0..BITS - 1
      /\ BITS \in Nat \ {0} /\ u.tx_state \in States
      /\ DOMAIN u = {"tx", "tx_state", "tx_clk_count", "tx_bit_index",
           "tx_shift_reg", "rx_state", "rx_clk_count", "rx_bit_index",
           "rx_shift_reg", "rx_data_reg", "rx_ready", "rx_prev"}
  BY BitsAssumption, Zenon DEF UartRegisters
<1>2. CASE ~tx_busy(u)
  <2>1. w.tx = 1 /\ w.tx_clk_count = 0 /\ w.tx_state \in {"START", "IDLE"}
    BY <1>1, <1>2, Zenon DEF TxEdge, tx_busy, Driven
  <2>2. QED
    BY <2>1 DEF Driven, Level
<1>3. CASE tx_busy(u)
  <2>1. /\ w.tx_shift_reg = u.tx_shift_reg /\ w.tx = TxLine(u)
        /\ \/ /\ u.tx_clk_count < c - 1 /\ w.tx_clk_count = u.tx_clk_count + 1
              /\ w.tx_state = u.tx_state /\ w.tx_bit_index = u.tx_bit_index
           \/ /\ w.tx_clk_count = 0 /\ w.tx_state = TxNext(u)
              /\ Segment(w) = Segment(u) + 1
    BY <1>3, Advances
  <2>2. CASE w.tx_clk_count = u.tx_clk_count + 1 /\ w.tx_state = u.tx_state
             /\ w.tx_bit_index = u.tx_bit_index
    BY <1>1, <1>3, <2>1, <2>2 DEF Driven, Level, TxLine, tx_busy
  <2>3. CASE w.tx_clk_count = 0 /\ w.tx_state = TxNext(u)
             /\ Segment(w) = Segment(u) + 1
    <3>1. CASE u.tx_state = "START"
      BY <1>1, <2>1, <2>3, <3>1 DEF Driven, Level, TxLine, TxNext, Segment
    <3>2. CASE u.tx_state = "STOP"
      BY <1>1, <2>1, <2>3, <3>2, Zenon DEF Driven, Level, TxLine, TxNext
    <3>3. CASE u.tx_state = "DATA"
      <4>1. Segment(u) = u.tx_bit_index + 1
        BY <3>3, Zenon DEF Segment
      <4>2. Segment(w) # 1 /\ Segment(w) - 2 = u.tx_bit_index
        BY <1>1, <2>3, <4>1
      <4>3. QED
        BY <2>1, <2>3, <3>3, <4>2 DEF Driven, Level, TxLine, TxNext
    <3>4. QED
      BY <1>1, <1>3, <3>1, <3>2, <3>3, Zenon DEF States, tx_busy
  <2>4. QED
    BY <2>1, <2>2, <2>3, Zenon
<1>4. QED
  BY <1>2, <1>3, Zenon

----------------------------------------------------------------------------
(* The receiver.                                                           *)

\* What every clock of the receiver does: it looks at the line, updates data
\* ready, and never touches the transmitter.
Looks(w, v, bus, rx, c) ==
  /\ v \in UartRegisters(c) /\ TxSame(w, v)
  /\ v.rx_prev = rx /\ v.rx_ready = RxReady(w, bus, c)

\* The last two registers are written over what the state machine leaves.
LEMMA Observes ==
    ASSUME NEW c \in Nat \ {0, 1}, NEW w \in UartRegisters(c), NEW bus,
           NEW rx \in {0, 1},
           RxSample(w, rx, c) \in UartRegisters(c), TxSame(w, RxSample(w, rx, c)),
           NEW v, v = RxEdge(w, bus, rx, c)
    PROVE  /\ Looks(w, v, bus, rx, c)
           /\ LET s == RxSample(w, rx, c)
              IN  /\ v.rx_state = s.rx_state /\ v.rx_clk_count = s.rx_clk_count
                  /\ v.rx_bit_index = s.rx_bit_index
                  /\ v.rx_shift_reg = s.rx_shift_reg
                  /\ v.rx_data_reg = s.rx_data_reg
<1>1. PICK s : s = RxSample(w, rx, c)
  BY Zenon
<1>2. PICK y : y = RxReady(w, bus, c)
  BY Zenon
<1>3. v = [s EXCEPT !.rx_prev = rx, !.rx_ready = y]
  BY <1>1, <1>2, Zenon DEF RxEdge
<1>4. y \in BOOLEAN
  <2>1. w.rx_ready \in BOOLEAN
    BY Zenon DEF UartRegisters
  <2>2. QED
    BY <1>2, <2>1, Zenon DEF RxReady, RxDone, Reads
<1>5. s \in UartRegisters(c) /\ TxSame(w, s)
  BY <1>1, Zenon
<1>6. v \in UartRegisters(c) /\ v.rx_prev = rx /\ v.rx_ready = y
  BY <1>3, <1>4, <1>5, Zenon DEF UartRegisters
<1>7. /\ TxSame(s, v)
      /\ v.rx_state = s.rx_state /\ v.rx_clk_count = s.rx_clk_count
      /\ v.rx_bit_index = s.rx_bit_index /\ v.rx_shift_reg = s.rx_shift_reg
      /\ v.rx_data_reg = s.rx_data_reg
  BY <1>3, <1>5, Zenon DEF UartRegisters, TxSame
<1>8. QED
  BY <1>1, <1>2, <1>5, <1>6, <1>7, Zenon DEF Looks, TxSame

RxHeld(w, v) ==
  v.rx_shift_reg = w.rx_shift_reg /\ v.rx_data_reg = w.rx_data_reg

\* At rest it waits for a falling edge.
LEMMA Waits ==
    ASSUME NEW c \in Nat \ {0, 1}, NEW w \in UartRegisters(c), NEW bus,
           NEW rx \in {0, 1}, w.rx_state = "IDLE",
           NEW v, v = RxEdge(w, bus, rx, c)
    PROVE  /\ Looks(w, v, bus, rx, c) /\ RxHeld(w, v)
           /\ v.rx_clk_count = 0
           /\ v.rx_state = IF w.rx_prev = 1 /\ rx = 0 THEN "START" ELSE "IDLE"
<1>1. PICK t : t = IF w.rx_prev = 1 /\ rx = 0 THEN "START" ELSE "IDLE"
  BY Zenon
<1>2. t \in States /\ 0 \in 0..c - 1
  BY <1>1 DEF States
<1>3. PICK s : s = RxSample(w, rx, c)
  BY Zenon
<1>4. s = [w EXCEPT !.rx_clk_count = 0, !.rx_state = t]
  BY <1>1, <1>3, Zenon DEF RxSample, RxDone
<1>5. s \in UartRegisters(c)
  BY <1>2, <1>4, Zenon DEF UartRegisters
<1>6. TxSame(w, s) /\ RxHeld(w, s) /\ s.rx_clk_count = 0 /\ s.rx_state = t
  BY <1>4, Zenon DEF UartRegisters, TxSame, RxHeld
<1>7. QED
  BY <1>1, <1>3, <1>5, <1>6, Observes DEF RxHeld

\* Between samples it counts clocks.
LEMMA Counts ==
    ASSUME NEW c \in Nat \ {0, 1}, NEW w \in UartRegisters(c), NEW bus,
           NEW rx \in {0, 1}, w.rx_state # "IDLE",
           w.rx_clk_count < RxPeriod(w, c) - 1,
           NEW v, v = RxEdge(w, bus, rx, c)
    PROVE  /\ Looks(w, v, bus, rx, c) /\ RxHeld(w, v)
           /\ v.rx_clk_count = w.rx_clk_count + 1
           /\ v.rx_state = w.rx_state /\ v.rx_bit_index = w.rx_bit_index
<1>1. PICK k : k = w.rx_clk_count + 1
  BY Zenon
<1>2. w.rx_clk_count \in 0..c - 1 /\ c \in Nat /\ c \div 2 \in Nat /\ c \div 2 <= c
  BY DEF UartRegisters
<1>3. k \in 0..c - 1 /\ w.rx_clk_count # RxPeriod(w, c) - 1
  BY <1>1, <1>2 DEF RxPeriod
<1>4. PICK s : s = RxSample(w, rx, c)
  BY Zenon
<1>5. s = [w EXCEPT !.rx_clk_count = k]
  <2>1. ~RxDone(w, c)
    BY <1>3, Zenon DEF RxDone, RxPeriod
  <2>2. QED
    BY <1>1, <1>3, <1>4, <2>1, Zenon DEF RxSample
<1>6. s \in UartRegisters(c)
  BY <1>3, <1>5, Zenon DEF UartRegisters
<1>7. /\ TxSame(w, s) /\ RxHeld(w, s) /\ s.rx_clk_count = k
      /\ s.rx_state = w.rx_state /\ s.rx_bit_index = w.rx_bit_index
  BY <1>5, Zenon DEF UartRegisters, TxSame, RxHeld
<1>8. QED
  BY <1>1, <1>4, <1>6, <1>7, Observes DEF RxHeld

\* In the middle of the start bit it begins to collect.
LEMMA Confirms ==
    ASSUME NEW c \in Nat \ {0, 1}, NEW w \in UartRegisters(c), NEW bus,
           w.rx_state = "START", w.rx_clk_count = (c \div 2) - 1,
           NEW v, v = RxEdge(w, bus, 0, c)
    PROVE  /\ Looks(w, v, bus, 0, c) /\ RxHeld(w, v)
           /\ v.rx_clk_count = 0 /\ v.rx_bit_index = 0 /\ v.rx_state = "DATA"
<1>1. "DATA" \in States /\ 0 \in 0..c - 1 /\ 0 \in 0..BITS - 1 /\ 0 \in {0, 1}
  BY BitsAssumption DEF States
<1>2. PICK s : s = RxSample(w, 0, c)
  BY Zenon
<1>3. s = [w EXCEPT !.rx_clk_count = 0, !.rx_bit_index = 0, !.rx_state = "DATA"]
  BY <1>2, Zenon DEF RxSample, RxDone, RxPeriod
<1>4. s \in UartRegisters(c)
  BY <1>1, <1>3, Zenon DEF UartRegisters
<1>5. /\ TxSame(w, s) /\ RxHeld(w, s) /\ s.rx_clk_count = 0
      /\ s.rx_bit_index = 0 /\ s.rx_state = "DATA"
  BY <1>3, Zenon DEF UartRegisters, TxSame, RxHeld
<1>6. QED
  BY <1>1, <1>2, <1>4, <1>5, Observes DEF RxHeld

\* A bit period later it takes a bit.
LEMMA Collects ==
    ASSUME NEW c \in Nat \ {0, 1}, NEW w \in UartRegisters(c), NEW bus,
           NEW rx \in {0, 1}, w.rx_state = "DATA", w.rx_clk_count = c - 1,
           WithBit(w.rx_shift_reg, w.rx_bit_index, rx) \in Byte,
           NEW v, v = RxEdge(w, bus, rx, c)
    PROVE  /\ Looks(w, v, bus, rx, c)
           /\ v.rx_data_reg = w.rx_data_reg /\ v.rx_clk_count = 0
           /\ v.rx_shift_reg = WithBit(w.rx_shift_reg, w.rx_bit_index, rx)
           /\ IF w.rx_bit_index = BITS - 1 THEN v.rx_state = "STOP"
              ELSE v.rx_state = "DATA" /\ v.rx_bit_index = w.rx_bit_index + 1
<1>1. PICK b \in Byte : b = WithBit(w.rx_shift_reg, w.rx_bit_index, rx)
  BY Zenon
<1>2. PICK t : t = IF w.rx_bit_index = BITS - 1 THEN "STOP" ELSE "DATA"
  BY Zenon
<1>3. PICK i : i = IF w.rx_bit_index = BITS - 1 THEN w.rx_bit_index
                   ELSE w.rx_bit_index + 1
  BY Zenon
<1>4. w.rx_bit_index \in 0..BITS - 1 /\ BITS \in Nat
  BY BitsAssumption, Zenon DEF UartRegisters
<1>5. t \in States /\ i \in 0..BITS - 1 /\ 0 \in 0..c - 1
  BY <1>2, <1>3, <1>4 DEF States
<1>6. PICK s : s = RxSample(w, rx, c)
  BY Zenon
<1>7. s = [w EXCEPT !.rx_clk_count = 0, !.rx_shift_reg = b,
                    !.rx_state = t, !.rx_bit_index = i]
  BY <1>1, <1>2, <1>3, <1>6, Zenon DEF RxSample, RxDone, RxPeriod
<1>8. s \in UartRegisters(c)
  BY <1>5, <1>7, Zenon DEF UartRegisters
<1>9. /\ TxSame(w, s) /\ s.rx_clk_count = 0 /\ s.rx_shift_reg = b
      /\ s.rx_data_reg = w.rx_data_reg /\ s.rx_state = t /\ s.rx_bit_index = i
  BY <1>7, Zenon DEF UartRegisters, TxSame
<1>10. QED
  BY <1>1, <1>2, <1>3, <1>6, <1>8, <1>9, Observes

\* In the middle of the stop bit it hands the byte over.
LEMMA HandsOver ==
    ASSUME NEW c \in Nat \ {0, 1}, NEW w \in UartRegisters(c), NEW bus,
           NEW rx \in {0, 1}, RxDone(w, c),
           NEW v, v = RxEdge(w, bus, rx, c)
    PROVE  /\ Looks(w, v, bus, rx, c)
           /\ v.rx_data_reg = w.rx_shift_reg /\ v.rx_state = "IDLE"
<1>1. PICK b \in Byte : b = w.rx_shift_reg
  BY Zenon DEF UartRegisters
<1>2. PICK s : s = RxSample(w, rx, c)
  BY Zenon
<1>3. "IDLE" \in States /\ 0 \in 0..c - 1
  BY DEF States
<1>4. s = [w EXCEPT !.rx_clk_count = 0, !.rx_data_reg = b, !.rx_state = "IDLE"]
  BY <1>1, <1>2, Zenon DEF RxSample, RxDone, RxPeriod
<1>5. s \in UartRegisters(c)
  BY <1>3, <1>4, Zenon DEF UartRegisters
<1>6. TxSame(w, s) /\ s.rx_data_reg = b /\ s.rx_state = "IDLE"
  BY <1>4, Zenon DEF UartRegisters, TxSame
<1>7. QED
  BY <1>1, <1>2, <1>5, <1>6, Observes

----------------------------------------------------------------------------
(* Both, with the line between them.                                       *)

\* What every clock does.
Clocked(u, v, bus, c) ==
  /\ v \in UartRegisters(c) /\ Driven(v) /\ v.rx_ready = RxReady(u, bus, c)

\* The transmitter's state is what the transmitter left.
LEMMA Follows ==
    ASSUME NEW u, NEW w, NEW v, NEW bus, NEW rx, NEW c,
           RxSame(u, w), Driven(w), Looks(w, v, bus, rx, c)
    PROVE  /\ Clocked(u, v, bus, c) /\ v.rx_prev = rx
           /\ v.tx = w.tx /\ v.tx_state = w.tx_state
           /\ v.tx_clk_count = w.tx_clk_count
           /\ v.tx_shift_reg = w.tx_shift_reg /\ Segment(v) = Segment(w)
<1>1. /\ v.tx = w.tx /\ v.tx_state = w.tx_state
      /\ v.tx_clk_count = w.tx_clk_count /\ v.tx_bit_index = w.tx_bit_index
      /\ v.tx_shift_reg = w.tx_shift_reg
  BY Zenon DEF Looks, TxSame
<1>2. Segment(v) = Segment(w) /\ TxLine(v) = TxLine(w)
  BY <1>1, Zenon DEF Segment, TxLine
<1>3. Level(v) = Level(w)
  BY <1>1, <1>2, Zenon DEF Level
<1>4. RxReady(u, bus, c) = RxReady(w, bus, c)
  BY Zenon DEF RxSame, RxReady, RxDone
<1>5. QED
  BY <1>1, <1>2, <1>3, <1>4, Zenon DEF Driven, Looks, Clocked

\* A quiet line stays so until THR is written.
LEMMA QuietStep ==
    ASSUME Exponents,
           NEW c \in Nat \ {0, 1}, NEW u \in UartRegisters(c), NEW bus, NEW v,
           v = RxEdge(TxEdge(u, bus, c), bus, u.tx, c), Driven(u), Quiet(u),
           Writes(bus, "THR") => u.tx_state = "IDLE" /\ bus.data \in Byte
    PROVE  /\ Clocked(u, v, bus, c) /\ ~RxDone(u, c)
           /\ v.rx_data_reg = u.rx_data_reg
           /\ IF Writes(bus, "THR")
              THEN Starting(v) /\ v.tx_shift_reg = bus.data
              ELSE Quiet(v) /\ (u.tx_state = "IDLE" => v.tx_state = "IDLE")
<1>1. PICK w : w = TxEdge(u, bus, c)
  BY Zenon
<1>2. w \in UartRegisters(c) /\ RxSame(u, w) /\ Driven(w)
  BY <1>1, Transmits, Drives, Zenon
<1>3. u.tx = 1 /\ u.rx_state = "IDLE" /\ u.rx_prev = 1
  BY Zenon DEF Quiet
<1>4. w.rx_state = "IDLE" /\ 1 \in {0, 1} /\ v = RxEdge(w, bus, 1, c)
  BY <1>1, <1>2, <1>3, Zenon DEF RxSame
<1>5. /\ Looks(w, v, bus, 1, c) /\ RxHeld(w, v) /\ v.rx_state = "IDLE"
  BY <1>2, <1>4, Waits
<1>6. /\ Clocked(u, v, bus, c) /\ v.rx_prev = 1
      /\ v.tx = w.tx /\ v.tx_state = w.tx_state
      /\ v.tx_clk_count = w.tx_clk_count /\ v.tx_shift_reg = w.tx_shift_reg
  BY <1>2, <1>5, Follows
<1>7. ~RxDone(u, c) /\ v.rx_data_reg = u.rx_data_reg
  BY <1>2, <1>3, <1>5, Zenon DEF RxDone, RxHeld, RxSame
<1>8. CASE ~tx_busy(u)
  <2>1. /\ DOMAIN u = {"tx", "tx_state", "tx_clk_count", "tx_bit_index",
           "tx_shift_reg", "rx_state", "rx_clk_count", "rx_bit_index",
           "rx_shift_reg", "rx_data_reg", "rx_ready", "rx_prev"}
        /\ u.tx_state = "IDLE"
    BY <1>8, Zenon DEF UartRegisters, tx_busy
  <2>2. CASE Writes(bus, "THR")
    <3>1. w.tx_state = "START" /\ w.tx_clk_count = 0 /\ w.tx_shift_reg = bus.data
      BY <1>1, <1>8, <2>1, <2>2, Zenon DEF TxEdge
    <3>2. QED
      BY <1>5, <1>6, <1>7, <2>2, <3>1, Zenon DEF Starting
  <2>3. CASE ~Writes(bus, "THR")
    <3>1. w.tx_state = "IDLE" /\ w.tx = 1
      BY <1>1, <1>8, <2>1, <2>3, Zenon DEF TxEdge
    <3>2. QED
      BY <1>5, <1>6, <1>7, <2>3, <3>1, Zenon DEF Quiet
  <2>4. QED
    BY <2>2, <2>3, Zenon
<1>9. CASE tx_busy(u)
  <2>1. u.tx_state = "STOP" /\ ~Writes(bus, "THR")
    BY <1>9, Zenon DEF tx_busy, Quiet
  <2>2. w.tx = TxLine(u) /\ w.tx_state \in {u.tx_state, TxNext(u)}
    BY <1>1, <1>9, Advances
  <2>3. w.tx = 1 /\ w.tx_state \in {"STOP", "IDLE"}
    BY <2>1, <2>2, Zenon DEF TxLine, TxNext
  <2>4. QED
    BY <1>5, <1>6, <1>7, <2>1, <2>3, Zenon DEF Quiet
<1>10. QED
  BY <1>8, <1>9, Zenon

\* The start bit takes two clocks to the receiver.
LEMMA StartingStep ==
    ASSUME Exponents,
           NEW c \in Nat \ {0, 1}, NEW u \in UartRegisters(c), NEW bus, NEW v,
           v = RxEdge(TxEdge(u, bus, c), bus, u.tx, c), Driven(u), Starting(u),
           ~Writes(bus, "THR")
    PROVE  /\ Clocked(u, v, bus, c) /\ ~RxDone(u, c) /\ tx_busy(u)
           /\ v.rx_data_reg = u.rx_data_reg /\ v.tx_shift_reg = u.tx_shift_reg
           /\ Starting(v) \/ Confirming(v, c)
<1>1. PICK w : w = TxEdge(u, bus, c)
  BY Zenon
<1>2. w \in UartRegisters(c) /\ RxSame(u, w) /\ Driven(w)
  BY <1>1, Transmits, Drives, Zenon
<1>3. /\ u.tx_state = "START" /\ u.rx_state = "IDLE" /\ u.rx_prev = 1
      /\ u.tx_clk_count \in {0, 1} /\ tx_busy(u) /\ Segment(u) = 0
  BY Zenon DEF Starting, tx_busy, Segment
<1>4. /\ u.tx_clk_count = 0 => u.tx = 1
      /\ u.tx_clk_count = 1 => u.tx = 0
  BY <1>3 DEF Driven, Level, TxLine
<1>5. /\ w.tx_shift_reg = u.tx_shift_reg
      /\ \/ /\ u.tx_clk_count < c - 1 /\ w.tx_clk_count = u.tx_clk_count + 1
            /\ w.tx_state = u.tx_state /\ Segment(w) = Segment(u)
         \/ /\ u.tx_clk_count = c - 1 /\ w.tx_clk_count = 0
            /\ Segment(w) = Segment(u) + 1
  BY <1>1, <1>3, Advances
<1>6. w.rx_state = "IDLE" /\ w.rx_prev = 1 /\ u.tx \in {0, 1}
  BY <1>2, <1>3, Zenon DEF RxSame, UartRegisters
<1>7. /\ Looks(w, v, bus, u.tx, c) /\ RxHeld(w, v) /\ v.rx_clk_count = 0
      /\ v.rx_state = IF u.tx = 0 THEN "START" ELSE "IDLE"
  BY <1>1, <1>2, <1>6, Waits
<1>8. /\ Clocked(u, v, bus, c) /\ v.rx_prev = u.tx
      /\ v.tx_state = w.tx_state /\ v.tx_clk_count = w.tx_clk_count
      /\ v.tx_shift_reg = w.tx_shift_reg /\ Segment(v) = Segment(w)
  BY <1>2, <1>7, Follows
<1>9. ~RxDone(u, c) /\ v.rx_data_reg = u.rx_data_reg
  BY <1>2, <1>3, <1>7, Zenon DEF RxDone, RxHeld, RxSame
<1>10. CASE u.tx_clk_count = 0
  <2>1. v.tx_state = "START" /\ v.tx_clk_count = 1
    BY <1>3, <1>5, <1>8, <1>10
  <2>2. QED
    BY <1>3, <1>4, <1>5, <1>7, <1>8, <1>9, <1>10, <2>1 DEF Starting
<1>11. CASE u.tx_clk_count = 1
  <2>1. c \div 2 \in Nat /\ c \div 2 > 0
    OBVIOUS
  <2>2. Reached(v, c, 0, 0 + 2)
    BY <1>3, <1>5, <1>8, <1>11 DEF Reached
  <2>3. Confirming(v, c)
    BY <1>4, <1>7, <1>11, <2>1, <2>2, Zenon DEF Confirming
  <2>4. QED
    BY <1>3, <1>5, <1>8, <1>9, <2>3, Zenon
<1>12. QED
  BY <1>3, <1>10, <1>11, Zenon

\* What the transmitter has reached, it leaves a clock behind.
LEMMA Onwards ==
    ASSUME NEW c \in Nat \ {0, 1}, NEW u \in UartRegisters(c), NEW bus, NEW w,
           w = TxEdge(u, bus, c), tx_busy(u),
           NEW n \in Nat, NEW k \in Nat, k <= c + (c \div 2) + 1,
           Reached(u, c, n, k)
    PROVE  Reached(w, c, n, k + 1)
<1>1. PICK t \in 0..c - 1 : t = u.tx_clk_count
  BY Zenon DEF UartRegisters
<1>2. PICK g \in Int : g = Segment(u)
  BY BitsAssumption DEF UartRegisters, Segment
<1>3. \/ t < c - 1 /\ w.tx_clk_count = t + 1 /\ Segment(w) = g
      \/ t = c - 1 /\ w.tx_clk_count = 0 /\ Segment(w) = g + 1
  BY <1>1, <1>2, Advances
<1>4. \/ g = n /\ t = k
      \/ g = n + 1 /\ t + c = k
      \/ g = n + 2 /\ t + c + c = k
  BY <1>1, <1>2, Zenon DEF Reached
<1>5. c \div 2 \in Nat /\ c \div 2 < c
  OBVIOUS
<1>6. CASE t < c - 1 /\ w.tx_clk_count = t + 1 /\ Segment(w) = g
  BY <1>4, <1>6 DEF Reached
<1>7. CASE t = c - 1 /\ w.tx_clk_count = 0 /\ Segment(w) = g + 1
  BY <1>4, <1>5, <1>7 DEF Reached
<1>8. QED
  BY <1>3, <1>6, <1>7, Zenon

\* The start bit is confirmed while it is on the line.
LEMMA ConfirmingStep ==
    ASSUME Exponents,
           NEW c \in Nat \ {0, 1}, NEW u \in UartRegisters(c), NEW bus, NEW v,
           v = RxEdge(TxEdge(u, bus, c), bus, u.tx, c), Driven(u),
           Confirming(u, c), ~Writes(bus, "THR")
    PROVE  /\ Clocked(u, v, bus, c) /\ ~RxDone(u, c) /\ tx_busy(u)
           /\ v.rx_data_reg = u.rx_data_reg /\ v.tx_shift_reg = u.tx_shift_reg
           /\ Confirming(v, c) \/ Collecting(v, c)
<1>1. PICK w : w = TxEdge(u, bus, c)
  BY Zenon
<1>2. w \in UartRegisters(c) /\ RxSame(u, w) /\ Driven(w)
  BY <1>1, Transmits, Drives, Zenon
<1>3. PICK h \in Nat : h = c \div 2 /\ h > 0 /\ h < c
  OBVIOUS
<1>4. PICK k \in Nat : k = u.rx_clk_count /\ k < h
  BY <1>3 DEF UartRegisters, Confirming
<1>5. PICK t \in 0..c - 1 : t = u.tx_clk_count
  BY Zenon DEF UartRegisters
<1>6. u.rx_state = "START" /\ Reached(u, c, 0, k + 2)
  BY <1>4, Zenon DEF Confirming
<1>7. /\ u.tx_state \in {"START", "DATA"} /\ tx_busy(u)
      /\ \/ u.tx_state = "START" /\ t = k + 2
         \/ u.tx_state = "DATA" /\ Segment(u) = 1 /\ t + c = k + 2
  BY <1>3, <1>4, <1>5, <1>6, BitsAssumption
     DEF Reached, Segment, UartRegisters, States, tx_busy
<1>8. Reached(w, c, 0, (k + 2) + 1)
  BY <1>1, <1>3, <1>4, <1>6, <1>7, Onwards
<1>9. w.tx_shift_reg = u.tx_shift_reg
  BY <1>1, <1>7, Advances
<1>10. ~RxDone(u, c) /\ w.rx_state = "START" /\ w.rx_clk_count = k
  BY <1>2, <1>4, <1>6, Zenon DEF RxDone, RxSame
<1>11. CASE k < h - 1
  <2>1. u.tx \in {0, 1} /\ w.rx_clk_count < RxPeriod(w, c) - 1
    BY <1>3, <1>10, <1>11, Zenon DEF RxPeriod, UartRegisters
  <2>2. /\ Looks(w, v, bus, u.tx, c) /\ RxHeld(w, v)
        /\ v.rx_clk_count = k + 1 /\ v.rx_state = "START"
    BY <1>1, <1>2, <1>10, <2>1, Counts
  <2>3. /\ Clocked(u, v, bus, c) /\ v.tx_clk_count = w.tx_clk_count
        /\ v.tx_shift_reg = w.tx_shift_reg /\ Segment(v) = Segment(w)
    BY <1>2, <2>2, Follows
  <2>4. Reached(v, c, 0, (k + 1) + 2)
    <3>1. (k + 1) + 2 = (k + 2) + 1
      OBVIOUS
    <3>2. QED
      BY <1>8, <2>3, <3>1, Zenon DEF Reached
  <2>5. Confirming(v, c)
    BY <1>3, <1>11, <2>2, <2>4 DEF Confirming
  <2>6. QED
    BY <1>2, <1>7, <1>9, <1>10, <2>2, <2>3, <2>5, Zenon DEF RxHeld, RxSame
<1>12. CASE k = h - 1
  <2>1. u.tx = 0
    <3>1. Level(u) = 0
      <4>1. CASE u.tx_state = "START" /\ t = k + 2
        BY <1>5, <4>1 DEF Level, TxLine
      <4>2. CASE u.tx_state = "DATA" /\ Segment(u) = 1 /\ t + c = k + 2
        <5>1. t = 0
          BY <1>3, <1>5, <1>12, <4>2
        <5>2. QED
          BY <1>5, <4>2, <5>1 DEF Level
      <4>3. QED
        BY <1>7, <4>1, <4>2, Zenon
    <3>2. QED
      BY <3>1, Zenon DEF Driven
  <2>2. /\ Looks(w, v, bus, 0, c) /\ RxHeld(w, v)
        /\ v.rx_clk_count = 0 /\ v.rx_bit_index = 0 /\ v.rx_state = "DATA"
    BY <1>1, <1>2, <1>3, <1>10, <1>12, <2>1, Confirms
  <2>3. /\ Clocked(u, v, bus, c) /\ v.tx_clk_count = w.tx_clk_count
        /\ v.tx_shift_reg = w.tx_shift_reg /\ Segment(v) = Segment(w)
    BY <1>2, <2>2, Follows
  <2>4. Reached(v, c, 0, (c \div 2) + 0 + 2)
    <3>1. (c \div 2) + 0 + 2 = (k + 2) + 1
      BY <1>3, <1>12
    <3>2. QED
      BY <1>8, <2>3, <3>1, Zenon DEF Reached
  <2>5. v.rx_shift_reg % 2^0 = v.tx_shift_reg % 2^0
    <3>1. 2^0 = 1 /\ v.rx_shift_reg \in Nat /\ v.tx_shift_reg \in Nat
      <4>1. 2^BITS \in Nat /\ 2^0 = 1
        BY BitsAssumption DEF Exponents
      <4>2. QED
        BY <2>3, <4>1 DEF Clocked, UartRegisters, Byte
    <3>2. \A x \in Nat : x % 1 = 0
      OBVIOUS
    <3>3. QED
      BY <3>1, <3>2, Zenon
  <2>6. Collecting(v, c)
    BY <2>2, <2>4, <2>5, Zenon DEF Collecting
  <2>7. QED
    BY <1>2, <1>7, <1>9, <1>10, <2>2, <2>3, <2>6, Zenon DEF RxHeld, RxSame
<1>13. QED
  BY <1>4, <1>11, <1>12

\* A data bit is sampled while it is on the line.
LEMMA CollectingStep ==
    ASSUME Exponents,
           NEW c \in Nat \ {0, 1}, NEW u \in UartRegisters(c), NEW bus, NEW v,
           v = RxEdge(TxEdge(u, bus, c), bus, u.tx, c), Driven(u),
           Collecting(u, c), ~Writes(bus, "THR")
    PROVE  /\ Clocked(u, v, bus, c) /\ ~RxDone(u, c) /\ tx_busy(u)
           /\ v.rx_data_reg = u.rx_data_reg /\ v.tx_shift_reg = u.tx_shift_reg
           /\ Collecting(v, c) \/ Finishing(v, c)
<1>1. PICK w : w = TxEdge(u, bus, c)
  BY Zenon
<1>2. w \in UartRegisters(c) /\ RxSame(u, w) /\ Driven(w)
  BY <1>1, Transmits, Drives, Zenon
<1>3. PICK h \in Nat : h = c \div 2 /\ h > 0 /\ h < c
  OBVIOUS
<1>4. PICK k \in 0..c - 1 : k = u.rx_clk_count
  BY Zenon DEF UartRegisters
<1>5. PICK t \in 0..c - 1 : t = u.tx_clk_count
  BY Zenon DEF UartRegisters
<1>6. PICK i \in 0..BITS - 1 : i = u.rx_bit_index
  BY Zenon DEF UartRegisters
<1>7. BITS \in Nat \ {0} /\ i \in Nat /\ k \in Nat
  BY BitsAssumption
<1>8. /\ u.rx_state = "DATA" /\ Reached(u, c, i, h + k + 2)
      /\ u.rx_shift_reg % 2^i = u.tx_shift_reg % 2^i
  BY <1>3, <1>4, <1>6, Zenon DEF Collecting
<1>9. /\ tx_busy(u)
      /\ \/ Segment(u) = i /\ t = h + k + 2
         \/ Segment(u) = i + 1 /\ t + c = h + k + 2
         \/ Segment(u) = i + 2 /\ t + c + c = h + k + 2
  <2>1. \/ Segment(u) = i /\ t = h + k + 2
        \/ Segment(u) = i + 1 /\ t + c = h + k + 2
        \/ Segment(u) = i + 2 /\ t + c + c = h + k + 2
    BY <1>5, <1>8, Zenon DEF Reached
  <2>2. Segment(u) # BITS + 2
    BY <1>7, <2>1
  <2>3. QED
    BY <2>1, <2>2, Zenon DEF Segment, tx_busy
<1>10. Reached(w, c, i, (h + k + 2) + 1)
  <2>1. h + k + 2 \in Nat /\ h + k + 2 <= c + (c \div 2) + 1
    BY <1>3, <1>7
  <2>2. QED
    BY <1>1, <1>7, <1>8, <1>9, <2>1, Onwards, Zenon
<1>11. w.tx_shift_reg = u.tx_shift_reg
  BY <1>1, <1>9, Advances
<1>12. /\ ~RxDone(u, c) /\ w.rx_state = "DATA" /\ w.rx_clk_count = k
       /\ w.rx_bit_index = i /\ w.rx_shift_reg = u.rx_shift_reg
       /\ w.rx_data_reg = u.rx_data_reg /\ u.tx \in {0, 1}
  BY <1>2, <1>4, <1>6, <1>8, Zenon DEF RxDone, RxSame, UartRegisters
<1>13. CASE k < c - 1
  <2>1. w.rx_clk_count < RxPeriod(w, c) - 1
    BY <1>12, <1>13, Zenon DEF RxPeriod
  <2>2. /\ Looks(w, v, bus, u.tx, c) /\ RxHeld(w, v)
        /\ v.rx_clk_count = k + 1 /\ v.rx_state = "DATA" /\ v.rx_bit_index = i
    BY <1>1, <1>2, <1>12, <2>1, Counts
  <2>3. /\ Clocked(u, v, bus, c) /\ v.tx_clk_count = w.tx_clk_count
        /\ v.tx_shift_reg = w.tx_shift_reg /\ Segment(v) = Segment(w)
    BY <1>2, <2>2, Follows
  <2>4. Reached(v, c, i, (c \div 2) + (k + 1) + 2)
    <3>1. (c \div 2) + (k + 1) + 2 = (h + k + 2) + 1
      BY <1>3, <1>7
    <3>2. QED
      BY <1>10, <2>3, <3>1, Zenon DEF Reached
  <2>5. v.rx_shift_reg % 2^i = v.tx_shift_reg % 2^i
    BY <1>8, <1>11, <1>12, <2>2, <2>3, Zenon DEF RxHeld
  <2>6. Collecting(v, c)
    BY <2>2, <2>4, <2>5, Zenon DEF Collecting
  <2>7. QED
    BY <1>9, <1>11, <1>12, <2>2, <2>3, <2>6, Zenon DEF RxHeld
<1>14. CASE k = c - 1
  <2>1. u.tx = Bit(u.tx_shift_reg, i)
    <3>1. Level(u) = Bit(u.tx_shift_reg, i)
      <4>1. CASE Segment(u) = i + 1 /\ t + c = h + k + 2
        <5>1. t > 0
          BY <1>3, <1>14, <4>1
        <5>2. u.tx_state = "DATA" /\ u.tx_bit_index = i
          BY <1>7, <4>1 DEF Segment, UartRegisters, States
        <5>3. QED
          BY <1>5, <5>1, <5>2, Zenon DEF Level, TxLine
      <4>2. CASE Segment(u) = i + 2 /\ t + c + c = h + k + 2
        <5>1. t = 0 /\ Segment(u) # 1 /\ Segment(u) - 2 = i
          BY <1>3, <1>5, <1>7, <1>14, <4>2
        <5>2. u.tx_state \notin {"START", "IDLE"}
          BY <1>7, <4>2 DEF Segment
        <5>3. QED
          BY <1>5, <5>1, <5>2 DEF Level
      <4>3. QED
        BY <1>3, <1>5, <1>9, <1>14, <4>1, <4>2
    <3>2. QED
      BY <3>1, Zenon DEF Driven
  <2>2. u.rx_shift_reg \in Byte /\ u.tx_shift_reg \in Byte
    BY Zenon DEF UartRegisters
  <2>3. PICK b : b = WithBit(u.rx_shift_reg, i, u.tx)
    BY Zenon
  <2>4. b \in Byte /\ b % 2^(i + 1) = u.tx_shift_reg % 2^(i + 1)
    BY <1>8, <2>1, <2>2, <2>3, OneBitMore
  <2>5. /\ Looks(w, v, bus, u.tx, c) /\ v.rx_data_reg = w.rx_data_reg
        /\ v.rx_clk_count = 0 /\ v.rx_shift_reg = b
        /\ IF i = BITS - 1 THEN v.rx_state = "STOP"
           ELSE v.rx_state = "DATA" /\ v.rx_bit_index = i + 1
    BY <1>1, <1>2, <1>12, <1>14, <2>3, <2>4, Collects
  <2>6. /\ Clocked(u, v, bus, c) /\ v.tx_clk_count = w.tx_clk_count
        /\ v.tx_shift_reg = w.tx_shift_reg /\ Segment(v) = Segment(w)
    <3>1. RxSame(u, w) /\ Driven(w) /\ Looks(w, v, bus, u.tx, c)
      BY <1>2, <2>5, Zenon
    <3>2. QED
      BY ONLY <3>1, Follows
  <2>7. Reached(v, c, i + 1, (c \div 2) + 0 + 2)
    <3>1. PICK x \in 0..c - 1 : x = v.tx_clk_count
      BY <2>6, Zenon DEF Clocked, UartRegisters
    <3>2. \/ Segment(v) = i /\ x = (h + k + 2) + 1
          \/ Segment(v) = i + 1 /\ x + c = (h + k + 2) + 1
          \/ Segment(v) = i + 2 /\ x + c + c = (h + k + 2) + 1
      BY <1>10, <2>6, <3>1, Zenon DEF Reached
    <3>3. \/ Segment(v) = i + 1 /\ x = (c \div 2) + 0 + 2
          \/ Segment(v) = (i + 1) + 1 /\ x + c = (c \div 2) + 0 + 2
      BY <1>3, <1>7, <1>14, <3>2
    <3>4. QED
      BY <3>1, <3>3, Zenon DEF Reached
  <2>8. CASE i = BITS - 1
    <3>1. i + 1 = BITS
      BY <1>7, <2>8
    <3>2. b = u.tx_shift_reg
      BY <2>2, <2>4, <3>1, AllBits, Zenon
    <3>3. Finishing(v, c)
      BY <1>11, <2>5, <2>6, <2>7, <2>8, <3>1, <3>2, Zenon DEF Finishing
    <3>4. QED
      BY <1>9, <1>11, <1>12, <2>5, <2>6, <3>3, Zenon
  <2>9. CASE i # BITS - 1
    <3>1. Collecting(v, c)
      BY <1>11, <2>4, <2>5, <2>6, <2>7, <2>9, Zenon DEF Collecting
    <3>2. QED
      BY <1>9, <1>11, <1>12, <2>5, <2>6, <3>1, Zenon
  <2>10. QED
    BY <2>8, <2>9, Zenon
<1>15. QED
  BY <1>4, <1>13, <1>14

\* The stop bit is on the line until the byte is handed over, and after: the
\* receiver is ready for the next start bit before it can come.
LEMMA FinishingStep ==
    ASSUME Exponents,
           NEW c \in Nat \ {0, 1}, NEW u \in UartRegisters(c), NEW bus, NEW v,
           v = RxEdge(TxEdge(u, bus, c), bus, u.tx, c), Driven(u),
           Finishing(u, c), ~Writes(bus, "THR")
    PROVE  /\ Clocked(u, v, bus, c)
           /\ u.tx_state = "IDLE" => RxDone(u, c) /\ v.tx_state = "IDLE"
           /\ IF RxDone(u, c)
              THEN v.rx_data_reg = u.tx_shift_reg /\ Quiet(v)
              ELSE /\ v.rx_data_reg = u.rx_data_reg
                   /\ v.tx_shift_reg = u.tx_shift_reg /\ Finishing(v, c)
<1>1. PICK w : w = TxEdge(u, bus, c)
  BY Zenon
<1>2. w \in UartRegisters(c) /\ RxSame(u, w) /\ Driven(w)
  BY <1>1, Transmits, Drives, Zenon
<1>3. PICK h \in Nat : h = c \div 2 /\ h > 0 /\ h < c
  OBVIOUS
<1>4. PICK k \in 0..c - 1 : k = u.rx_clk_count
  BY Zenon DEF UartRegisters
<1>5. PICK t \in 0..c - 1 : t = u.tx_clk_count
  BY Zenon DEF UartRegisters
<1>6. BITS \in Nat \ {0} /\ k \in Nat
  BY BitsAssumption
<1>7. /\ u.rx_state = "STOP" /\ Reached(u, c, BITS, h + k + 2)
      /\ u.rx_shift_reg = u.tx_shift_reg
  BY <1>3, <1>4, Zenon DEF Finishing
<1>8. \/ Segment(u) = BITS /\ t = h + k + 2
      \/ Segment(u) = BITS + 1 /\ t + c = h + k + 2
      \/ Segment(u) = BITS + 2 /\ t + c + c = h + k + 2
  BY <1>5, <1>7, Zenon DEF Reached
<1>9. RxDone(u, c) <=> k = c - 1
  BY <1>4, <1>7, Zenon DEF RxDone
<1>10. u.tx_state = "IDLE" => k = c - 1
  <2>1. u.tx_state = "IDLE" => Segment(u) = BITS + 2
    BY Zenon DEF Segment
  <2>2. QED
    BY <1>3, <1>4, <1>5, <1>6, <1>8, <2>1
<1>11. /\ w.rx_state = "STOP" /\ w.rx_clk_count = k
       /\ w.rx_shift_reg = u.rx_shift_reg
       /\ w.rx_data_reg = u.rx_data_reg /\ u.tx \in {0, 1}
  BY <1>2, <1>4, <1>7, Zenon DEF RxSame, UartRegisters
<1>12. CASE k < c - 1
  <2>1. tx_busy(u) /\ w.rx_clk_count < RxPeriod(w, c) - 1
    BY <1>10, <1>11, <1>12 DEF RxPeriod, tx_busy
  <2>2. Reached(w, c, BITS, (h + k + 2) + 1)
    <3>1. h + k + 2 \in Nat /\ h + k + 2 <= c + (c \div 2) + 1 /\ BITS \in Nat
      BY <1>3, <1>6
    <3>2. QED
      BY <1>1, <1>7, <2>1, <3>1, Onwards, Zenon
  <2>3. w.tx_shift_reg = u.tx_shift_reg
    BY <1>1, <2>1, Advances
  <2>4. /\ Looks(w, v, bus, u.tx, c) /\ RxHeld(w, v)
        /\ v.rx_clk_count = k + 1 /\ v.rx_state = "STOP"
    BY <1>1, <1>2, <1>11, <2>1, Counts
  <2>5. /\ Clocked(u, v, bus, c) /\ v.tx_clk_count = w.tx_clk_count
        /\ v.tx_shift_reg = w.tx_shift_reg /\ Segment(v) = Segment(w)
    BY <1>2, <2>4, Follows
  <2>6. Reached(v, c, BITS, (c \div 2) + (k + 1) + 2)
    <3>1. (c \div 2) + (k + 1) + 2 = (h + k + 2) + 1
      BY <1>3, <1>6
    <3>2. QED
      BY <2>2, <2>5, <3>1, Zenon DEF Reached
  <2>7. Finishing(v, c)
    BY <1>7, <1>11, <2>3, <2>4, <2>5, <2>6, Zenon DEF Finishing, RxHeld
  <2>8. QED
    BY <1>9, <1>10, <1>11, <1>12, <2>3, <2>4, <2>5, <2>7 DEF RxHeld
<1>13. CASE k = c - 1
  <2>1. u.tx_state \in {"STOP", "IDLE"} /\ u.tx = 1
    <3>1. CASE Segment(u) = BITS + 1 /\ t + c = h + k + 2
      <4>1. u.tx_state = "STOP" /\ t > 0
        BY <1>3, <1>5, <1>6, <1>13, <3>1 DEF Segment, UartRegisters, States
      <4>2. QED
        BY <1>5, <4>1, Zenon DEF Driven, Level, TxLine
    <3>2. CASE Segment(u) = BITS + 2 /\ t + c + c = h + k + 2
      <4>1. u.tx_state = "IDLE"
        BY <1>6, <3>2 DEF Segment, UartRegisters, States
      <4>2. QED
        BY <4>1 DEF Driven, Level
    <3>3. QED
      BY <1>3, <1>5, <1>8, <1>13, <3>1, <3>2
  <2>2. w.tx_state \in {"STOP", "IDLE"} /\ w.tx = 1
    <3>1. CASE tx_busy(u)
      <4>1. u.tx_state = "STOP"
        BY <2>1, <3>1, Zenon DEF tx_busy
      <4>2. w.tx = TxLine(u) /\ w.tx_state \in {u.tx_state, TxNext(u)}
        BY <1>1, <3>1, Advances
      <4>3. QED
        BY <4>1, <4>2, Zenon DEF TxLine, TxNext
    <3>2. CASE ~tx_busy(u)
      <4>1. w = [u EXCEPT !.tx = 1]
        BY <1>1, <3>2, Zenon DEF TxEdge
      <4>2. QED
        BY <2>1, <4>1, Zenon DEF UartRegisters
    <3>3. QED
      BY <3>1, <3>2, Zenon
  <2>3. u.tx_state = "IDLE" => w.tx_state = "IDLE"
    BY <1>1, Zenon DEF TxEdge, tx_busy, UartRegisters
  <2>4. RxDone(w, c)
    BY <1>11, <1>13, Zenon DEF RxDone
  <2>5. /\ Looks(w, v, bus, u.tx, c)
        /\ v.rx_data_reg = w.rx_shift_reg /\ v.rx_state = "IDLE"
    BY <1>1, <1>2, <1>11, <2>4, HandsOver
  <2>6. /\ Clocked(u, v, bus, c) /\ v.rx_prev = u.tx
        /\ v.tx = w.tx /\ v.tx_state = w.tx_state
    BY <1>2, <2>5, Follows
  <2>7. Quiet(v)
    BY <2>1, <2>2, <2>5, <2>6, Zenon DEF Quiet
  <2>8. QED
    BY <1>7, <1>9, <1>11, <1>13, <2>3, <2>5, <2>6, <2>7, Zenon
<1>14. QED
  BY <1>4, <1>12, <1>13

\* The line with one byte on it.
LEMMA OneByte ==
    ASSUME NEW d \in Byte
    PROVE  /\ <<d>> # <<>> /\ Tail(<<d>>) = <<>> /\ SubSeq(<<d>>, 1, 1) = <<d>>
           /\ Append(<<>>, d) = <<d>> /\ <<d>>[1] = d
<1>1. <<d>> # <<>> /\ Append(<<>>, d) = <<d>> /\ <<d>>[1] = d
  OBVIOUS
<1>2. Tail(<<d>>) = <<>>
  OBVIOUS
<1>3. SubSeq(<<d>>, 1, 1) = <<d>>
  <2>1. <<d>> \in Seq(Byte) /\ Len(<<d>>) = 1
    OBVIOUS
  <2>2. PICK s \in Seq(Byte) : s = SubSeq(<<d>>, 1, 1)
    <3>1. SubSeq(<<d>>, 1, 1) \in Seq(Byte)
      BY <2>1
    <3>2. QED
      BY <3>1, Zenon
  <2>3. Len(s) = 1 /\ \A i \in 1..1 : s[i] = <<d>>[i]
    BY <2>1, <2>2
  <2>4. ASSUME NEW t \in Seq(Byte), Len(s) = Len(t),
               \A i \in 1..Len(s) : s[i] = t[i]
        PROVE  s = t
    BY <2>4
  <2>5. QED
    BY <2>1, <2>2, <2>3, <2>4, Zenon
<1>4. QED
  BY <1>1, <1>2, <1>3, Zenon

\* What a clock leaves on the line.
NextLine(u, l, bus, c) ==
  LET rest == IF RxDone(u, c) /\ l # <<>> THEN Tail(l) ELSE l
  IN  IF Writes(bus, "THR") THEN Append(rest, bus.data) ELSE rest

\* A clock of the serial port with the history of the line: a byte is handed
\* over as it was written, and the next one goes onto an empty line.
LEMMA FrameStep ==
    ASSUME Exponents,
           NEW c \in Nat \ {0, 1}, NEW u \in UartRegisters(c), NEW bus, NEW v,
           v = RxEdge(TxEdge(u, bus, c), bus, u.tx, c),
           NEW l, Framed(u, l, c),
           Writes(bus, "THR") =>
             u.tx_state = "IDLE" /\ l = <<>> /\ bus.data \in Byte
    PROVE  /\ v \in UartRegisters(c) /\ v.rx_ready = RxReady(u, bus, c)
           /\ Framed(v, NextLine(u, l, bus, c), c)
           /\ IF RxDone(u, c) THEN l = <<v.rx_data_reg>>
              ELSE v.rx_data_reg = u.rx_data_reg
           /\ u.tx_state = "IDLE" /\ ~Writes(bus, "THR") =>
                v.tx_state = "IDLE" /\ NextLine(u, l, bus, c) = <<>>
<1> DEFINE rest == IF RxDone(u, c) /\ l # <<>> THEN Tail(l) ELSE l
           m == IF Writes(bus, "THR") THEN Append(rest, bus.data) ELSE rest
<1>0. NextLine(u, l, bus, c) = m
  BY Zenon DEF NextLine
<1> HIDE DEF m
<1>1. Driven(u) /\ u.tx_shift_reg \in Byte
  BY Zenon DEF Framed, UartRegisters
<1>2. CASE Quiet(u) /\ l = <<>>
  <2>1. /\ Clocked(u, v, bus, c) /\ ~RxDone(u, c)
        /\ v.rx_data_reg = u.rx_data_reg
        /\ IF Writes(bus, "THR")
           THEN Starting(v) /\ v.tx_shift_reg = bus.data
           ELSE Quiet(v) /\ (u.tx_state = "IDLE" => v.tx_state = "IDLE")
    <3>1. /\ v = RxEdge(TxEdge(u, bus, c), bus, u.tx, c)
          /\ Writes(bus, "THR") => u.tx_state = "IDLE" /\ bus.data \in Byte
      BY Zenon
    <3>2. QED
      BY ONLY Exponents, c \in Nat \ {0, 1}, u \in UartRegisters(c),
              <1>1, <1>2, <3>1, QuietStep
  <2>2. rest = <<>>
    BY <1>2, Zenon
  <2>3. CASE Writes(bus, "THR")
    <3>1. m = <<v.tx_shift_reg>>
      BY <2>1, <2>2, <2>3, OneByte, Zenon DEF m
    <3>2. QED
      BY <1>0, <2>1, <2>3, <3>1, Zenon DEF Clocked, Framed
  <2>4. CASE ~Writes(bus, "THR")
    <3>1. m = <<>>
      BY <2>2, <2>4, Zenon DEF m
    <3>2. QED
      BY <1>0, <2>1, <2>4, <3>1, Zenon DEF Clocked, Framed
  <2>5. QED
    BY <2>3, <2>4, Zenon
<1>3. CASE (Starting(u) \/ Receiving(u, c)) /\ l = <<u.tx_shift_reg>>
  <2>1. ~Writes(bus, "THR") /\ m = rest
    BY <1>1, <1>3, OneByte, Zenon DEF m
  <2>2. CASE Finishing(u, c)
    <3>1. /\ Clocked(u, v, bus, c)
          /\ u.tx_state = "IDLE" => RxDone(u, c) /\ v.tx_state = "IDLE"
          /\ IF RxDone(u, c)
             THEN v.rx_data_reg = u.tx_shift_reg /\ Quiet(v)
             ELSE /\ v.rx_data_reg = u.rx_data_reg
                  /\ v.tx_shift_reg = u.tx_shift_reg /\ Finishing(v, c)
      BY <1>1, <2>1, <2>2, FinishingStep, Zenon
    <3>2. CASE RxDone(u, c)
      <4>1. m = <<>>
        BY <1>1, <1>3, <2>1, <3>2, OneByte, Zenon
      <4>2. QED
        BY <1>0, <1>3, <2>1, <3>1, <3>2, <4>1, Zenon DEF Clocked, Framed
    <3>3. CASE ~RxDone(u, c)
      <4>1. m = <<v.tx_shift_reg>>
        BY <1>3, <2>1, <3>1, <3>3, Zenon
      <4>2. QED
        BY <1>0, <2>1, <3>1, <3>3, <4>1, Zenon DEF Clocked, Framed, Receiving
    <3>4. QED
      BY <3>2, <3>3, Zenon
  <2>3. CASE Starting(u) \/ Confirming(u, c) \/ Collecting(u, c)
    <3>1. /\ Clocked(u, v, bus, c) /\ ~RxDone(u, c) /\ tx_busy(u)
          /\ v.rx_data_reg = u.rx_data_reg /\ v.tx_shift_reg = u.tx_shift_reg
          /\ Starting(v) \/ Receiving(v, c)
      <4>1. CASE Starting(u)
        <5>1. /\ Clocked(u, v, bus, c) /\ ~RxDone(u, c) /\ tx_busy(u)
              /\ v.rx_data_reg = u.rx_data_reg
              /\ v.tx_shift_reg = u.tx_shift_reg
              /\ Starting(v) \/ Confirming(v, c)
          BY ONLY Exponents, c \in Nat \ {0, 1}, u \in UartRegisters(c),
                  v = RxEdge(TxEdge(u, bus, c), bus, u.tx, c),
                  <1>1, <2>1, <4>1, StartingStep
        <5>2. QED
          BY <5>1, Zenon DEF Receiving
      <4>2. CASE Confirming(u, c)
        <5>1. /\ Clocked(u, v, bus, c) /\ ~RxDone(u, c) /\ tx_busy(u)
              /\ v.rx_data_reg = u.rx_data_reg
              /\ v.tx_shift_reg = u.tx_shift_reg
              /\ Confirming(v, c) \/ Collecting(v, c)
          BY ONLY Exponents, c \in Nat \ {0, 1}, u \in UartRegisters(c),
                  v = RxEdge(TxEdge(u, bus, c), bus, u.tx, c),
                  <1>1, <2>1, <4>2, ConfirmingStep
        <5>2. QED
          BY <5>1, Zenon DEF Receiving
      <4>3. CASE Collecting(u, c)
        <5>1. /\ Clocked(u, v, bus, c) /\ ~RxDone(u, c) /\ tx_busy(u)
              /\ v.rx_data_reg = u.rx_data_reg
              /\ v.tx_shift_reg = u.tx_shift_reg
              /\ Collecting(v, c) \/ Finishing(v, c)
          BY ONLY Exponents, c \in Nat \ {0, 1}, u \in UartRegisters(c),
                  v = RxEdge(TxEdge(u, bus, c), bus, u.tx, c),
                  <1>1, <2>1, <4>3, CollectingStep
        <5>2. QED
          BY <5>1, Zenon DEF Receiving
      <4>4. QED
        BY <2>3, <4>1, <4>2, <4>3, Zenon
    <3>2. m = <<v.tx_shift_reg>>
      BY <1>3, <2>1, <3>1, Zenon
    <3>3. QED
      BY <1>0, <2>1, <3>1, <3>2, Zenon DEF Clocked, Framed, tx_busy
  <2>4. QED
    BY <1>3, <2>2, <2>3, Zenon DEF Receiving
<1>4. QED
  BY <1>2, <1>3, Zenon DEF Framed

----------------------------------------------------------------------------
(* The console: what the firmware does with the serial port.               *)

SPlaces == {"run", "ecall", "handler", "handler_ecall", "handler_sret"}
MPlaces == {"boot", "swap", "restore", "mret", "halt"} \cup Arming \cup Serving
ConsolePlaces == {"lsr", "lsr_end", "rbr", "rbr_end", "thr"}
Ecalls == {"ecall", "handler_ecall"}

\* An ecall's argument is one of its call's.
Asked(at, r) ==
  at \in Ecalls => /\ r.a7 = "putchar" => r.a0 \in Byte
                   /\ r.a7 = "set_timer" => r.a0 \in 0..NEVER

Control ==
  /\ \/ cpu.mode = "S" /\ cpu.at \in SPlaces /\ Asked(cpu.at, regs)
     \/ cpu.mode = "M" /\ cpu.at \in MPlaces
  /\ ctx.at \in SPlaces /\ Asked(ctx.at, ctx.regs)
  /\ csr.sepc \in SPlaces /\ Asked(csr.sepc, mem.frame)
  /\ InTrap /\ csr.mcause = "ecall" => ctx.at \in Ecalls
  /\ cpu.at \in ConsolePlaces => csr.mcause = "ecall"
  /\ cpu.at = "thr" => mem.saved.a7 = "putchar"
  /\ mtimecmp \in 0..NEVER /\ armed.target \in {BOOT} \cup (0..NEVER)

\* The serial port and the history of its bytes.
Line ==
  /\ UartTypeOK(build.Clks) /\ Framed(uart, line, build.Clks)
  /\ held = <<>> \/ held = <<uart.rx_data_reg>>
  /\ cpu.at = "thr" => uart.tx_state = "IDLE" /\ line = <<>>

BInv == Control /\ Line /\ BytesOnce

\* A clock of the serial port, whatever is on the bus.
LEMMA LineTick ==
    ASSUME Exponents, build \in Builds, Line, NEW STATE bus, Clock(bus),
           Writes(bus, "THR") =>
             uart.tx_state = "IDLE" /\ line = <<>> /\ bus.data \in Byte
    PROVE  /\ UartTypeOK(build.Clks)' /\ Framed(uart', line', build'.Clks)
           /\ held' = <<>> \/ held' = <<uart'.rx_data_reg>>
           /\ uart'.rx_ready = RxReady(uart, bus, build.Clks)
           /\ IF RxDone(uart, build.Clks) THEN held' # <<>>
              ELSE held' = IF cpu.at = "rbr_end" THEN <<>> ELSE held
           /\ uart.tx_state = "IDLE" /\ ~Writes(bus, "THR") =>
                uart'.tx_state = "IDLE" /\ line' = <<>>
<1>1. PICK c : c = build.Clks
  BY Zenon
<1>2. c \in Nat \ {0, 1} /\ build'.Clks = c
  BY <1>1, BuildsAssumption, Zenon DEF Clock
<1>3. PICK b : b = bus
  BY Zenon
<1>4. PICK u \in UartRegisters(c) : u = uart
  BY <1>1, Zenon DEF Line, UartTypeOK
<1>5. PICK l : l = line
  BY Zenon
<1>6. PICK v : v = uart'
  BY Zenon
<1>7. PICK m : m = line'
  BY Zenon
<1>8. v = RxEdge(TxEdge(u, b, c), b, u.tx, c)
  BY <1>1, <1>3, <1>4, <1>6, Zenon DEF Clock, UartEdge
<1>9. m = NextLine(u, l, b, c)
  BY <1>1, <1>3, <1>4, <1>5, <1>7, Zenon DEF Clock, NextLine
<1>10. Framed(u, l, c) /\ (held = <<>> \/ held = <<u.rx_data_reg>>)
  BY <1>1, <1>4, <1>5, Zenon DEF Line
<1>11. Writes(b, "THR") => u.tx_state = "IDLE" /\ l = <<>> /\ b.data \in Byte
  BY <1>3, <1>4, <1>5, Zenon
<1>12. /\ v \in UartRegisters(c) /\ v.rx_ready = RxReady(u, b, c)
       /\ Framed(v, m, c)
       /\ IF RxDone(u, c) THEN l = <<v.rx_data_reg>>
          ELSE v.rx_data_reg = u.rx_data_reg
       /\ u.tx_state = "IDLE" /\ ~Writes(b, "THR") =>
            v.tx_state = "IDLE" /\ m = <<>>
  <2>1. /\ v \in UartRegisters(c) /\ v.rx_ready = RxReady(u, b, c)
        /\ Framed(v, NextLine(u, l, b, c), c)
        /\ IF RxDone(u, c) THEN l = <<v.rx_data_reg>>
           ELSE v.rx_data_reg = u.rx_data_reg
        /\ u.tx_state = "IDLE" /\ ~Writes(b, "THR") =>
             v.tx_state = "IDLE" /\ NextLine(u, l, b, c) = <<>>
    BY ONLY Exponents, u \in UartRegisters(c), <1>2, <1>8, <1>10, <1>11,
            FrameStep
  <2>2. QED
    BY <1>9, <2>1, Zenon
<1>13. held' = IF RxDone(u, c) THEN SubSeq(l, 1, 1)
               ELSE IF cpu.at = "rbr_end" THEN <<>> ELSE held
  BY <1>1, <1>4, <1>5, Zenon DEF Clock
<1>14. RxDone(u, c) => held' = <<v.rx_data_reg>> /\ held' # <<>>
  <2>1. v.rx_data_reg \in Byte
    BY <1>12, Zenon DEF UartRegisters
  <2>2. QED
    BY <1>12, <1>13, <2>1, OneByte, Zenon
<1>15. held' = <<>> \/ held' = <<v.rx_data_reg>>
  BY <1>10, <1>12, <1>13, <1>14, Zenon
<1>16. IF RxDone(u, c) THEN held' # <<>>
       ELSE held' = IF cpu.at = "rbr_end" THEN <<>> ELSE held
  BY <1>13, <1>14, Zenon
<1>17. UartTypeOK(build.Clks)'
  BY <1>2, <1>6, <1>12, Zenon DEF UartTypeOK
<1>18. QED
  BY <1>1, <1>2, <1>3, <1>4, <1>6, <1>7, <1>12, <1>15, <1>16, <1>17, Zenon

\* A clock in which the processor leaves the bytes alone.
LEMMA QuietClock ==
    ASSUME Exponents,
           build \in Builds, Line, BytesOnce, NEW STATE bus, Clock(bus),
           ~Writes(bus, "THR"), ~Reads(bus, "RBR"), cpu.at # "rbr_end",
           cpu'.at = cpu.at \/ cpu'.at \notin {"thr", "rbr", "rbr_end"}
    PROVE  Line' /\ BytesOnce'
<1>1. /\ UartTypeOK(build.Clks)' /\ Framed(uart', line', build'.Clks)
      /\ held' = <<>> \/ held' = <<uart'.rx_data_reg>>
      /\ uart'.rx_ready = RxReady(uart, bus, build.Clks)
      /\ IF RxDone(uart, build.Clks) THEN held' # <<>> ELSE held' = held
      /\ uart.tx_state = "IDLE" => uart'.tx_state = "IDLE" /\ line' = <<>>
  BY LineTick, Zenon
<1>2. cpu'.at = "thr" => uart'.tx_state = "IDLE" /\ line' = <<>>
  BY <1>1, Zenon DEF Line
<1>3. Line'
  BY <1>1, <1>2, Zenon DEF Line
<1>4. uart'.rx_ready <=> held' # <<>>
  <2>1. uart'.rx_ready <=> RxDone(uart, build.Clks) \/ uart.rx_ready
    BY <1>1, Zenon DEF RxReady
  <2>2. uart.rx_ready <=> held # <<>>
    BY Zenon DEF BytesOnce
  <2>3. QED
    BY <1>1, <2>1, <2>2, Zenon
<1>5. cpu'.at \in {"rbr", "rbr_end"} => held' # <<>>
  BY <1>1, Zenon DEF BytesOnce
<1>6. QED
  BY <1>3, <1>4, <1>5, Zenon DEF BytesOnce

\* A load from LSR: uart_putchar goes on when the transmitter is at rest, and
\* uart_getchar when there is a byte.
LEMMA LsrStep ==
    ASSUME Exponents, build \in Builds, Line, BytesOnce, LsrEnd
    PROVE  Line' /\ BytesOnce'
<1>1. PICK lsr : lsr = UartRead(uart, "LSR")
  BY Zenon
<1>2. /\ cpu.mode = "M" /\ cpu.at = "lsr_end" /\ Clock(Bus)
      /\ cpu'.at = IF mem.saved.a7 = "putchar"
                   THEN IF lsr.THRE THEN "thr" ELSE "lsr"
                   ELSE IF lsr.DR THEN "rbr" ELSE "return"
  BY <1>1, Zenon DEF LsrEnd, At, Goto
<1>3. ~Writes(Bus, "THR") /\ ~Reads(Bus, "RBR")
  BY <1>2, Zenon DEF Bus, Writes, Reads
<1>4. /\ UartTypeOK(build.Clks)' /\ Framed(uart', line', build'.Clks)
      /\ held' = <<>> \/ held' = <<uart'.rx_data_reg>>
      /\ uart'.rx_ready = RxReady(uart, Bus, build.Clks)
      /\ IF RxDone(uart, build.Clks) THEN held' # <<>> ELSE held' = held
      /\ uart.tx_state = "IDLE" => uart'.tx_state = "IDLE" /\ line' = <<>>
  BY <1>2, <1>3, LineTick, Zenon
<1>5. cpu'.at = "thr" => uart'.tx_state = "IDLE" /\ line' = <<>>
  BY <1>1, <1>2, <1>4, Zenon DEF UartRead, tx_busy
<1>6. Line'
  BY <1>4, <1>5, Zenon DEF Line
<1>7. uart.rx_ready <=> held # <<>>
  BY <1>2, Zenon DEF BytesOnce
<1>8. uart'.rx_ready <=> held' # <<>>
  <2>1. uart'.rx_ready <=> RxDone(uart, build.Clks) \/ uart.rx_ready
    BY <1>3, <1>4, Zenon DEF RxReady
  <2>2. QED
    BY <1>4, <1>7, <2>1, Zenon
<1>9. cpu'.at = "rbr" => held' # <<>>
  BY <1>1, <1>2, <1>4, <1>7, Zenon DEF UartRead
<1>10. cpu'.at # "rbr_end"
  BY <1>2, Zenon
<1>11. QED
  BY <1>6, <1>8, <1>9, <1>10, Zenon DEF BytesOnce

\* A load from RBR takes two clocks; the byte is read in the second, and data
\* ready is cleared by both unless a byte comes in.
LEMMA RbrStep ==
    ASSUME Exponents,
           Shape, Line, BytesOnce, (LoadStart /\ cpu.at = "rbr") \/ RbrEnd
    PROVE  Line' /\ BytesOnce'
<1>1. /\ cpu.at \in {"rbr", "rbr_end"} /\ Clock(Bus)
      /\ cpu'.at = IF cpu.at = "rbr" THEN "rbr_end" ELSE "return"
  BY DEF Shape, LoadStart, RbrEnd, At, Goto
<1>2. ~Writes(Bus, "THR") /\ Reads(Bus, "RBR")
  BY <1>1, Zenon DEF Bus, Writes, Reads
<1>3. /\ UartTypeOK(build.Clks)' /\ Framed(uart', line', build'.Clks)
      /\ held' = <<>> \/ held' = <<uart'.rx_data_reg>>
      /\ uart'.rx_ready = RxReady(uart, Bus, build.Clks)
      /\ IF RxDone(uart, build.Clks) THEN held' # <<>>
         ELSE held' = IF cpu.at = "rbr_end" THEN <<>> ELSE held
  BY <1>1, <1>2, LineTick, Zenon DEF Shape
<1>4. Line'
  BY <1>1, <1>3, Zenon DEF Line
<1>5. CASE cpu.at = "rbr"
  BY <1>1, <1>3, <1>5, Zenon DEF BytesOnce, Line
<1>6. CASE cpu.at = "rbr_end"
  <2>1. uart'.rx_ready <=> RxDone(uart, build.Clks)
    BY <1>2, <1>3, Zenon DEF RxReady
  <2>2. uart'.rx_ready <=> held' # <<>>
    BY <1>3, <1>6, <2>1, Zenon
  <2>3. QED
    BY <1>1, <1>4, <1>6, <2>2, Zenon DEF BytesOnce
<1>7. QED
  BY <1>1, <1>4, <1>5, <1>6, Zenon

\* A store to THR finds the transmitter at rest and the line empty.
LEMMA ThrStep ==
    ASSUME Exponents, IInv, Control, Line, BytesOnce, WriteThr
    PROVE  Line' /\ BytesOnce'
<1>1. cpu.mode = "M" /\ cpu.at = "thr" /\ Clock(Bus) /\ cpu'.at = "return"
  BY Zenon DEF WriteThr, At, Goto
<1>2. uart.tx_state = "IDLE" /\ line = <<>> /\ build \in Builds
  BY <1>1, Zenon DEF Line, IInv, Shape
<1>3. Bus.data = mem.saved.a0 /\ ~Reads(Bus, "RBR")
  BY <1>1, Zenon DEF Bus, Reads
<1>4. mem.saved.a0 \in Byte
  <2>1. mem.saved = ctx.regs
    BY <1>1, Zenon DEF IInv, Saved, Serving
  <2>2. csr.mcause = "ecall" /\ mem.saved.a7 = "putchar"
    BY <1>1, Zenon DEF Control, ConsolePlaces
  <2>3. ctx.at \in Ecalls
    BY <1>1, <2>2, Zenon DEF Control, InTrap
  <2>4. QED
    BY <2>1, <2>2, <2>3, Zenon DEF Control, Asked
<1>5. /\ UartTypeOK(build.Clks)' /\ Framed(uart', line', build'.Clks)
      /\ held' = <<>> \/ held' = <<uart'.rx_data_reg>>
      /\ uart'.rx_ready = RxReady(uart, Bus, build.Clks)
      /\ IF RxDone(uart, build.Clks) THEN held' # <<>> ELSE held' = held
  BY <1>1, <1>2, <1>3, <1>4, LineTick, Zenon
<1>6. Line'
  BY <1>1, <1>5, Zenon DEF Line
<1>7. uart'.rx_ready <=> held' # <<>>
  <2>1. uart'.rx_ready <=> RxDone(uart, build.Clks) \/ uart.rx_ready
    BY <1>3, <1>5, Zenon DEF RxReady
  <2>2. uart.rx_ready <=> held # <<>>
    BY <1>1, Zenon DEF BytesOnce
  <2>3. QED
    BY <1>5, <2>1, <2>2, Zenon
<1>8. QED
  BY <1>1, <1>6, <1>7, Zenon DEF BytesOnce

----------------------------------------------------------------------------
(* The places of the code.                                                 *)

\* boot.S and the traps.
LEMMA TrapControl ==
    ASSUME IInv, Control, Boot \/ TimerInterrupt \/ Ecall
    PROVE  Control'
<1>1. /\ mtimecmp' = mtimecmp
      /\ csr'.sepc = csr.sepc /\ mem' = mem
  BY Tick, Zenon
     DEF IInv, Shape, CsrNames, history, Boot, BootCsrs, TimerInterrupt,
     Ecall, EnterM
<1>2. CASE Boot
  BY <1>1, <1>2, Zenon
     DEF Control, Boot, history, SPlaces, Ecalls, Asked, InTrap,
     ConsolePlaces
<1>3. CASE TimerInterrupt
  <2>1. /\ cpu.mode = "S" /\ cpu' = [mode |-> "M", at |-> "swap"]
        /\ csr'.mcause = "timer" /\ ctx' = [at |-> cpu.at, regs |-> regs]
        /\ armed' = armed
    BY <1>3, Zenon DEF IInv, Shape, CsrNames, TimerInterrupt, EnterM
  <2>2. QED
    BY <1>1, <2>1, Zenon DEF Control, MPlaces, InTrap, ConsolePlaces, Asked
<1>4. CASE Ecall
  <2>1. /\ cpu.mode = "S" /\ cpu' = [mode |-> "M", at |-> "swap"]
        /\ cpu.at \in Ecalls /\ ctx' = [at |-> cpu.at, regs |-> regs]
        /\ armed'.target = IF regs.a7 = "set_timer" THEN regs.a0 ELSE armed.target
    BY <1>4, Zenon DEF Ecall, EnterM, Ecalls
  <2>2. QED
    BY <1>1, <2>1, Zenon DEF Control, MPlaces, InTrap, ConsolePlaces, Asked
<1>5. QED
  BY <1>2, <1>3, <1>4, Zenon

\* The supervisor's own steps.
LEMMA SupervisorControl ==
    ASSUME IInv, Control,
           SupervisorTimerInterrupt \/ Call \/ HandlerCall \/ EnableTimer \/ Sret
    PROVE  Control'
<1>0. mtimecmp' = mtimecmp
  BY Tick, Zenon
     DEF IInv, SupervisorTimerInterrupt, Call, HandlerCall, Prepare,
     EnableTimer, Sret
<1>1. /\ mtimecmp' = mtimecmp /\ ctx' = ctx /\ armed'.target = armed.target
      /\ cpu.mode = "S" /\ cpu'.mode = "S"
  <2>1. cpu.mode = "S" /\ cpu'.mode = "S"
    <3>1. cpu.mode = "S" \/ \E from : At("S", from)
      BY Zenon DEF SupervisorTimerInterrupt, Call, HandlerCall, Prepare,
         EnableTimer, Sret
    <3>2. cpu' = cpu \/ \E label : Goto(label)
      BY Zenon DEF SupervisorTimerInterrupt, Call, HandlerCall, Prepare,
         EnableTimer, Sret
    <3>3. cpu.mode = "S" /\ cpu = [mode |-> cpu.mode, at |-> cpu.at]
      BY <3>1 DEF IInv, Shape, At
    <3>4. QED
      BY <3>2, <3>3, Zenon DEF Goto
  <2>2. ctx' = ctx /\ armed'.target = armed.target
    BY Zenon
       DEF IInv, Shape, history, SupervisorTimerInterrupt, Call, HandlerCall,
       Prepare, EnableTimer, Sret
  <2>3. QED
    BY <1>0, <2>1, <2>2, Zenon
<1>2. CASE SupervisorTimerInterrupt
  <2>1. /\ cpu'.at = "handler" /\ csr'.sepc = cpu.at /\ mem'.frame = regs
    BY <1>2, Zenon DEF IInv, Shape, CsrNames, SupervisorTimerInterrupt, Goto
  <2>2. QED
    BY <1>1, <2>1, Zenon
       DEF Control, SPlaces, Ecalls, Asked, InTrap, ConsolePlaces
<1>3. CASE Call \/ HandlerCall
  <2>1. PICK call, a : /\ a \in Arguments(call)
                       /\ regs' = [regs EXCEPT !.a0 = a, !.a1 = 0, !.a7 = call]
                       /\ cpu'.at \in Ecalls /\ csr' = csr /\ mem' = mem
    BY <1>3, Zenon DEF IInv, Shape, Call, HandlerCall, Prepare, Goto, Ecalls
  <2>2. regs'.a0 = a /\ regs'.a7 = call
    BY <2>1, Zenon DEF IInv, Shape, Registers
  <2>3. build.Targets \subseteq 0..NEVER
    BY BuildsAssumption, Zenon DEF IInv, Shape
  <2>4. Asked(cpu'.at, regs')
    BY <2>1, <2>2, <2>3, Zenon DEF Asked, Arguments
  <2>5. QED
    BY <1>1, <2>1, <2>4, Zenon
       DEF Control, SPlaces, Ecalls, InTrap, ConsolePlaces
<1>4. CASE EnableTimer
  <2>1. cpu' = cpu /\ regs' = regs /\ mem' = mem /\ csr'.sepc = csr.sepc
    BY <1>4, Zenon DEF IInv, Shape, CsrNames, EnableTimer
  <2>2. QED
    BY <1>1, <2>1, Zenon DEF Control, SPlaces, InTrap, ConsolePlaces
<1>5. CASE Sret
  <2>1. /\ cpu'.at = csr.sepc /\ csr'.sepc = csr.sepc /\ regs' = mem.frame
        /\ mem' = mem
    BY <1>5, Zenon DEF IInv, Shape, CsrNames, Sret, Goto
  <2>2. QED
    BY <1>1, <2>1, Zenon DEF Control, SPlaces, InTrap, ConsolePlaces
<1>6. QED
  BY <1>2, <1>3, <1>4, <1>5, Zenon

\* trap_entry.S and sbi.c, up to the return.
LEMMA ServingControl ==
    ASSUME IInv, Control, Swap \/ Save \/ Dispatch \/ WriteMip
    PROVE  Control'
<1>0. mtimecmp' = mtimecmp
  BY Tick, Zenon DEF IInv, Swap, Save, Dispatch, WriteMip
<1>1. /\ mtimecmp' = mtimecmp /\ ctx' = ctx /\ armed'.target = armed.target
      /\ cpu.mode = "M" /\ cpu'.mode = "M" /\ cpu.at # "boot"
      /\ csr'.sepc = csr.sepc /\ csr'.mcause = csr.mcause
      /\ mem'.frame = mem.frame
  <2>1. cpu.mode = "M" /\ cpu'.mode = "M" /\ cpu.at # "boot"
    <3>1. \E place \in MPlaces \ {"boot"} : At("M", place)
      BY Zenon DEF Swap, Save, Dispatch, WriteMip, MPlaces, Arming
    <3>2. \E label : Goto(label)
      BY Zenon DEF Swap, Save, Dispatch, WriteMip
    <3>3. QED
      BY <3>1, <3>2 DEF At, Goto
  <2>2. ctx' = ctx /\ armed'.target = armed.target
    BY Zenon DEF IInv, Shape, history, Swap, Save, Dispatch, WriteMip
  <2>3. csr'.sepc = csr.sepc /\ csr'.mcause = csr.mcause
    BY Zenon DEF IInv, Shape, CsrNames, Swap, Save, Dispatch, WriteMip
  <2>4. mem'.frame = mem.frame
    BY Zenon DEF IInv, Shape, Swap, Save, Dispatch, WriteMip
  <2>5. QED
    BY <1>0, <2>1, <2>2, <2>3, <2>4, Zenon
<1>2. /\ cpu'.at \in {"save", "dispatch", "mtimecmp", "lsr", "halt", "return"}
      /\ cpu'.at = "lsr" => csr.mcause # "timer"
  BY Zenon DEF IInv, Shape, Swap, Save, Dispatch, DispatchTo, WriteMip, Goto
<1>3. csr.mcause \in {"ecall", "timer"}
  BY <1>1, Zenon DEF IInv, Causes, InTrap
<1>4. QED
  BY <1>1, <1>2, <1>3, Zenon
     DEF Control, MPlaces, Serving, Arming, ConsolePlaces, InTrap

\* The stores to mtimecmp and the accesses to the serial port.
LEMMA BusControl ==
    ASSUME IInv, Control,
           WriteMtimecmp \/ LoadStart \/ LsrEnd \/ RbrEnd \/ WriteThr
    PROVE  Control'
<1>1. /\ ctx' = ctx /\ armed' = armed /\ csr' = csr
      /\ cpu.mode = "M" /\ cpu'.mode = "M"
      /\ mem'.frame = mem.frame /\ mem'.saved = mem.saved
      /\ cpu.at \in ConsolePlaces \cup {"mtimecmp"}
  BY DEF IInv, Shape, history, WriteMtimecmp, LoadStart, LsrEnd, RbrEnd,
     WriteThr, At, Goto, ConsolePlaces
<1>2. /\ cpu'.at \in ConsolePlaces \cup {"mip", "return"}
      /\ cpu'.at \in ConsolePlaces => cpu.at \in ConsolePlaces
      /\ cpu'.at = "thr" => mem.saved.a7 = "putchar"
  BY DEF IInv, Shape, WriteMtimecmp, LoadStart, LsrEnd, RbrEnd, WriteThr, At,
     Goto, ConsolePlaces
<1>3. mtimecmp' = IF cpu.at # "mtimecmp" THEN mtimecmp
                  ELSE IF csr.mcause = "ecall" THEN mem.saved.a0 ELSE NEVER
  BY TickBus, Zenon
     DEF IInv, WriteMtimecmp, LoadStart, LsrEnd, RbrEnd, WriteThr
<1>4. mtimecmp' \in 0..NEVER
  <2>1. CASE cpu.at = "mtimecmp" /\ csr.mcause = "ecall"
    <3>1. ctx.regs.a7 = "set_timer" /\ mem.saved = ctx.regs
      BY <1>1, <2>1, Zenon
         DEF IInv, Tracked, Saved, Serving, SettingTimer, Forwarding
    <3>2. ctx.at \in Ecalls
      BY <1>1, <2>1, Zenon DEF Control, InTrap
    <3>3. QED
      BY <1>3, <2>1, <3>1, <3>2, Zenon DEF Control, Asked
  <2>2. CASE ~(cpu.at = "mtimecmp" /\ csr.mcause = "ecall")
    BY <1>3, <2>2, TmaxAssumption DEF Control, NEVER
  <2>3. QED
    BY <2>1, <2>2, Zenon
<1>5. QED
  BY <1>1, <1>2, <1>4, Zenon
     DEF Control, MPlaces, Serving, Arming, ConsolePlaces, InTrap

\* The way back to the supervisor.
LEMMA ReturnControl ==
    ASSUME IInv, Control, Return \/ Restore \/ Mret
    PROVE  Control'
<1>0. mtimecmp' = mtimecmp
  BY Tick, Zenon DEF IInv, Return, Restore, Mret
<1>1. /\ mtimecmp' = mtimecmp /\ ctx' = ctx /\ armed' = armed
      /\ cpu.mode = "M" /\ cpu.at \in {"return", "restore", "mret"}
      /\ csr'.sepc = csr.sepc /\ csr'.mcause = csr.mcause
      /\ mem'.frame = mem.frame
  <2>1. cpu.mode = "M" /\ cpu.at \in {"return", "restore", "mret"}
    BY DEF Return, Restore, Mret, At
  <2>2. ctx' = ctx /\ armed' = armed
    BY Zenon DEF history, Return, Restore, Mret
  <2>3. csr'.sepc = csr.sepc /\ csr'.mcause = csr.mcause
    BY Zenon DEF IInv, Shape, CsrNames, Return, ReturnCsrs, Restore, Mret
  <2>4. mem'.frame = mem.frame
    BY Zenon DEF IInv, Shape, Return, Restore, Mret
  <2>5. QED
    BY <1>0, <2>1, <2>2, <2>3, <2>4, Zenon
<1>2. CASE Return \/ Restore
  <2>1. cpu'.mode = "M" /\ cpu'.at \in {"restore", "mret"}
    BY <1>2 DEF IInv, Shape, Return, Restore, At, Goto
  <2>2. QED
    BY <1>1, <2>1, Zenon DEF Control, MPlaces, ConsolePlaces, InTrap
<1>3. CASE Mret
  <2>1. /\ cpu' = [mode |-> "S", at |-> csr.mepc] /\ AtM("mret") /\ regs' = regs
    BY <1>3, Zenon DEF Mret, At, AtM
  <2>2. csr.mepc = Resume /\ Answered /\ regs = mem.saved
    BY <2>1, Zenon DEF IInv, Saved
  <2>3. Resume \in SPlaces /\ Asked(Resume, regs)
    <3>1. CASE csr.mcause = "ecall"
      <4>1. ctx.at \in Ecalls
        BY <1>1, <3>1, Zenon DEF Control, InTrap
      <4>2. Resume \in {"run", "handler_sret"}
        BY <3>1, <4>1, Zenon DEF Resume, Skip4, Ecalls
      <4>3. QED
        BY <4>2, Zenon DEF SPlaces, Asked, Ecalls
    <3>2. CASE csr.mcause # "ecall"
      BY <2>2, <3>2, Zenon DEF Resume, Answered, Control
    <3>3. QED
      BY <3>1, <3>2, Zenon
  <2>4. QED
    BY <1>1, <2>1, <2>2, <2>3, Zenon
       DEF Control, SPlaces, ConsolePlaces, InTrap
<1>4. QED
  BY <1>2, <1>3, Zenon

----------------------------------------------------------------------------
(* The bytes.                                                              *)

\* What leaves the bus alone leaves the bytes alone.
LEMMA Bystander ==
    ASSUME Exponents, IInv, BInv, Clock(NoBus), cpu.at # "rbr_end",
           cpu'.at = cpu.at \/ cpu'.at \notin {"thr", "rbr", "rbr_end"}
    PROVE  Line' /\ BytesOnce'
<1>1. ~Writes(NoBus, "THR") /\ ~Reads(NoBus, "RBR")
  BY Zenon DEF Writes, Reads, NoBus
<1>2. build \in Builds /\ Line /\ BytesOnce
  BY Zenon DEF BInv, IInv, Shape
<1>3. QED
  BY <1>1, <1>2, QuietClock, Zenon

\* Every step keeps the invariant.
LEMMA BStep ==
    ASSUME Exponents, IInv, BInv, Next
    PROVE  BInv'
<1>0. Control /\ Line /\ BytesOnce /\ build \in Builds /\ Shape
  BY Zenon DEF BInv, IInv, Shape
<1>1. CASE Boot \/ TimerInterrupt \/ Ecall
  <2>1. Control'
    BY <1>0, <1>1, TrapControl, Zenon
  <2>2. /\ Clock(NoBus) /\ cpu.at # "rbr_end" /\ cpu'.at \in {"run", "swap"}
    BY <1>0, <1>1 DEF Control, SPlaces, Boot, TimerInterrupt, Ecall, EnterM, At
  <2>3. QED
    BY <2>1, <2>2, Bystander, Zenon DEF BInv
<1>2. CASE SupervisorTimerInterrupt \/ Call \/ HandlerCall \/ EnableTimer \/ Sret
  <2>1. Control'
    BY <1>0, <1>2, SupervisorControl, Zenon
  <2>2. Clock(NoBus)
    BY <1>2, Zenon
       DEF SupervisorTimerInterrupt, Call, HandlerCall, Prepare, EnableTimer,
       Sret
  <2>3. cpu.mode = "S" /\ cpu'.mode = "S"
    <3>1. cpu.mode = "S" \/ \E from : At("S", from)
      BY <1>2, Zenon DEF SupervisorTimerInterrupt, Call, HandlerCall, Prepare,
         EnableTimer, Sret
    <3>2. cpu' = cpu \/ \E label : Goto(label)
      BY <1>2, Zenon DEF SupervisorTimerInterrupt, Call, HandlerCall, Prepare,
         EnableTimer, Sret
    <3>3. cpu.mode = "S" /\ cpu = [mode |-> cpu.mode, at |-> cpu.at]
      BY <1>0, <3>1 DEF Shape, At
    <3>4. QED
      BY <3>2, <3>3, Zenon DEF Goto
  <2>4. cpu.at # "rbr_end" /\ cpu'.at \notin {"thr", "rbr", "rbr_end"}
    BY <1>0, <2>1, <2>3, Zenon DEF Control, SPlaces
  <2>5. QED
    BY <2>1, <2>2, <2>4, Bystander, Zenon DEF BInv
<1>3. CASE Swap \/ Save \/ Dispatch \/ WriteMip
  <2>1. Control'
    BY <1>0, <1>3, ServingControl, Zenon
  <2>2. Clock(NoBus) /\ cpu.at # "rbr_end"
    <3>1. \E place \in {"swap", "save", "dispatch", "mip"} : At("M", place)
      BY <1>3, Zenon DEF Swap, Save, Dispatch, WriteMip
    <3>2. Clock(NoBus)
      BY <1>3, Zenon DEF Swap, Save, Dispatch, WriteMip
    <3>3. QED
      BY <3>1, <3>2 DEF At
  <2>3. cpu'.at \in {"save", "dispatch", "mtimecmp", "lsr", "halt", "return"}
    BY <1>0, <1>3, Zenon
       DEF Shape, Swap, Save, Dispatch, DispatchTo, WriteMip, Goto
  <2>4. QED
    BY <2>1, <2>2, <2>3, Bystander, Zenon DEF BInv
<1>4. CASE Return \/ Restore \/ Mret
  <2>1. Control'
    BY <1>0, <1>4, ReturnControl, Zenon
  <2>2. Clock(NoBus) /\ cpu.at # "rbr_end"
    BY <1>4 DEF Return, Restore, Mret, At
  <2>3. cpu'.at \in {"restore", "mret"} \/ cpu'.mode = "S"
    <3>1. Goto("restore") \/ Goto("mret") \/ cpu' = [mode |-> "S", at |-> csr.mepc]
      BY <1>4, Zenon DEF Return, Restore, Mret
    <3>2. cpu = [mode |-> cpu.mode, at |-> cpu.at]
      BY <1>0, Zenon DEF Shape
    <3>3. QED
      BY <3>1, <3>2 DEF Goto
  <2>4. cpu'.at \notin {"thr", "rbr", "rbr_end"}
    BY <2>1, <2>3, Zenon DEF Control, SPlaces
  <2>5. QED
    BY <2>1, <2>2, <2>4, Bystander, Zenon DEF BInv
<1>5. CASE WriteMtimecmp \/ (LoadStart /\ cpu.at = "lsr")
  <2>1. Control'
    BY <1>0, <1>5, BusControl, Zenon
  <2>2. /\ Clock(Bus) /\ cpu.at \in {"mtimecmp", "lsr"}
        /\ cpu'.at \in {"mip", "lsr_end"}
    BY <1>0, <1>5 DEF Shape, WriteMtimecmp, LoadStart, At, Goto
  <2>3. ~Writes(Bus, "THR") /\ ~Reads(Bus, "RBR")
    BY <2>2, Zenon DEF Bus, Writes, Reads
  <2>4. QED
    BY <1>0, <2>1, <2>2, <2>3, QuietClock, Zenon DEF BInv
<1>6. CASE (LoadStart /\ cpu.at = "rbr") \/ RbrEnd
  BY <1>0, <1>6, BusControl, RbrStep, Zenon DEF BInv
<1>7. CASE LsrEnd
  BY <1>0, <1>7, BusControl, LsrStep, Zenon DEF BInv
<1>8. CASE WriteThr
  BY <1>0, <1>8, BusControl, ThrStep, Zenon DEF BInv
<1>9. CASE Busy
  <2>1. /\ Clock(NoBus) /\ cpu.at # "rbr_end" /\ cpu' = cpu /\ regs' = regs
        /\ csr' = csr /\ mem' = mem /\ ctx' = ctx /\ armed' = armed
    BY <1>9, Zenon DEF Busy, history
  <2>2. mtimecmp' = mtimecmp
    BY <1>0, <2>1, Tick, Zenon
  <2>3. Control'
    BY <1>0, <2>1, <2>2, Zenon DEF Control, InTrap
  <2>4. QED
    BY <2>1, <2>3, Bystander, Zenon DEF BInv
<1>10. QED
  <2>1. LoadStart => cpu.at = "lsr" \/ cpu.at = "rbr"
    BY Zenon DEF LoadStart
  <2>2. QED
    BY <1>1, <1>2, <1>3, <1>4, <1>5, <1>6, <1>7, <1>8, <1>9, <2>1, Zenon
       DEF Next, Forced, Machine

\* At reset the line is quiet.
LEMMA BStart ==
    ASSUME Exponents, Init
    PROVE  BInv
<1>0. uart \in UartReset(build.Junk)
  BY Zenon DEF Init
<1>1. PICK t \in build.Junk, r \in build.Junk :
        uart = [tx |-> 1, tx_state |-> "IDLE", tx_clk_count |-> 0,
                tx_bit_index |-> 0, tx_shift_reg |-> t,
                rx_state |-> "IDLE", rx_clk_count |-> 0, rx_bit_index |-> 0,
                rx_shift_reg |-> r, rx_data_reg |-> 0,
                rx_ready |-> FALSE, rx_prev |-> 1]
  BY ONLY <1>0 DEF UartReset
<1>2. /\ build \in Builds /\ build.Clks \in Nat \ {0, 1}
      /\ t \in Byte /\ r \in Byte
  BY BuildsAssumption, Zenon DEF Init
<1>3. 0 \in Byte /\ 0 \in 0..BITS - 1 /\ 0 \in 0..build.Clks - 1
  <2>1. 2^BITS \in Nat \ {0}
    BY BitsAssumption, Zenon DEF Exponents
  <2>2. QED
    BY <1>2, <2>1, BitsAssumption DEF Byte
<1>4. UartTypeOK(build.Clks)
  BY <1>1, <1>2, <1>3, Zenon DEF UartTypeOK, UartRegisters, States
<1>5. Framed(uart, line, build.Clks)
  <2>1. Driven(uart)
    BY <1>1 DEF Driven, Level
  <2>2. Quiet(uart)
    BY <1>1, Zenon DEF Quiet
  <2>3. QED
    BY <2>1, <2>2, Zenon DEF Framed, Init
<1>6. Line
  BY <1>4, <1>5, Zenon DEF Line, Init
<1>7. BytesOnce
  BY <1>1, Zenon DEF BytesOnce, Init
<1>8. Control
  <2>1. /\ cpu.mode = "M" /\ cpu.at = "boot" /\ ctx.at = "run"
        /\ csr.sepc = "run"
    BY Zenon DEF Init
  <2>2. mtimecmp = 0 /\ armed.target = BOOT
    BY Zenon DEF Init, TimerReset
  <2>3. QED
    BY <2>1, <2>2, TmaxAssumption
       DEF Control, MPlaces, SPlaces, Ecalls, Asked, InTrap, ConsolePlaces,
           NEVER
<1>9. QED
  BY <1>6, <1>7, <1>8, Zenon DEF BInv

INSTANCE PowerLemmas

\* The laws of powers that the lemmas above start from.
LEMMA Powers == Exponents
BY PowerSum, PowerPositive DEF Exponents

\* BInv holds in every state: the transmitter is half a bit and two clocks
\* ahead of the receiver from the start bit to the stop bit, the bits that
\* have crossed the line are those of the byte in THR, and the firmware writes
\* THR only when nothing is on the line.
THEOREM ConsoleInvariant == Spec => []BInv
<1>1. Init => BInv
  BY Powers, BStart, Zenon
<1>2. IInv /\ BInv /\ [Next]_vars => BInv'
  <2> SUFFICES ASSUME IInv, BInv, [Next]_vars PROVE BInv'
    BY Zenon
  <2>1. CASE Next
    BY <2>1, Powers, BStep, Zenon
  <2>2. CASE UNCHANGED vars
    BY <2>2, Zenon DEF vars, BInv, Control, InTrap, Line, UartTypeOK, BytesOnce
  <2>3. QED
    BY <2>1, <2>2, Zenon
<1>3. QED
  BY <1>1, <1>2, Invariant, PTL DEF Spec

\* Every register of the serial port, the timer and the firmware keeps its
\* type, and at most one byte is on the line and one in RBR.
THEOREM TypeCorrect == Spec => []TypeOK
<1>1. ASSUME IInv, BInv PROVE TypeOK
  <2>1. UartTypeOK(build.Clks)
    BY <1>1, Zenon DEF BInv, Line
  <2>2. /\ TimerTypeOK /\ cpu.mode \in {"M", "S"}
        /\ armed.target \in {BOOT} \cup (0..NEVER)
    BY <1>1, Zenon DEF BInv, Control, IInv, Shape, TimerTypeOK
  <2>3. uart.tx_shift_reg \in Byte /\ uart.rx_data_reg \in Byte
    BY <2>1, Zenon DEF UartTypeOK, UartRegisters
  <2>4. ASSUME NEW b \in Byte PROVE <<b>> \in [1..1 -> Byte] /\ <<>> \in [1..0 -> Byte]
    OBVIOUS
  <2>5. line = <<>> \/ line = <<uart.tx_shift_reg>>
    BY <1>1, Zenon DEF BInv, Line, Framed
  <2>6. held = <<>> \/ held = <<uart.rx_data_reg>>
    BY <1>1, Zenon DEF BInv, Line
  <2>7. line \in [1..0 -> Byte] \/ line \in [1..1 -> Byte]
    BY <2>3, <2>4, <2>5, Zenon
  <2>8. held \in [1..0 -> Byte] \/ held \in [1..1 -> Byte]
    BY <2>3, <2>4, <2>6, Zenon
  <2>9. 0 \in 0..2 /\ 1 \in 0..2 /\ 0 \in 0..1 /\ 1 \in 0..1
    OBVIOUS
  <2>10. /\ line \in UNION {[1..n -> Byte] : n \in 0..2}
         /\ held \in UNION {[1..n -> Byte] : n \in 0..1}
    BY <2>7, <2>8, <2>9, Zenon
  <2>11. QED
    BY <2>1, <2>2, <2>10, Zenon DEF TypeOK
<1>2. QED
  BY <1>1, Invariant, ConsoleInvariant, PTL

\* What the receiver hands over is the byte written to THR, at every number
\* of data bits and every bit period of two clocks or more, however the
\* firmware's accesses fall between the clocks of a frame.
THEOREM ReceivesRight == Spec => []BytesIntact
<1>1. BInv => BytesIntact
  <2>1. ASSUME BInv, held # <<>> PROVE uart.rx_data_reg = held[1]
    <3>1. held = <<uart.rx_data_reg>>
      BY <2>1, Zenon DEF BInv, Line
    <3>2. QED
      BY <3>1, Zenon
  <2>2. QED
    BY <2>1, Zenon DEF BytesIntact
<1>2. QED
  BY <1>1, ConsoleInvariant, PTL

\* Data ready says whether there is an unread byte, and a read of RBR always
\* finds one, also when the next byte comes in between its two clocks.
THEOREM ReadsOnce == Spec => []BytesOnce
<1>1. BInv => BytesOnce
  BY Zenon DEF BInv
<1>2. QED
  BY <1>1, ConsoleInvariant, PTL

===============================================================================
