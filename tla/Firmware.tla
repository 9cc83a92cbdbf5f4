------------------------------- MODULE Firmware -------------------------------
(***************************************************************************)
(* The machine-mode firmware (sim/firmware/boot.S, trap_entry.S, sbi.c and *)
(* uart_mmio.h) serving a supervisor (payload.c) through ecalls, with the  *)
(* serial port and the timer on the bus.  A step is a clock.  The M-mode   *)
(* code is cut at its bus accesses and at the instructions that touch      *)
(* mscratch, mip or mepc; a clock may always pass without progress (Busy). *)
(* The uncached build is meant: a load holds the bus for two clocks and    *)
(* returns what the slave shows in the second, a store takes one.          *)
(***************************************************************************)
EXTENDS Uart, Timer, Sequences

CONSTANTS
  Builds          \* the systems: clocks per bit, calls and targets used

ASSUME BuildsAssumption ==
  \A b \in Builds :
    /\ b.Ticks \subseteq Nat /\ b.Targets \subseteq 0..NEVER
    /\ b.Clks \in Nat \ {0, 1} /\ b.Junk \subseteq Byte

VARIABLES
  build,
  cpu,            \* mode and place in the program
  regs,           \* general registers: x5, a0, a1, a7 and s, all the others
  csr,            \* the CSRs the firmware and the payload use
  mem,            \* trap_scratch, trap stack, sbi_dispatch's val, S's stack
  ctx,            \* history: the supervisor's state when it entered M-mode
  armed,          \* history: the timer last asked for, and what came of it
  line,           \* history: bytes written to THR, not yet received
  held            \* history: the byte received and not yet read, if any

vars == <<build, uart, mtime, mtimecmp, cpu, regs, csr, mem, ctx, armed,
          line, held>>

history == <<ctx, armed>>

SBI_SUCCESS == 0
SBI_ERR_NOT_SUPP == -2

BOOT == -1        \* no timer has been asked for

Init ==
  /\ build \in Builds
  /\ uart \in UartReset(build.Junk)
  /\ TimerReset
  /\ cpu = [mode |-> "M", at |-> "boot"]
  /\ regs = [x5 |-> "m", a0 |-> 0, a1 |-> 0, a7 |-> "none", s |-> "m"]
  /\ csr = [mie |-> FALSE, mpie |-> FALSE, sie |-> FALSE, spie |-> FALSE,
            mtie |-> FALSE, stie |-> FALSE, stip |-> FALSE, ssip |-> FALSE,
            mcause |-> "none", mepc |-> "run", sepc |-> "run",
            mscratch |-> "none"]
  /\ mem = [saved |-> regs, stack |-> "none", err |-> 0, val |-> 0,
             frame |-> regs]
  /\ ctx = [at |-> "run", regs |-> regs]
  /\ armed = [target |-> BOOT, forwards |-> 0, ticks |-> 0]
  /\ line = <<>>
  /\ held = <<>>

-----------------------------------------------------------------------------
(* The bus *)

NoBus == [slave |-> "none", we |-> FALSE, reg |-> "none", data |-> 0]

\* What the instruction at hand asks of the bus.
Bus ==
  CASE cpu.at = "mtimecmp" ->
         [slave |-> "timer", we |-> TRUE, reg |-> "MTIMECMP",
          data |-> IF csr.mcause = "ecall" THEN mem.saved.a0 ELSE NEVER]
    [] cpu.at = "thr" -> [slave |-> "uart", we |-> TRUE, reg |-> "THR",
                          data |-> mem.saved.a0]
    [] cpu.at \in {"lsr", "lsr_end"} ->
         [slave |-> "uart", we |-> FALSE, reg |-> "LSR", data |-> 0]
    [] cpu.at \in {"rbr", "rbr_end"} ->
         [slave |-> "uart", we |-> FALSE, reg |-> "RBR", data |-> 0]
    [] OTHER -> NoBus

\* A clock of the devices, with the history of the bytes.
Clock(bus) ==
  LET done == RxDone(uart, build.Clks)
      rest == IF done /\ line # <<>> THEN Tail(line) ELSE line
  IN  /\ \E dt \in build.Ticks : TimerEdge(bus, dt)
      /\ UartEdge(bus, build.Clks)
      /\ line' = IF Writes(bus, "THR") THEN Append(rest, bus.data) ELSE rest
      /\ held' = IF done THEN SubSeq(line, 1, 1)
                 ELSE IF cpu.at = "rbr_end" THEN <<>> ELSE held
      /\ UNCHANGED build

\* The instructions in flight do not advance.
Busy ==
  /\ cpu.at \notin {"lsr_end", "rbr_end"}
  /\ Clock(NoBus)
  /\ UNCHANGED <<cpu, regs, csr, mem, history>>

Goto(label) == cpu' = [cpu EXCEPT !.at = label]

At(mode, label) == cpu = [mode |-> mode, at |-> label]

-----------------------------------------------------------------------------
(* boot.S *)

BootCsrs_NoMpie ==
  csr' = [csr EXCEPT !.mscratch = "base", !.mtie = TRUE, !.mpie = TRUE]

\* mret enters S-mode with MIE restored from the MPIE boot.S has set.
BootCsrs ==
  csr' = [csr EXCEPT !.mscratch = "base", !.mtie = TRUE, !.mie = TRUE,
                     !.mpie = TRUE]

Boot ==
  /\ At("M", "boot")
  /\ Clock(NoBus)
  /\ BootCsrs
  /\ cpu' = [mode |-> "S", at |-> "run"]
  /\ regs' = [x5 |-> "s", a0 |-> 0, a1 |-> 0, a7 |-> "none", s |-> "s"]
  /\ UNCHANGED <<mem, history>>

-----------------------------------------------------------------------------
(* Traps *)

mti_pending == csr.mie /\ csr.mtie /\ pending

sti_pending == csr.sie /\ csr.stie /\ csr.stip

Interrupted == cpu.mode = "S" /\ (mti_pending \/ sti_pending)

EnterM(cause) ==
  /\ cpu' = [mode |-> "M", at |-> "swap"]
  /\ csr' = [csr EXCEPT !.mcause = cause, !.mepc = cpu.at,
                        !.mpie = csr.mie, !.mie = FALSE]
  /\ ctx' = [at |-> cpu.at, regs |-> regs]

TimerInterrupt ==
  /\ cpu.mode = "S"
  /\ mti_pending
  /\ Clock(NoBus)
  /\ EnterM("timer")
  /\ UNCHANGED <<regs, mem, armed>>

\* The forwarded interrupt is delegated: it enters s_trap_handler, whose
\* prologue saves what it uses.
SupervisorTimerInterrupt ==
  /\ cpu.mode = "S"
  /\ ~mti_pending
  /\ sti_pending
  /\ Clock(NoBus)
  /\ Goto("handler")
  /\ csr' = [csr EXCEPT !.sepc = cpu.at, !.spie = csr.sie, !.sie = FALSE]
  /\ mem' = [mem EXCEPT !.frame = regs]
  /\ armed' = [armed EXCEPT !.ticks = 1]
  /\ UNCHANGED <<regs, ctx>>

-----------------------------------------------------------------------------
(* payload.c: calls in any order, interrupts enabled at any time *)

Arguments(call) ==
  CASE call = "set_timer" -> build.Targets
    [] call = "putchar" -> Byte
    [] call = "send_ipi" -> {0, 1}
    [] OTHER -> {0}

Prepare(call, from, to) ==
  /\ At("S", from)
  /\ ~Interrupted
  /\ Clock(NoBus)
  /\ \E a \in Arguments(call) :
       regs' = [regs EXCEPT !.a0 = a, !.a1 = 0, !.a7 = call]
  /\ Goto(to)
  /\ UNCHANGED <<csr, mem, history>>

Call == \E call \in build.Calls : Prepare(call, "run", "ecall")

HandlerCall == Prepare("set_timer", "handler", "handler_ecall")

EnableTimer ==
  /\ At("S", "run")
  /\ ~Interrupted
  /\ build.Targets # {}
  /\ Clock(NoBus)
  /\ csr' = [csr EXCEPT !.sie = TRUE, !.stie = TRUE]
  /\ UNCHANGED <<cpu, regs, mem, history>>

Ecall ==
  /\ cpu.mode = "S"
  /\ cpu.at \in {"ecall", "handler_ecall"}
  /\ ~Interrupted
  /\ Clock(NoBus)
  /\ EnterM("ecall")
  /\ armed' = IF regs.a7 = "set_timer"
              THEN [target |-> regs.a0, forwards |-> 0, ticks |-> 0]
              ELSE armed
  /\ UNCHANGED <<regs, mem>>

Sret ==
  /\ At("S", "handler_sret")
  /\ ~Interrupted
  /\ Clock(NoBus)
  /\ Goto(csr.sepc)
  /\ csr' = [csr EXCEPT !.sie = csr.spie, !.spie = TRUE]
  /\ regs' = mem.frame
  /\ UNCHANGED <<mem, history>>

\* The instruction after an ecall; no other instruction's successor matters.
Skip4(label) ==
  CASE label = "ecall" -> "run"
    [] label = "handler_ecall" -> "handler_sret"
    [] OTHER -> "lost"

-----------------------------------------------------------------------------
(* trap_entry.S *)

Swap ==
  /\ At("M", "swap")
  /\ Clock(NoBus)
  /\ regs' = [regs EXCEPT !.x5 = csr.mscratch]
  /\ csr' = [csr EXCEPT !.mscratch = regs.x5]
  /\ Goto("save")
  /\ UNCHANGED <<mem, history>>

\* The registers go where x5 points; trap_scratch is at "base".
Save ==
  /\ At("M", "save")
  /\ Clock(NoBus)
  /\ mem' = IF regs.x5 = "base"
            THEN [mem EXCEPT !.saved = [regs EXCEPT !.x5 = csr.mscratch],
                             !.stack = regs.x5]
            ELSE mem
  /\ csr' = [csr EXCEPT !.mscratch = regs.x5]
  /\ Goto("dispatch")
  /\ UNCHANGED <<regs, history>>

\* A call may leave anything in x5 and the other caller-saved registers.
Clobbered == [x5 |-> "c", a0 |-> 0, a1 |-> 0, a7 |-> "none", s |-> "c"]

ReturnCsrs_AnyCause ==
  [csr EXCEPT !.mepc = Skip4(csr.mepc)]

\* Only an ecall's own instruction is skipped.
ReturnCsrs ==
  IF csr.mcause = "ecall" THEN [csr EXCEPT !.mepc = Skip4(csr.mepc)] ELSE csr

\* sbi_dispatch's results go to the saved a0 and a1; x5 is popped.
Return ==
  /\ At("M", "return")
  /\ Clock(NoBus)
  /\ csr' = ReturnCsrs
  /\ regs' = [regs EXCEPT !.x5 = mem.stack]
  /\ mem' = IF csr.mcause = "ecall"
            THEN [mem EXCEPT !.saved.a0 = mem.err, !.saved.a1 = mem.val]
            ELSE mem
  /\ Goto("restore")
  /\ UNCHANGED history

Restore ==
  /\ At("M", "restore")
  /\ Clock(NoBus)
  /\ regs' = IF regs.x5 = "base" THEN mem.saved ELSE regs
  /\ Goto("mret")
  /\ UNCHANGED <<csr, mem, history>>

Mret ==
  /\ At("M", "mret")
  /\ Clock(NoBus)
  /\ cpu' = [mode |-> "S", at |-> csr.mepc]
  /\ csr' = [csr EXCEPT !.mie = csr.mpie, !.mpie = TRUE]
  /\ UNCHANGED <<regs, mem, history>>

-----------------------------------------------------------------------------
(* sbi.c *)

DispatchTo(call) ==
  CASE call = "set_timer" -> "mtimecmp"
    [] call \in {"putchar", "getchar"} -> "lsr"
    [] call = "shutdown" -> "halt"
    [] OTHER -> "return"

Dispatch ==
  /\ At("M", "dispatch")
  /\ Clock(NoBus)
  /\ regs' = Clobbered
  /\ IF csr.mcause = "timer"
     THEN /\ Goto("mtimecmp")
          /\ UNCHANGED <<csr, mem>>
     ELSE LET call == mem.saved.a7
          IN  /\ Goto(DispatchTo(call))
              /\ csr' = [csr EXCEPT
                   !.ssip = IF call = "clear_ipi" THEN FALSE
                            ELSE @ \/ (call = "send_ipi" /\ mem.saved.a0 = 1)]
              /\ mem' = [mem EXCEPT !.val = 0,
                                    !.err = IF call = "unknown"
                                            THEN SBI_ERR_NOT_SUPP
                                            ELSE SBI_SUCCESS]
  /\ UNCHANGED history

WriteMtimecmp_Unmasked ==
  /\ At("M", "mtimecmp")
  /\ Clock(IF csr.mcause = "ecall" THEN Bus ELSE NoBus)
  /\ Goto("mip")
  /\ UNCHANGED <<regs, csr, mem, history>>

\* CLINT_MTIMECMP = target, or all ones when the interrupt is forwarded.
WriteMtimecmp ==
  /\ At("M", "mtimecmp")
  /\ Clock(Bus)
  /\ Goto("mip")
  /\ UNCHANGED <<regs, csr, mem, history>>

Stip_NotCleared == csr.stip \/ csr.mcause = "timer"

\* set_timer clears mip.STIP, forwarding sets it.
Stip == csr.mcause = "timer"

WriteMip ==
  /\ At("M", "mip")
  /\ Clock(NoBus)
  /\ csr' = [csr EXCEPT !.stip = Stip]
  /\ armed' = IF csr.mcause = "timer" /\ armed.forwards < 2
              THEN [armed EXCEPT !.forwards = @ + 1] ELSE armed
  /\ Goto("return")
  /\ UNCHANGED <<regs, mem, ctx>>

\* The first clock of a load: the address is on the bus.
LoadStart ==
  /\ cpu.mode = "M"
  /\ cpu.at \in {"lsr", "rbr"}
  /\ Clock(Bus)
  /\ Goto(IF cpu.at = "lsr" THEN "lsr_end" ELSE "rbr_end")
  /\ UNCHANGED <<regs, csr, mem, history>>

\* uart_putchar polls until THRE; uart_getchar looks at DR once.
LsrEnd ==
  LET lsr == UartRead(uart, "LSR")
  IN  /\ At("M", "lsr_end")
      /\ Clock(Bus)
      /\ IF mem.saved.a7 = "putchar"
         THEN /\ Goto(IF lsr.THRE THEN "thr" ELSE "lsr")
              /\ UNCHANGED mem
         ELSE /\ Goto(IF lsr.DR THEN "rbr" ELSE "return")
              /\ mem' = [mem EXCEPT !.val = IF lsr.DR THEN @ ELSE -1]
      /\ UNCHANGED <<regs, csr, history>>

RbrEnd ==
  /\ At("M", "rbr_end")
  /\ Clock(Bus)
  /\ mem' = [mem EXCEPT !.val = UartRead(uart, "RBR")]
  /\ Goto("return")
  /\ UNCHANGED <<regs, csr, history>>

WriteThr ==
  /\ At("M", "thr")
  /\ Clock(Bus)
  /\ Goto("return")
  /\ UNCHANGED <<regs, csr, mem, history>>

-----------------------------------------------------------------------------
Machine ==
  \/ Boot \/ Swap \/ Save \/ Dispatch \/ WriteMtimecmp \/ WriteMip
  \/ LoadStart \/ LsrEnd \/ RbrEnd \/ WriteThr \/ Return \/ Restore \/ Mret

\* What the processor does unless it is busy.
Forced ==
  \/ Machine \/ TimerInterrupt \/ SupervisorTimerInterrupt
  \/ Ecall \/ HandlerCall \/ Sret

Next == Forced \/ Call \/ EnableTimer \/ Busy

\* The pipeline does not stall forever, and mtime counts.
Fairness == WF_vars(Forced) /\ WF_vars(Next /\ mtime' # mtime)

Spec == Init /\ [][Next]_vars /\ Fairness

-----------------------------------------------------------------------------
(* Properties *)

\* Every register has its type: the frame counters of the serial port stay
\* within a bit and a byte, and at most two bytes are between THR and RBR.
TypeOK ==
  /\ UartTypeOK(build.Clks)
  /\ TimerTypeOK
  /\ cpu.mode \in {"M", "S"}
  /\ armed.target \in {BOOT} \cup (0..NEVER)
  /\ line \in UNION {[1..n -> Byte] : n \in 0..2}
  /\ held \in UNION {[1..n -> Byte] : n \in 0..1}

\* trap_entry.S gives the supervisor its registers back.  After an interrupt
\* it resumes the interrupted instruction with every register as it was;
\* after an ecall it resumes behind the ecall and only a0 and a1 differ.
Resumed ==
  IF csr.mcause = "ecall"
  THEN /\ cpu'.at = Skip4(ctx.at)
       /\ regs' = [ctx.regs EXCEPT !.a0 = regs'.a0, !.a1 = regs'.a1]
  ELSE /\ cpu'.at = ctx.at
       /\ regs' = ctx.regs

ContextRestored == [][Mret => Resumed]_vars

\* A supervisor timer interrupt is never early: once set_timer was called,
\* s_trap_handler is entered only when the last target asked for is past.
\* (A target replaced while its interrupt was on its way leaves none behind.)
TickTimely ==
  [][SupervisorTimerInterrupt =>
       (armed.target = BOOT \/ armed.target <= mtime)]_vars

\* sbi_dispatch masks the timer when it forwards its interrupt: one call of
\* set_timer takes the machine at most once into M-mode.
ForwardedOnce == armed.forwards <= 1

\* No tick is lost: with its interrupts enabled, the supervisor that asked
\* for a timer is interrupted, unless it asks for none.
TickDelivered ==
  (armed.target \in 0..TMAX /\ armed.ticks = 0 /\ csr.stie)
     ~> (armed.ticks = 1 \/ armed.target = NEVER)

\* The receiver samples right: what it hands over is the oldest byte written
\* to THR that it has not handed over before.
BytesIntact == held # <<>> => uart.rx_data_reg = held[1]

\* A byte is read once and is lost only to the byte after it: data ready says
\* there is an unread byte, also when a read of RBR takes its two clocks
\* while the next byte is finished.
BytesOnce ==
  /\ cpu.at # "rbr_end" => (uart.rx_ready <=> held # <<>>)
  /\ cpu.at \in {"rbr", "rbr_end"} => held # <<>>

\* The polling loop of uart_putchar ends: the transmitter comes to rest.
ConsoleReturns == (cpu.at = "lsr") ~> (cpu.at = "return")

=============================================================================
