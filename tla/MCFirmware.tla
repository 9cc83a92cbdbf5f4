------------------------------ MODULE MCFirmware ------------------------------
(***************************************************************************)
(* The systems TLC runs module Firmware on.                                *)
(***************************************************************************)
EXTENDS Firmware

\* Timers: a target that is past, one that is near and none.
TimerBuilds == {
  [Clks |-> 2, Ticks |-> {0, 1}, Junk |-> {0}, Targets |-> {1, 3, NEVER},
   Calls |-> {"set_timer", "unknown"}],
  [Clks |-> 2, Ticks |-> {0, 1}, Junk |-> {0}, Targets |-> {2},
   Calls |-> {"set_timer", "send_ipi", "clear_ipi"}] }

\* The console at the smallest bit periods, within one unit of mtime.
ConsoleBuilds == {
  [Clks |-> c, Ticks |-> {0}, Junk |-> Byte, Targets |-> {},
   Calls |-> {"putchar", "getchar", "shutdown"}] : c \in 2..4}

SocBuilds == TimerBuilds \cup ConsoleBuilds

=============================================================================
