-------------------------------- MODULE Timer --------------------------------
(***************************************************************************)
(* design/Timer.v at XLEN = 64: the machine timer.  One unit of mtime is   *)
(* many clocks, so a clock may or may not advance it (parameter dt).  Once *)
(* every finite target is past, mtime stops at TMAX: the 64-bit counter    *)
(* never reaches the target NEVER (all ones) the firmware parks it at.     *)
(***************************************************************************)
EXTENDS Integers

CONSTANTS
  TMAX            \* bound on the time modelled

ASSUME TmaxAssumption == TMAX \in Nat

VARIABLES
  mtime,          \* the free-running counter
  mtimecmp        \* its compare register

NEVER == TMAX + 1

\* mtimecmp resets to 0, so the timer is pending from the first clock.
TimerReset == mtime = 0 /\ mtimecmp = 0

pending == mtime >= mtimecmp

TimerEdge(bus, dt) ==
  /\ mtimecmp' = IF bus.slave = "timer" /\ bus.we /\ bus.reg = "MTIMECMP"
                 THEN bus.data ELSE mtimecmp
  /\ mtime' = IF mtime + dt > TMAX THEN TMAX ELSE mtime + dt

TimerTypeOK == mtime \in 0..TMAX /\ mtimecmp \in 0..NEVER

=============================================================================
