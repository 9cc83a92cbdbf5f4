------------------------------- MODULE Debugger -------------------------------
(***************************************************************************)
(* The interactive debugger over the simulator (sim/tools/debugger.py):    *)
(* the class Debugger and the commands of repl that change its state.  An  *)
(* iteration of the loop in run_until is a step; continuing is FALSE at    *)
(* the prompt.                                                             *)
(***************************************************************************)
EXTENDS IssRun

CONSTANTS
  COMMANDS,     \* bound: commands typed in a session
  MAX_CONTINUE, \* max_steps of run_until (200000 in the code)
  ADDRS         \* where breakpoints may be set

VARIABLES
  words,        \* the program
  m,            \* iss, the simulator
  breakpoints, history,
  continuing, steps, stopped,   \* run_until: running, its steps, its status
  commands      \* commands typed so far
debuggerVars == <<breakpoints, history, continuing, steps, stopped, commands>>

Debugger_init ==
  /\ breakpoints = {} /\ history = <<>> /\ commands = 0
  /\ continuing = FALSE /\ steps = 0 /\ stopped = "no"

word_at(pc) ==
  LET i == (pc \div 4) + 1
  IN  IF i \in DOMAIN words THEN words[i] ELSE Word(0, 0, 0, 0, 0, 0)
at_end == m.pc >= 4 * Len(words)

step_one ==
  /\ ~at_end
  /\ history' = Append(history, m.pc)
  /\ m' \in step(m, word_at(m.pc))

\* An exception of the simulator ends the debugger.
Alive == m.status # "raised"

Command ==
  Alive /\ ~continuing /\ commands < COMMANDS /\ commands' = commands + 1

\* "step n" is n of these.
StepCommand ==
  /\ Command
  /\ step_one \/ (at_end /\ UNCHANGED <<m, history>>)
  /\ steps' = 0 /\ stopped' = "no"
  /\ UNCHANGED <<words, breakpoints, continuing>>

Continue ==
  /\ Command
  /\ continuing' = TRUE /\ steps' = 0 /\ stopped' = "no"
  /\ UNCHANGED <<words, m, breakpoints, history>>

Break(addr) ==
  /\ Command /\ breakpoints' = breakpoints \cup {addr}
  /\ steps' = 0 /\ stopped' = "no"
  /\ UNCHANGED <<words, m, history, continuing>>

Delete(addr) ==
  /\ Command /\ breakpoints' = breakpoints \ {addr}
  /\ steps' = 0 /\ stopped' = "no"
  /\ UNCHANGED <<words, m, history, continuing>>

\* restart: reset; the breakpoints stay.
Restart ==
  /\ Command
  /\ m' = ISS_init(m.mem_size, m.xlen, NoInterrupt) /\ history' = <<>>
  /\ steps' = 0 /\ stopped' = "no"
  /\ UNCHANGED <<words, breakpoints, continuing>>

\* Mutant: the debugger stops at a breakpoint even before the first step.
AtBreakpoint_Always == m.pc \in breakpoints
AtBreakpoint == m.pc \in breakpoints /\ steps > 0

run_until ==
  /\ Alive /\ continuing
  /\ LET why == IF steps >= MAX_CONTINUE THEN "exceeded"
                ELSE IF at_end THEN "end"
                ELSE IF SelfLoop(word_at(m.pc)) THEN "halted"
                ELSE IF AtBreakpoint THEN "breakpoint"
                ELSE "no"
     IN  IF why = "no"
         THEN step_one /\ steps' = steps + 1 /\ UNCHANGED <<continuing, stopped>>
         ELSE /\ continuing' = FALSE /\ stopped' = why
              /\ UNCHANGED <<m, history, steps>>
  /\ UNCHANGED <<words, breakpoints, commands>>

DebuggerNext ==
  \/ StepCommand \/ Continue \/ Restart \/ run_until
  \/ \E addr \in ADDRS : Break(addr) \/ Delete(addr)

(***************************************************************************)
(* A continue stops where it was asked to: after its first instruction it  *)
(* executes none that has a breakpoint, it executes one before it stops at *)
(* a breakpoint (or a second continue would never get past it), and the    *)
(* history is the path the simulator took, from its reset to its pc.       *)
(***************************************************************************)
Follows(pc, next) ==
  LET st == IssDecode(word_at(pc), m.xlen)
      jump == IF st.mn \in DOMAIN BRANCH THEN {pc + 4, pc + st.args[3].v}
              ELSE IF st.mn = "jal" THEN {pc + st.args[2].v}
              ELSE {pc + 4}
  IN  next \in jump \/ st.mn \in {"?", "ecall", "ebreak", "mret", "jalr"}
ContinueStops ==
  LET n == Len(history)
      path == Append(history, m.pc)
  IN  /\ \A i \in n - steps + 2 .. n : history[i] \notin breakpoints
      /\ stopped = "breakpoint" => steps > 0 /\ m.pc \in breakpoints
      /\ path[1] = 0
      /\ \A i \in 1 .. n : Follows(path[i], path[i + 1])

=============================================================================
