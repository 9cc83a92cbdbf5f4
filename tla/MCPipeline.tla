------------------------------ MODULE MCPipeline -----------------------------
(***************************************************************************)
(* The builds and programs TLC runs module Pipeline on.                    *)
(***************************************************************************)
EXTENDS Pipeline

Plain == [Forwarding |-> TRUE, SplitFetch |-> FALSE, Predictor |-> FALSE,
          FetchStalls |-> FALSE, DataStalls |-> FALSE, Interrupts |-> FALSE,
          Ops |-> {}, AmoNotAfter |-> {}, BootNop |-> FALSE, Image |-> {0}]

ReadsMemory == MemReads \cup AmoOps

\* Straight-line programs: forwarding, stalling instead of it, AMOs, and
\* instructions held in EX.
DataBuilds == {
  [Plain EXCEPT !.Ops = {"alu", "load"}, !.Image = {1}],
  [Plain EXCEPT !.Ops = {"load", "store", "beq"}, !.Image = {0, 1}],
  [Plain EXCEPT !.Ops = {"alu", "load", "jal"}, !.Forwarding = FALSE,
                !.Image = {1}],
  [Plain EXCEPT !.Ops = {"li", "amo"}, !.AmoNotAfter = ReadsMemory],
  [Plain EXCEPT !.Ops = {"amo", "lr", "load"}, !.AmoNotAfter = ReadsMemory,
                !.Image = {0, 1}],
  [Plain EXCEPT !.Ops = {"csr", "div"}] }

\* Branches, jumps, traps and interrupts, on each way to fetch.
ControlBuilds == {
  [Plain EXCEPT !.Ops = {"li", "beq", "jalr", "ecall"}],
  [Plain EXCEPT !.Ops = {"li", "beq", "load", "jal"}, !.SplitFetch = TRUE,
                !.BootNop = TRUE, !.FetchStalls = TRUE],
  [Plain EXCEPT !.Ops = {"li", "beq"}, !.Predictor = TRUE],
  [Plain EXCEPT !.Ops = {"mret", "beq", "load"}, !.Interrupts = TRUE,
                !.FetchStalls = TRUE] }

ProgramBuilds == DataBuilds \cup ControlBuilds

\* Translation and fetch misses of any length, around memory accesses and
\* around a divide.
Misses == [Plain EXCEPT !.FetchStalls = TRUE, !.DataStalls = TRUE, !.Image = {1}]
StallBuilds == {[Misses EXCEPT !.Ops = {"load", "store"}],
                [Misses EXCEPT !.Ops = {"load", "div"}]}

\* A faulting load, whose redirect the builds above leave out.
TrapLostBuilds == {[Plain EXCEPT !.Ops = {"li", "lpf"}]}

=============================================================================
