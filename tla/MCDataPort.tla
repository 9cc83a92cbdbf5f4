------------------------------ MODULE MCDataPort -----------------------------
(***************************************************************************)
(* The builds and programs TLC runs module DataPort on.  Addresses 0 and 2 *)
(* are the two words of one line; 8 and 16 start the lines that compete    *)
(* with it for the two ways of its set.                                    *)
(***************************************************************************)
EXTENDS DataPort

Uncached == [Cached |-> FALSE, Latency |-> 0,
             Ops |-> {"load", "store", "fence"}, LoadAddrs |-> {0, 1, 2},
             StoreAddrs |-> {0, 1, 2}, Widths |-> LoadWidths \cup StoreWidths,
             Rewiden |-> TRUE]
Cached == [Uncached EXCEPT !.Cached = TRUE, !.Latency = 1,
                           !.LoadAddrs = {2, 10, 18},
                           !.StoreAddrs = {0, 10, 18},
                           !.Widths = {"lw", "sw"}, !.Rewiden = FALSE]

\* Without a cache at MEM_LATENCY_D = 0; with one at 1 and 2, where loads
\* that may miss are to the last word of their line.
PortBuilds == {
  Uncached,
  Cached,
  [Cached EXCEPT !.Latency = 2, !.Widths = {"lb", "sb", "sw"},
                 !.LoadAddrs = {2, 3}, !.StoreAddrs = {2, 3, 10, 19}] }

\* The same programs with a cache at MEM_LATENCY_D = 0, the default.
CacheFillBuilds == {[Cached EXCEPT !.Latency = 0]}

=============================================================================
