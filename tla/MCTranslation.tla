---------------------------- MODULE MCTranslation ----------------------------
(***************************************************************************)
(* The builds, programs and page tables TLC runs module Translation on.    *)
(***************************************************************************)
EXTENDS Translation

LeafTo(frame, perm) == [v |-> TRUE, perm |-> perm, ppn |-> frame]
TableAt(frame) == [v |-> TRUE, perm |-> {}, ppn |-> frame]
Pair(zero, one) == [i \in {0, 1} |-> IF i = 0 THEN zero ELSE one]
Tables(root, first, second) ==
  [f \in Frame |-> CASE f = Root -> root [] f = 1 -> first [] f = 2 -> second
                     [] OTHER -> Pair(NoPte, NoPte)]
Blank == Pair(NoPte, NoPte)

RX == {"r", "x"}
RW == {"r", "w"}
RWX == {"r", "w", "x"}

\* "supervisor": pages 0 and 1 in a second-level table, 2 and 3 a superpage
\* that competes with them for the TLB; page 1 is not executable.
\* "user": 0 and 3 are the user's, 1 is a table where a page should be.
\* "misaligned": the superpage is.
\* "before", "after": they differ in where page 1 is and what it permits.
\* "deep": Sv39, a table of pages behind a table of tables, and a superpage
\* at each level above.
WalkTables ==
  [supervisor |-> Tables(Pair(TableAt(1), LeafTo(2, RWX)),
                         Pair(LeafTo(2, RX), LeafTo(3, RW)), Blank),
   user |-> Tables(Pair(TableAt(1), TableAt(2)),
                   Pair(LeafTo(2, RX \cup {"u"}), TableAt(1)),
                   Pair(LeafTo(3, RX), LeafTo(1, RWX \cup {"u"}))),
   misaligned |-> Tables(Pair(TableAt(1), LeafTo(3, RWX)),
                         Pair(LeafTo(2, RWX), NoPte), Blank),
   before |-> Tables(Pair(TableAt(1), TableAt(2)),
                     Pair(LeafTo(2, RX), LeafTo(3, RW)),
                     Pair(LeafTo(2, RX), NoPte)),
   after |-> Tables(Pair(TableAt(1), TableAt(2)),
                    Pair(LeafTo(2, RX), LeafTo(2, {"r"})),
                    Pair(LeafTo(3, RX), NoPte)),
   deep |-> Tables(Pair(TableAt(1), LeafTo(4, RWX)),
                   Pair(TableAt(2), LeafTo(2, RW)),
                   Pair(LeafTo(1, RX), TableAt(1)))]

Sv32 == [Levels |-> 2, Cached |-> TRUE, Privs |-> {"S"},
         Ops |-> {"nop", "load", "store", "jump", "ecall", "sfence"},
         Code |-> {0, 1, 2}, Data |-> {1, 2}, Tables |-> {"supervisor"},
         Overlap |-> FALSE, Orphans |-> FALSE]
Uncached == [Sv32 EXCEPT !.Cached = FALSE, !.Code = {0, 2}, !.Data = {1},
                         !.Tables = {"before", "after"},
                         !.Ops = {"nop", "load", "remap", "sfence", "jump"}]

Sv39 == [Sv32 EXCEPT !.Levels = 3, !.Code = {0, 1, 2, 6}, !.Data = {3, 5},
                     !.Tables = {"deep"}, !.Ops = {"nop", "load", "jump"}]

WalkBuilds == {
  Sv32,
  [Sv32 EXCEPT !.Privs = {"S", "U"}, !.Tables = {"user"}, !.Data = {0, 3},
               !.Ops = {"nop", "store", "sfence", "ecall"}],
  [Sv32 EXCEPT !.Tables = {"misaligned"}, !.Ops = {"nop", "store", "fence"}],
  Uncached,
  Sv39 }

\* The same programs where a walk may start behind an access.
OverlapBuilds == {[Uncached EXCEPT !.Overlap = TRUE]}

\* A page that cannot be executed, and one that can behind it.
OrphanBuilds == {
  [Sv32 EXCEPT !.Ops = {"nop", "jump"}, !.Orphans = TRUE]}
=============================================================================
