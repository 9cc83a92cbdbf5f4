----------------------------- MODULE IssTranslate -----------------------------
(***************************************************************************)
(* Address translation in the instruction-set simulator (sim/tools/iss.py: *)
(* translate, _translate_sv32, _translate_sv39, _pte_perm_ok).             *)
(*                                                                         *)
(* A page-table entry is a record of v, perm (a subset of r, w, x, u) and  *)
(* ppn; tables[frame][i] is the entry with index i of the table in a frame *)
(* (_read_pte, _read_pte64).  Every level indexes its table with bits bits *)
(* of the page number: 10 in Sv32 and 9 in Sv39.  access is "x" for a      *)
(* fetch, "r" for a load and "w" for a store.                              *)
(***************************************************************************)
EXTENDS Integers

Fault == [fault |-> TRUE, ppn |-> 0]
Physical(ppn) == [fault |-> FALSE, ppn |-> ppn]

vpn(page, level, bits) == (page \div 2^(level * bits)) % 2^bits

_pte_perm_ok(pte, access, priv_is_u) ==
  /\ access \in pte.perm
  /\ IF priv_is_u THEN "u" \in pte.perm ELSE "u" \notin pte.perm
IsLeaf(pte) == pte.perm \cap {"r", "w", "x"} # {}

\* A leaf above level 0: its low frame bits must be 0 and come from the page.
Superpage(pte, level, page, access, priv_is_u, bits) ==
  LET size == 2^(level * bits)
  IN  IF pte.ppn % size # 0 \/ ~_pte_perm_ok(pte, access, priv_is_u) THEN Fault
      ELSE Physical((pte.ppn \div size) * size + (page % size))

BottomLevel(pte, access, priv_is_u) ==
  IF ~pte.v \/ ~IsLeaf(pte) \/ ~_pte_perm_ok(pte, access, priv_is_u) THEN Fault
  ELSE Physical(pte.ppn)

_translate_sv32(tables, satp_ppn, page, access, priv_is_u, bits) ==
  LET pte1 == tables[satp_ppn][vpn(page, 1, bits)]
      pte0 == tables[pte1.ppn][vpn(page, 0, bits)]
  IN  IF ~pte1.v THEN Fault
      ELSE IF IsLeaf(pte1)
      THEN Superpage(pte1, 1, page, access, priv_is_u, bits)
      ELSE BottomLevel(pte0, access, priv_is_u)

_translate_sv39(tables, satp_ppn, page, access, priv_is_u, bits) ==
  LET pte2 == tables[satp_ppn][vpn(page, 2, bits)]
      pte1 == tables[pte2.ppn][vpn(page, 1, bits)]
      pte0 == tables[pte1.ppn][vpn(page, 0, bits)]
  IN  IF ~pte2.v THEN Fault
      ELSE IF IsLeaf(pte2)
      THEN Superpage(pte2, 2, page, access, priv_is_u, bits)
      ELSE IF ~pte1.v THEN Fault
      ELSE IF IsLeaf(pte1)
      THEN Superpage(pte1, 1, page, access, priv_is_u, bits)
      ELSE BottomLevel(pte0, access, priv_is_u)

\* mode is satp.MODE: "bare", or the scheme of the build.
translate(tables, mode, satp_ppn, page, access, priv_mode, bits) ==
  IF priv_mode = "M" \/ mode = "bare" THEN Physical(page)
  ELSE IF mode = "sv32"
  THEN _translate_sv32(tables, satp_ppn, page, access, priv_mode = "U", bits)
  ELSE _translate_sv39(tables, satp_ppn, page, access, priv_mode = "U", bits)

=============================================================================
